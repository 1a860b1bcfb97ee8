----------------------------- MODULE DiskProofs -------------------------------
(***************************************************************************)
(* Theorems about what the program keeps on disk, for any number of        *)
(* operations, recordings, voices and archives: the byte ledger of the     *)
(* reservations (DiskReservations), recordings (Captures), immutable       *)
(* voices (VoiceSnapshots), imports and exports (Archives), and a backend  *)
(* that is installed (BackendInstall).                                     *)
(***************************************************************************)
EXTENDS DiskReservations, Captures, VoiceSnapshots, Archives, BackendInstall, SequenceTheorems, DataLemmas

-----------------------------------------------------------------------------
(* Disk-space reservations.                                                *)

ReservationsSpec == ReservationsInit /\ [][ReservationsNext]_reservationVars

(* No operation has written more than it claimed, and what was written was  *)
(* free before.                                                             *)
UsedBytes == SumFunctionOnSet([l \in Leases |-> lease[l].used], Leases)
SpaceIsShared ==
    /\ \A l \in Leases : lease[l].used <= lease[l].bytes
    /\ \A l \in LiveLeases : lease[l].floor \in Floors
    /\ free + outside + UsedBytes <= Capacity

(* What the holder of the lock has read is at most what there is: bytes of  *)
(* claims may have been counted twice since, but none has been counted by   *)
(* neither.                                                                 *)
MeasureIsSafe ==
    /\ admission.by = "reserve" =>
          /\ lease[admission.lease].state = "none"
          /\ admission.free - reserved <= free + outside - OutstandingBytes
    /\ admission.by = "resize" =>
          /\ LiveLease(admission.lease)
          /\ admission.free - (reserved - lease[admission.lease].bytes)
                <= free + outside - (OutstandingBytes - Outstanding(admission.lease))

(* ReservationsTypeOK of every variable that the ledger's arithmetic is about. *)
LedgerTypes ==
    /\ free \in 0..Capacity
    /\ lease \in [Leases -> Records]
    /\ reserved \in Nat
    /\ IsABag(floors) /\ BagToSet(floors) \subseteq Floors
    /\ admission = Nobody
          \/ admission \in [by : {"reserve", "resize"}, lease : Leases, bytes : Sizes,
                            floor : Floors, free : 0..Capacity]
    /\ outside \in 0..MaxOutside

LedgerInv == LedgerTypes /\ LedgerExact /\ SpaceIsShared /\ MeasureIsSafe

-----------------------------------------------------------------------------
(* One lease at a time. *)
LEMMA RecordTypes ==
    \A r \in Records : r.bytes \in Nat /\ r.floor \in Nat /\ r.used \in Nat /\ r.state \in {"none", "live", "released"}
<1> SUFFICES ASSUME NEW r \in Records
             PROVE  r.bytes \in Nat /\ r.floor \in Nat /\ r.used \in Nat /\ r.state \in {"none", "live", "released"}
  OBVIOUS
<1>1. /\ r.bytes \in Sizes \cup {0} /\ r.floor \in Floors \cup {0} /\ r.used \in Nat
      /\ r.state \in {"none", "live", "released"}
  BY DEF Records
<1>2. Sizes \cup {0} \subseteq Nat /\ Floors \cup {0} \subseteq Nat
  <2>1. 0 \in Nat
    OBVIOUS
  <2> QED
    BY <2>1, SizesAssumption, Zenon
<1> QED
  BY <1>1, <1>2, Zenon

LEMMA LeaseTypes ==
    ASSUME LedgerTypes
    PROVE  /\ \A l \in Leases : /\ lease[l].bytes \in Nat /\ lease[l].floor \in Nat /\ lease[l].used \in Nat
                                /\ lease[l].state \in {"none", "live", "released"}
           /\ [l \in Leases |-> lease[l].bytes] \in [Leases -> Int]
           /\ [l \in Leases |-> Outstanding(l)] \in [Leases -> Int]
           /\ [l \in Leases |-> lease[l].used] \in [Leases -> Int]
           /\ ClaimedBytes \in Int /\ OutstandingBytes \in Int /\ UsedBytes \in Int
           /\ LiveLeases \in SUBSET Leases /\ IsFiniteSet(LiveLeases)
           /\ free \in Nat /\ outside \in Nat /\ reserved \in Nat
<1>1. \A l \in Leases : /\ lease[l].bytes \in Nat /\ lease[l].floor \in Nat /\ lease[l].used \in Nat
                        /\ lease[l].state \in {"none", "live", "released"}
  <2>1. \A l \in Leases : lease[l] \in Records
    BY DEF LedgerTypes
  <2> QED
    BY <2>1, RecordTypes
<1>2. \A l \in Leases : Outstanding(l) \in Int
  BY <1>1 DEF Outstanding
<1>3. /\ [l \in Leases |-> lease[l].bytes] \in [Leases -> Int]
      /\ [l \in Leases |-> Outstanding(l)] \in [Leases -> Int]
      /\ [l \in Leases |-> lease[l].used] \in [Leases -> Int]
  BY <1>1, <1>2
<1>4. LiveLeases \in SUBSET Leases /\ IsFiniteSet(LiveLeases)
  BY LeasesAssumption, FS_Subset DEF LiveLeases
<1>5. ClaimedBytes \in Int /\ OutstandingBytes \in Int /\ UsedBytes \in Int
  BY <1>3, <1>4, LeasesAssumption, SumType DEF ClaimedBytes, OutstandingBytes, UsedBytes
<1>6. free \in Nat /\ outside \in Nat /\ reserved \in Nat
  BY CapacityAssumption DEF LedgerTypes
<1> QED
  BY <1>1, <1>3, <1>4, <1>5, <1>6

Live(l, n) == IF LiveLease(l) THEN n ELSE 0

LEMMA SumsMove ==
    ASSUME LedgerTypes, LedgerTypes', NEW l \in Leases,
           \A m \in Leases \ {l} : lease'[m] = lease[m]
    PROVE  /\ ClaimedBytes' = ClaimedBytes - Live(l, lease[l].bytes) + Live(l, lease[l].bytes)'
           /\ OutstandingBytes' = OutstandingBytes - Live(l, Outstanding(l)) + Live(l, Outstanding(l))'
           /\ UsedBytes' = UsedBytes - lease[l].used + lease'[l].used
<1> DEFINE C == [m \in Leases |-> lease[m].bytes]
           O == [m \in Leases |-> Outstanding(m)]
           U == [m \in Leases |-> lease[m].used]
           C1 == [m \in Leases |-> lease'[m].bytes]
           O1 == [m \in Leases |-> Outstanding(m)']
           U1 == [m \in Leases |-> lease'[m].used]
           L1 == LiveLeases'
<1>1. /\ C \in [Leases -> Int] /\ O \in [Leases -> Int] /\ U \in [Leases -> Int] /\ LiveLeases \in SUBSET Leases
  BY LeaseTypes
<1>2. /\ C1 \in [Leases -> Int] /\ O1 \in [Leases -> Int] /\ U1 \in [Leases -> Int] /\ L1 \in SUBSET Leases
  <2>1. \A m \in Leases : lease'[m].bytes \in Nat /\ lease'[m].used \in Nat
    <3>1. \A m \in Leases : lease'[m] \in Records
      BY DEF LedgerTypes, Records
    <3> QED
      BY <3>1, RecordTypes
  <2> QED
    BY <2>1 DEF Outstanding, LiveLeases
<1>3. LiveLeases \ {l} = L1 \ {l}
  BY DEF LiveLeases, LiveLease
<1>4. \A m \in Leases \ {l} : C[m] = C1[m] /\ O[m] = O1[m] /\ U[m] = U1[m]
  BY DEF Outstanding
<1>5. /\ ClaimedBytes = SumFunctionOnSet(C, LiveLeases) /\ ClaimedBytes' = SumFunctionOnSet(C1, L1)
      /\ OutstandingBytes = SumFunctionOnSet(O, LiveLeases) /\ OutstandingBytes' = SumFunctionOnSet(O1, L1)
      /\ UsedBytes = SumFunctionOnSet(U, Leases) /\ UsedBytes' = SumFunctionOnSet(U1, Leases)
  BY DEF ClaimedBytes, OutstandingBytes, UsedBytes
<1>6. /\ C[l] = lease[l].bytes /\ O[l] = Outstanding(l) /\ U[l] = lease[l].used
      /\ C1[l] = lease'[l].bytes /\ O1[l] = Outstanding(l)' /\ U1[l] = lease'[l].used
      /\ (l \in LiveLeases <=> LiveLease(l)) /\ (l \in L1 <=> LiveLease(l)')
  BY DEF LiveLeases
<1> HIDE DEF C, O, U, C1, O1, U1, L1
<1>7. ClaimedBytes' = ClaimedBytes - (IF l \in LiveLeases THEN C[l] ELSE 0) + (IF l \in L1 THEN C1[l] ELSE 0)
  BY <1>1, <1>2, <1>3, <1>4, <1>5, LeasesAssumption, SumMoves, SMTT(30)
<1>8. OutstandingBytes' = OutstandingBytes - (IF l \in LiveLeases THEN O[l] ELSE 0) + (IF l \in L1 THEN O1[l] ELSE 0)
  BY <1>1, <1>2, <1>3, <1>4, <1>5, LeasesAssumption, SumMoves, SMTT(30)
<1>9. UsedBytes' = UsedBytes - U[l] + U1[l]
  <2>1. Leases \ {l} = Leases \ {l} /\ Leases \in SUBSET Leases
    OBVIOUS
  <2>2. UsedBytes' = UsedBytes - (IF l \in Leases THEN U[l] ELSE 0) + (IF l \in Leases THEN U1[l] ELSE 0)
    BY <1>1, <1>2, <1>4, <1>5, <2>1, LeasesAssumption, SumMoves
  <2> QED
    BY <2>2
<1> QED
  BY <1>6, <1>7, <1>8, <1>9 DEF Live

(* The leases that ask for floor f. *)
Asking(f) == {l \in LiveLeases : lease[l].floor = f}

LEMMA AskingFacts ==
    ASSUME LedgerTypes, NEW f
    PROVE  IsFiniteSet(Asking(f)) /\ Cardinality(Asking(f)) \in Nat /\ (Cardinality(Asking(f)) = 0 <=> Asking(f) = {})
<1>1. IsFiniteSet(Asking(f))
  BY LeaseTypes, FS_Subset DEF Asking
<1> QED
  BY <1>1, FS_CardinalityType, FS_EmptySet

LEMMA AskingMoves ==
    ASSUME LedgerTypes, LedgerTypes', NEW l \in Leases, NEW f,
           \A m \in Leases \ {l} : lease'[m] = lease[m]
    PROVE  Cardinality(Asking(f)') = Cardinality(Asking(f)) - (IF l \in Asking(f) THEN 1 ELSE 0)
                                                            + (IF l \in Asking(f)' THEN 1 ELSE 0)
<1> DEFINE A == Asking(f)
           B == Asking(f)'
<1>1. IsFiniteSet(A) /\ IsFiniteSet(B)
  <2>1. B \in SUBSET Leases
    BY DEF Asking, LiveLeases
  <2> QED
    BY <2>1, AskingFacts, LeasesAssumption, FS_Subset
<1>2. A \ {l} = B \ {l}
  BY DEF Asking, LiveLeases, LiveLease
<1> HIDE DEF A, B
<1>3. IsFiniteSet(A \ {l}) /\ Cardinality(A \ {l}) \in Nat /\ Cardinality(A) \in Nat /\ Cardinality(B) \in Nat
  BY <1>1, FS_Subset, FS_CardinalityType
<1>4. Cardinality(A) = Cardinality(A \ {l}) + (IF l \in A THEN 1 ELSE 0)
  <2>1. CASE l \in A
    <3>1. Cardinality(A \ {l}) = Cardinality(A) - 1
      BY <1>1, <2>1, FS_RemoveElement
    <3> QED
      BY <1>3, <2>1, <3>1
  <2>2. CASE l \notin A
    <3>1. A \ {l} = A
      BY <2>2
    <3> QED
      BY <1>3, <2>2, <3>1
  <2> QED
    BY <2>1, <2>2
<1>5. Cardinality(B) = Cardinality(B \ {l}) + (IF l \in B THEN 1 ELSE 0)
  <2>1. CASE l \in B
    <3>1. Cardinality(B \ {l}) = Cardinality(B) - 1
      BY <1>1, <2>1, FS_RemoveElement
    <3> QED
      BY <1>2, <1>3, <2>1, <3>1
  <2>2. CASE l \notin B
    <3>1. B \ {l} = B
      BY <2>2
    <3> QED
      BY <1>2, <1>3, <2>2, <3>1
  <2> QED
    BY <2>1, <2>2
<1>6. Cardinality(B) = Cardinality(A) - (IF l \in A THEN 1 ELSE 0) + (IF l \in B THEN 1 ELSE 0)
  <2>1. PICK n \in Nat : n = Cardinality(A \ {l}) /\ n = Cardinality(B \ {l})
    BY <1>2, <1>3
  <2>2. Cardinality(A) = n + (IF l \in A THEN 1 ELSE 0) /\ Cardinality(B) = n + (IF l \in B THEN 1 ELSE 0)
    BY <1>4, <1>5, <2>1
  <2> QED
    BY <2>2
<1> QED
  BY <1>6 DEF A, B

(* Bags: one copy in, one copy out. *)
LEMMA BagAdds ==
    ASSUME NEW b, IsABag(b), NEW f
    PROVE  /\ IsABag(b (+) SetToBag({f})) /\ BagToSet(b (+) SetToBag({f})) = BagToSet(b) \cup {f}
           /\ \A g : CountIn(g, b (+) SetToBag({f})) = CountIn(g, b) + (IF g = f THEN 1 ELSE 0)
<1>1. \A e \in DOMAIN b : b[e] \in Nat /\ b[e] > 0
  BY DEF IsABag
<1> QED
  BY <1>1 DEF IsABag, BagToSet, SetToBag, (+), CountIn, BagIn

LEMMA BagTakes ==
    ASSUME NEW b, IsABag(b), NEW f \in BagToSet(b)
    PROVE  /\ IsABag(b (-) SetToBag({f})) /\ BagToSet(b (-) SetToBag({f})) \subseteq BagToSet(b)
           /\ \A g : CountIn(g, b (-) SetToBag({f})) = CountIn(g, b) - (IF g = f THEN 1 ELSE 0)
<1>1. \A e \in DOMAIN b : b[e] \in Nat /\ b[e] > 0
  BY DEF IsABag
<1> DEFINE h == [e \in DOMAIN b |-> IF e \in DOMAIN SetToBag({f}) THEN b[e] - SetToBag({f})[e] ELSE b[e]]
<1>2. \A e \in DOMAIN b : h[e] = (IF e = f THEN b[e] - 1 ELSE b[e]) /\ h[e] \in Nat
  BY <1>1 DEF SetToBag
<1>3. DOMAIN h = DOMAIN b
  OBVIOUS
<1>4. b (-) SetToBag({f}) = [e \in {d \in DOMAIN h : h[d] > 0} |-> h[e]]
  BY DEF (-)
<1> HIDE DEF h
<1> QED
  BY <1>1, <1>2, <1>3, <1>4, SMTT(30) DEF IsABag, BagToSet, CountIn, BagIn

(* Max of FiniteSetsExt. *)
LEMMA MaxBounds ==
    ASSUME NEW S \in SUBSET Int, IsFiniteSet(S), S # {}
    PROVE  Max(S) \in S /\ \A x \in S : Max(S) >= x
BY GreatestExists DEF Max

-----------------------------------------------------------------------------
(* The ledger and the leases. *)
LEMMA OwnEntries ==
    ASSUME LedgerInv, NEW l \in Leases, LiveLease(l)
    PROVE  lease[l].floor \in BagToSet(floors) /\ lease[l].bytes <= reserved
<1>1. LedgerTypes /\ LedgerExact /\ SpaceIsShared
  BY DEF LedgerInv
<1>2. l \in LiveLeases /\ lease[l].floor \in Floors
  BY <1>1 DEF LiveLeases, SpaceIsShared
<1>3. l \in Asking(lease[l].floor)
  BY <1>2 DEF Asking
<1>4. CountIn(lease[l].floor, floors) # 0
  <2>1. CountIn(lease[l].floor, floors) = Cardinality(Asking(lease[l].floor))
    BY <1>1, <1>2 DEF LedgerExact, Asking
  <2>2. Cardinality(Asking(lease[l].floor)) # 0
    BY <1>1, <1>3, AskingFacts
  <2> QED
    BY <2>1, <2>2
<1>5. lease[l].floor \in BagToSet(floors)
  BY <1>4 DEF CountIn, BagIn
<1>6. lease[l].bytes <= ClaimedBytes
  <2> DEFINE c == [m \in Leases |-> lease[m].bytes]
  <2>1. c \in [Leases -> Int] /\ LiveLeases \in SUBSET Leases /\ IsFiniteSet(LiveLeases) /\ \A m \in LiveLeases : c[m] >= 0
    BY <1>1, LeaseTypes
  <2>2. ClaimedBytes = SumFunctionOnSet(c, LiveLeases) /\ c[l] = lease[l].bytes
    BY DEF ClaimedBytes
  <2> HIDE DEF c
  <2>3. c[l] <= SumFunctionOnSet(c, LiveLeases)
    BY <1>2, <2>1, SumOfNats
  <2> QED
    BY <2>2, <2>3
<1> QED
  BY <1>1, <1>5, <1>6 DEF LedgerExact

LEMMA ExactAfter ==
    ASSUME LedgerInv, LedgerTypes', NEW l \in Leases, \A m \in Leases \ {l} : lease'[m] = lease[m],
           reserved' = reserved - Live(l, lease[l].bytes) + Live(l, lease[l].bytes)',
           \A g \in Floors : CountIn(g, floors') = CountIn(g, floors) - (IF l \in Asking(g) THEN 1 ELSE 0)
                                                                     + (IF l \in Asking(g)' THEN 1 ELSE 0)
    PROVE  LedgerExact'
<1>1. LedgerTypes /\ LedgerExact
  BY DEF LedgerInv
<1>2. reserved' = ClaimedBytes'
  <2>1. ClaimedBytes' = ClaimedBytes - Live(l, lease[l].bytes) + Live(l, lease[l].bytes)'
    BY <1>1, SumsMove
  <2>2. reserved = ClaimedBytes
    BY <1>1 DEF LedgerExact
  <2> QED
    BY <2>1, <2>2
<1>3. ASSUME NEW g \in Floors PROVE CountIn(g, floors') = Cardinality(Asking(g)')
  <2>1. CountIn(g, floors) = Cardinality(Asking(g))
    BY <1>1 DEF LedgerExact, Asking
  <2>2. Cardinality(Asking(g)') = Cardinality(Asking(g)) - (IF l \in Asking(g) THEN 1 ELSE 0)
                                                         + (IF l \in Asking(g)' THEN 1 ELSE 0)
    BY <1>1, AskingMoves
  <2> QED
    BY <2>1, <2>2
<1> QED
  BY <1>2, <1>3 DEF LedgerExact, Asking

LEMMA ReplaceFacts ==
    ASSUME LedgerInv, NEW l \in Leases, LiveLease(l), NEW n \in Sizes, NEW f \in Floors, Replace(l, n, f)
    PROVE  /\ reserved' \in Nat /\ lease' \in [Leases -> Records]
           /\ IsABag(floors') /\ BagToSet(floors') \subseteq Floors
           /\ lease'[l] = FreshLease(n, f)
           /\ \A m \in Leases \ {l} : lease'[m] = lease[m]
           /\ \A g : CountIn(g, floors') = CountIn(g, floors) - (IF g = lease[l].floor THEN 1 ELSE 0)
                                                              + (IF g = f THEN 1 ELSE 0)
<1>1. LedgerTypes
  BY DEF LedgerInv
<1>2. lease[l].floor \in BagToSet(floors) /\ lease[l].bytes <= reserved
  BY OwnEntries
<1>3. n \in Nat
  BY SizesAssumption, Zenon
<1>4. reserved' \in Nat
  <2>1. reserved' = (reserved - lease[l].bytes) + n
    BY DEF Replace
  <2> QED
    BY <1>1, <1>2, <1>3, <2>1, LeaseTypes
<1> DEFINE b == floors (-) SetToBag({lease[l].floor})
<1>5. IsABag(floors) /\ BagToSet(floors) \subseteq Floors
  BY <1>1 DEF LedgerTypes
<1>6. /\ IsABag(b) /\ BagToSet(b) \subseteq BagToSet(floors)
      /\ \A g : CountIn(g, b) = CountIn(g, floors) - (IF g = lease[l].floor THEN 1 ELSE 0)
  BY <1>2, <1>5, BagTakes
<1>7. floors' = b (+) SetToBag({f})
  BY DEF Replace
<1> HIDE DEF b
<1>8. IsABag(floors') /\ BagToSet(floors') = BagToSet(b) \cup {f}
      /\ \A g : CountIn(g, floors') = CountIn(g, b) + (IF g = f THEN 1 ELSE 0)
  BY <1>6, <1>7, BagAdds
<1>9. lease' = [lease EXCEPT ![l] = FreshLease(n, f)]
  BY DEF Replace
<1>10. FreshLease(n, f) \in Records
  BY DEF Records, FreshLease
<1>11. lease' \in [Leases -> Records] /\ lease'[l] = FreshLease(n, f)
      /\ \A m \in Leases \ {l} : lease'[m] = lease[m]
  BY <1>1, <1>9, <1>10 DEF LedgerTypes
<1> QED
  BY <1>4, <1>5, <1>6, <1>8, <1>11

-----------------------------------------------------------------------------
(* The steps. *)
LEMMA LedgerInit == ReservationsInit => LedgerInv
<1> SUFFICES ASSUME ReservationsInit PROVE LedgerInv
  OBVIOUS
<1>1. LedgerTypes
  <2>1. NoLease \in Records
    BY DEF NoLease, Records
  <2>2. IsABag(floors) /\ BagToSet(floors) \subseteq Floors
    BY DEF ReservationsInit, EmptyBag, SetToBag, IsABag, BagToSet
  <2> QED
    BY <2>1, <2>2, CapacityAssumption DEF ReservationsInit, LedgerTypes
<1>2. LiveLeases = {} /\ \A l \in Leases : lease[l] = NoLease
  BY DEF ReservationsInit, LiveLeases, LiveLease, NoLease
<1>3. ClaimedBytes = 0 /\ OutstandingBytes = 0
  BY <1>2, SumEmpty DEF ClaimedBytes, OutstandingBytes
<1>4. LedgerExact
  <2>1. ASSUME NEW f \in Floors PROVE CountIn(f, floors) = Cardinality({l \in LiveLeases : lease[l].floor = f})
    <3>1. {l \in LiveLeases : lease[l].floor = f} = {}
      BY <1>2
    <3>2. CountIn(f, floors) = 0
      BY DEF ReservationsInit, EmptyBag, SetToBag, CountIn, BagIn, BagToSet
    <3> QED
      BY <3>1, <3>2, FS_EmptySet
  <2> QED
    BY <1>3, <2>1 DEF ReservationsInit, LedgerExact
<1>5. SpaceIsShared
  <2>1. UsedBytes = 0
    <3> DEFINE u == [l \in Leases |-> lease[l].used]
    <3>1. u \in [Leases -> Int] /\ \A l \in Leases : u[l] = 0
      BY <1>2 DEF NoLease
    <3>2. UsedBytes = SumFunctionOnSet(u, Leases)
      BY DEF UsedBytes
    <3> HIDE DEF u
    <3> QED
      BY <3>1, <3>2, LeasesAssumption, SumOfZeros
  <2>2. \A l \in Leases : lease[l].used <= lease[l].bytes
    BY <1>2 DEF NoLease
  <2> QED
    BY <1>2, <2>1, <2>2, CapacityAssumption DEF ReservationsInit, SpaceIsShared
<1>6. MeasureIsSafe
  BY DEF ReservationsInit, Nobody, MeasureIsSafe
<1> QED
  BY <1>1, <1>4, <1>5, <1>6 DEF LedgerInv

(* A step that leaves the leases and the tables alone. *)
LEMMA SameLedger ==
    ASSUME UNCHANGED <<lease, reserved, floors>>
    PROVE  /\ (LedgerExact => LedgerExact')
           /\ ClaimedBytes' = ClaimedBytes /\ OutstandingBytes' = OutstandingBytes /\ UsedBytes' = UsedBytes
           /\ LiveLeases' = LiveLeases /\ \A l : Outstanding(l)' = Outstanding(l) /\ LiveLease(l)' = LiveLease(l)
<1>1. LiveLeases' = LiveLeases /\ \A l : Outstanding(l)' = Outstanding(l) /\ LiveLease(l)' = LiveLease(l)
  BY DEF LiveLeases, LiveLease, Outstanding
<1>2. ClaimedBytes' = ClaimedBytes /\ OutstandingBytes' = OutstandingBytes /\ UsedBytes' = UsedBytes
  BY <1>1 DEF ClaimedBytes, OutstandingBytes, UsedBytes
<1> QED
  BY <1>1, <1>2 DEF LedgerExact

(* What is left to write is at most what was claimed. *)
LEMMA OutstandingFits ==
    ASSUME LedgerInv
    PROVE  /\ OutstandingBytes <= reserved
           /\ \A l \in LiveLeases : /\ Outstanding(l) <= OutstandingBytes
                                    /\ OutstandingBytes - Outstanding(l) <= reserved - lease[l].bytes
<1> DEFINE o == [l \in Leases |-> Outstanding(l)]
           c == [l \in Leases |-> lease[l].bytes]
<1>1. LedgerTypes /\ LedgerExact /\ SpaceIsShared
  BY DEF LedgerInv
<1>2. /\ o \in [Leases -> Int] /\ c \in [Leases -> Int] /\ LiveLeases \in SUBSET Leases /\ IsFiniteSet(LiveLeases)
      /\ \A l \in Leases : c[l] = lease[l].bytes /\ o[l] = Outstanding(l)
  BY <1>1, LeaseTypes
<1>3. \A l \in Leases : 0 <= o[l] /\ o[l] <= c[l]
  BY <1>1, LeaseTypes DEF SpaceIsShared, Outstanding
<1>4. OutstandingBytes = SumFunctionOnSet(o, LiveLeases) /\ reserved = SumFunctionOnSet(c, LiveLeases)
  BY <1>1 DEF OutstandingBytes, ClaimedBytes, LedgerExact
<1> HIDE DEF o, c
<1>5. OutstandingBytes <= reserved
  BY <1>2, <1>3, <1>4, SumGrows
<1>6. ASSUME NEW l \in LiveLeases
      PROVE  Outstanding(l) <= OutstandingBytes /\ OutstandingBytes - Outstanding(l) <= reserved - lease[l].bytes
  <2> DEFINE oRest == SumFunctionOnSet(o, LiveLeases \ {l})
             cRest == SumFunctionOnSet(c, LiveLeases \ {l})
  <2>1. IsFiniteSet(LiveLeases \ {l}) /\ LiveLeases \ {l} \in SUBSET Leases
    BY <1>2, FS_Subset
  <2>2. SumFunctionOnSet(o, LiveLeases) = o[l] + oRest /\ SumFunctionOnSet(c, LiveLeases) = c[l] + cRest
    BY <1>2, SumTakes
  <2>3. oRest <= cRest /\ oRest \in Int /\ cRest \in Int
    BY <1>2, <1>3, <2>1, SumGrows, SumType
  <2>4. oRest >= 0
    BY <1>2, <1>3, <2>1, SumOfNats
  <2>5. o[l] \in Int /\ c[l] \in Int
    BY <1>2
  <2> HIDE DEF oRest, cRest
  <2>6. o[l] <= o[l] + oRest /\ (o[l] + oRest) - o[l] <= (c[l] + cRest) - c[l]
    BY <2>3, <2>4, <2>5
  <2> QED
    BY <1>2, <1>4, <2>2, <2>6
<1> QED
  BY <1>5, <1>6

LEMMA MeasureStep ==
    ASSUME LedgerInv, NEW l \in Leases, NEW n \in Sizes, NEW f \in Floors, Measure(l, n, f) PROVE LedgerInv'
<1>1. LedgerTypes /\ LedgerExact /\ SpaceIsShared
  BY DEF LedgerInv
<1>2. UNCHANGED <<free, lease, reserved, floors, outside>> /\ lease[l].state = "none"
      /\ admission' = [by |-> "reserve", lease |-> l, bytes |-> n, floor |-> f, free |-> free]
  BY DEF Measure
<1>3. LedgerTypes'
  BY <1>1, <1>2 DEF LedgerTypes
<1>4. LedgerExact' /\ SpaceIsShared' /\ OutstandingBytes' = OutstandingBytes
  BY <1>1, <1>2, SameLedger DEF SpaceIsShared
<1>5. free - reserved <= free + outside - OutstandingBytes
  BY <1>1, LeaseTypes, OutstandingFits
<1>6. MeasureIsSafe'
  BY <1>2, <1>4, <1>5 DEF MeasureIsSafe
<1> QED
  BY <1>3, <1>4, <1>6 DEF LedgerInv

LEMMA MeasureResizeStep ==
    ASSUME LedgerInv, NEW l \in Leases, NEW n \in Sizes, NEW f \in Floors, MeasureResize(l, n, f) PROVE LedgerInv'
<1>1. LedgerTypes /\ LedgerExact /\ SpaceIsShared
  BY DEF LedgerInv
<1>2. UNCHANGED <<free, lease, reserved, floors, outside>> /\ LiveLease(l)
      /\ admission' = [by |-> "resize", lease |-> l, bytes |-> n, floor |-> f, free |-> free]
  BY DEF MeasureResize
<1>3. LedgerTypes'
  BY <1>1, <1>2 DEF LedgerTypes
<1>4. LedgerExact' /\ SpaceIsShared' /\ OutstandingBytes' = OutstandingBytes /\ LiveLease(l)' /\ Outstanding(l)' = Outstanding(l)
  BY <1>1, <1>2, SameLedger DEF SpaceIsShared
<1>5. free - (reserved - lease[l].bytes) <= free + outside - (OutstandingBytes - Outstanding(l))
  <2>1. OutstandingBytes - Outstanding(l) <= reserved - lease[l].bytes
    BY <1>2, OutstandingFits DEF LiveLeases
  <2>2. OutstandingBytes \in Int /\ reserved \in Int /\ free \in Int /\ outside \in Nat /\ lease[l].bytes \in Int /\ Outstanding(l) \in Int
    BY <1>1, LeaseTypes DEF Outstanding
  <2> QED
    BY <2>1, <2>2
<1>6. MeasureIsSafe'
  BY <1>2, <1>4, <1>5 DEF MeasureIsSafe
<1> QED
  BY <1>3, <1>4, <1>6 DEF LedgerInv

LEMMA ReplaceKeeps ==
    ASSUME LedgerInv, NEW l \in Leases, LiveLease(l), NEW n \in Sizes, NEW f \in Floors, Replace(l, n, f),
           UNCHANGED <<free, outside>>, admission' = Nobody
    PROVE  LedgerInv' /\ OutstandingBytes' = (OutstandingBytes - Outstanding(l)) + n
<1>1. LedgerTypes /\ LedgerExact /\ SpaceIsShared
  BY DEF LedgerInv
<1>2. /\ reserved' \in Nat /\ lease' \in [Leases -> Records]
      /\ IsABag(floors') /\ BagToSet(floors') \subseteq Floors
      /\ lease'[l] = FreshLease(n, f)
      /\ \A m \in Leases \ {l} : lease'[m] = lease[m]
      /\ \A g : CountIn(g, floors') = CountIn(g, floors) - (IF g = lease[l].floor THEN 1 ELSE 0)
                                                         + (IF g = f THEN 1 ELSE 0)
  BY ReplaceFacts
<1>3. LedgerTypes'
  BY <1>1, <1>2 DEF LedgerTypes
<1>4. n \in Nat /\ lease'[l].bytes = n /\ lease'[l].floor = f /\ lease'[l].used = 0 /\ LiveLease(l)'
  <2>1. n \in Nat
    BY SizesAssumption, Zenon
  <2> QED
    BY <1>2, <2>1 DEF FreshLease, LiveLease
<1>5. LedgerExact'
  <2>1. reserved' = reserved - Live(l, lease[l].bytes) + Live(l, lease[l].bytes)'
    BY <1>4 DEF Replace, Live
  <2>2. \A g : (l \in Asking(g) <=> g = lease[l].floor) /\ (l \in Asking(g)' <=> g = f)
    BY <1>4 DEF Asking, LiveLeases
  <2>3. \A g \in Floors : CountIn(g, floors') = CountIn(g, floors) - (IF l \in Asking(g) THEN 1 ELSE 0)
                                                                   + (IF l \in Asking(g)' THEN 1 ELSE 0)
    BY <1>2, <2>2
  <2> QED
    BY <1>2, <1>3, <2>1, <2>3, ExactAfter
<1>6. /\ OutstandingBytes' = OutstandingBytes - Live(l, Outstanding(l)) + Live(l, Outstanding(l))'
      /\ UsedBytes' = UsedBytes - lease[l].used + lease'[l].used
  BY <1>1, <1>2, <1>3, SumsMove
<1>7. Outstanding(l)' = n
  BY <1>4 DEF Outstanding
<1>8. SpaceIsShared'
  <2>1. \A m \in Leases : lease'[m].used <= lease'[m].bytes
    BY <1>1, <1>2, <1>4 DEF SpaceIsShared
  <2>2. \A m \in LiveLeases' : lease'[m].floor \in Floors
    BY <1>1, <1>2, <1>4 DEF SpaceIsShared, LiveLeases, LiveLease
  <2>3. UsedBytes' <= UsedBytes
    BY <1>1, <1>4, <1>6, LeaseTypes
  <2>4. free' + outside' + UsedBytes' <= Capacity
    <3>1. UsedBytes' \in Int
      BY <1>1, <1>4, <1>6, LeaseTypes
    <3> QED
      BY <1>1, <2>3, <3>1, LeaseTypes, CapacityAssumption DEF SpaceIsShared
  <2> QED
    BY <2>1, <2>2, <2>4 DEF SpaceIsShared
<1>9. MeasureIsSafe'
  BY DEF MeasureIsSafe, Nobody
<1>10. OutstandingBytes' = (OutstandingBytes - Outstanding(l)) + n
  BY <1>4, <1>6, <1>7 DEF Live
<1> QED
  BY <1>3, <1>5, <1>8, <1>9, <1>10 DEF LedgerInv

LEMMA ShrinkStep ==
    ASSUME LedgerInv, NEW l \in Leases, NEW n \in Sizes, NEW f \in Floors, Shrink(l, n, f) PROVE LedgerInv'
<1>1. LiveLease(l) /\ Replace(l, n, f) /\ UNCHANGED <<free, outside>> /\ admission' = Nobody
  BY DEF Shrink, LockFree
<1> QED
  BY <1>1, ReplaceKeeps

LEMMA AdmissionTypes ==
    ASSUME LedgerInv, admission.by \in {"reserve", "resize"}
    PROVE  /\ admission.lease \in Leases /\ admission.bytes \in Sizes /\ admission.floor \in Floors
           /\ admission.free \in Nat /\ admission.bytes \in Nat /\ admission.floor \in Nat
<1>1. admission \in [by : {"reserve", "resize"}, lease : Leases, bytes : Sizes, floor : Floors, free : 0..Capacity]
  BY DEF LedgerInv, LedgerTypes, Nobody
<1>2. /\ admission.lease \in Leases /\ admission.bytes \in Sizes /\ admission.floor \in Floors
      /\ admission.free \in 0..Capacity
  BY <1>1
<1>3. admission.bytes \in Nat /\ admission.floor \in Nat
  BY <1>2, SizesAssumption, Zenon
<1> QED
  BY <1>2, <1>3, CapacityAssumption

LEMMA AdmitStep == ASSUME LedgerInv, Admit PROVE LedgerInv'
<1>1. LedgerTypes /\ LedgerExact /\ SpaceIsShared /\ MeasureIsSafe
  BY DEF LedgerInv
<1>2. admission.by = "reserve" /\ admission' = Nobody /\ UNCHANGED <<free, outside>>
  BY DEF Admit
<1>3. PICK l \in Leases, n \in Sizes, f \in Floors :
         l = admission.lease /\ n = admission.bytes /\ f = admission.floor /\ n \in Nat
  BY <1>2, AdmissionTypes
<1>4. lease[l].state = "none"
  BY <1>1, <1>2, <1>3 DEF MeasureIsSafe
<1>5. MeasureIsSafe'
  BY <1>2 DEF MeasureIsSafe, Nobody
<1>6. CASE UNCHANGED <<reserved, floors, lease>>
  <2>1. LedgerTypes'
    BY <1>1, <1>2, <1>6 DEF LedgerTypes
  <2>2. LedgerExact' /\ SpaceIsShared'
    BY <1>1, <1>2, <1>6, SameLedger DEF SpaceIsShared
  <2> QED
    BY <1>5, <2>1, <2>2 DEF LedgerInv
<1>7. CASE reserved' = reserved + n /\ floors' = floors (+) SetToBag({f}) /\ lease' = [lease EXCEPT ![l] = FreshLease(n, f)]
  <2>1. IsABag(floors) /\ BagToSet(floors) \subseteq Floors
    BY <1>1 DEF LedgerTypes
  <2>2. /\ IsABag(floors') /\ BagToSet(floors') = BagToSet(floors) \cup {f}
        /\ \A g : CountIn(g, floors') = CountIn(g, floors) + (IF g = f THEN 1 ELSE 0)
    BY <1>7, <2>1, BagAdds
  <2>3. FreshLease(n, f) \in Records
    BY <1>3 DEF Records, FreshLease
  <2>4. /\ lease' \in [Leases -> Records] /\ lease'[l] = FreshLease(n, f)
        /\ \A m \in Leases \ {l} : lease'[m] = lease[m]
    BY <1>1, <1>3, <1>7, <2>3 DEF LedgerTypes
  <2>5. reserved' \in Nat
    BY <1>1, <1>3, <1>7, LeaseTypes
  <2>6. LedgerTypes'
    BY <1>1, <1>2, <1>3, <2>1, <2>2, <2>4, <2>5 DEF LedgerTypes
  <2>7. ~LiveLease(l) /\ lease'[l].bytes = n /\ lease'[l].floor = f /\ lease'[l].used = 0 /\ LiveLease(l)'
    BY <1>4, <2>4 DEF FreshLease, LiveLease
  <2>8. LedgerExact'
    <3>1. reserved' = reserved - Live(l, lease[l].bytes) + Live(l, lease[l].bytes)'
      BY <1>1, <1>3, <1>7, <2>7, LeaseTypes DEF Live
    <3>2. \A g : l \notin Asking(g) /\ (l \in Asking(g)' <=> g = f)
      BY <1>3, <2>7 DEF Asking, LiveLeases
    <3>3. \A g \in Floors : CountIn(g, floors) \in Int
      BY <2>1 DEF CountIn, IsABag, BagIn, BagToSet
    <3>4. \A g \in Floors : CountIn(g, floors') = CountIn(g, floors) - (IF l \in Asking(g) THEN 1 ELSE 0)
                                                                     + (IF l \in Asking(g)' THEN 1 ELSE 0)
      BY <2>2, <3>2, <3>3
    <3> QED
      BY <1>3, <2>4, <2>6, <3>1, <3>4, ExactAfter
  <2>9. UsedBytes' = UsedBytes - lease[l].used + lease'[l].used
    BY <1>1, <1>3, <2>4, <2>6, SumsMove
  <2>10. SpaceIsShared'
    <3>1. \A m \in Leases : lease'[m].used <= lease'[m].bytes
      BY <1>1, <1>3, <2>4, <2>7 DEF SpaceIsShared
    <3>2. \A m \in LiveLeases' : lease'[m].floor \in Floors
      BY <1>1, <1>3, <2>4, <2>7 DEF SpaceIsShared, LiveLeases, LiveLease
    <3>3. UsedBytes' <= UsedBytes /\ UsedBytes' \in Int
      BY <1>1, <1>3, <2>7, <2>9, LeaseTypes
    <3>4. free' + outside' + UsedBytes' <= Capacity
      BY <1>1, <1>2, <3>3, LeaseTypes, CapacityAssumption DEF SpaceIsShared
    <3> QED
      BY <3>1, <3>2, <3>4 DEF SpaceIsShared
  <2> QED
    BY <1>5, <2>6, <2>8, <2>10 DEF LedgerInv
<1> QED
  BY <1>3, <1>6, <1>7 DEF Admit

LEMMA AdmitResizeStep == ASSUME LedgerInv, AdmitResize PROVE LedgerInv'
<1>1. LedgerTypes /\ LedgerExact /\ SpaceIsShared /\ MeasureIsSafe
  BY DEF LedgerInv
<1>2. admission.by = "resize" /\ admission' = Nobody /\ UNCHANGED <<free, outside>>
  BY DEF AdmitResize
<1>3. admission.lease \in Leases /\ admission.bytes \in Sizes /\ admission.floor \in Floors
  BY <1>2, AdmissionTypes
<1>4. LiveLease(admission.lease)
  BY <1>1, <1>2 DEF MeasureIsSafe
<1>5. CASE UNCHANGED <<reserved, floors, lease>>
  <2>1. LedgerTypes'
    BY <1>1, <1>2, <1>5 DEF LedgerTypes
  <2>2. LedgerExact' /\ SpaceIsShared'
    BY <1>1, <1>2, <1>5, SameLedger DEF SpaceIsShared
  <2>3. MeasureIsSafe'
    BY <1>2 DEF MeasureIsSafe, Nobody
  <2> QED
    BY <2>1, <2>2, <2>3 DEF LedgerInv
<1>6. CASE Replace(admission.lease, admission.bytes, admission.floor)
  BY <1>2, <1>3, <1>4, <1>6, ReplaceKeeps
<1> QED
  BY <1>5, <1>6 DEF AdmitResize

LEMMA ReleaseStep == ASSUME LedgerInv, NEW l \in Leases, ReleaseLease(l) PROVE LedgerInv'
<1>1. LedgerTypes /\ LedgerExact /\ SpaceIsShared
  BY DEF LedgerInv
<1>2. /\ LiveLease(l) /\ admission = Nobody /\ UNCHANGED <<free, admission, outside>>
      /\ floors' = floors (-) SetToBag({lease[l].floor})
      /\ lease' = [lease EXCEPT ![l].state = "released"]
      /\ reserved' = Max({0, reserved - lease[l].bytes})
  BY DEF ReleaseLease, LockFree
<1>3. lease[l].floor \in BagToSet(floors) /\ lease[l].bytes <= reserved
  BY <1>2, OwnEntries
<1>4. reserved' = reserved - lease[l].bytes /\ reserved' \in Nat
  <2> DEFINE d == reserved - lease[l].bytes
  <2>1. d \in Int /\ d >= 0
    BY <1>1, <1>3, LeaseTypes
  <2> HIDE DEF d
  <2>2. {0, d} \in SUBSET Int /\ IsFiniteSet({0, d}) /\ {0, d} # {}
    <3>1. IsFiniteSet({0}) /\ IsFiniteSet({0} \cup {d})
      BY FS_Singleton, FS_AddElement
    <3>2. {0, d} = {0} \cup {d}
      OBVIOUS
    <3> QED
      BY <2>1, <3>1, <3>2
  <2>3. Max({0, d}) \in {0, d} /\ \A x \in {0, d} : Max({0, d}) >= x
    BY <2>2, MaxBounds
  <2>4. Max({0, d}) = d
    BY <2>1, <2>3
  <2> QED
    BY <1>2, <2>1, <2>4 DEF d
<1>5. /\ IsABag(floors') /\ BagToSet(floors') \subseteq Floors
      /\ \A g : CountIn(g, floors') = CountIn(g, floors) - (IF g = lease[l].floor THEN 1 ELSE 0)
  <2>1. IsABag(floors) /\ BagToSet(floors) \subseteq Floors
    BY <1>1 DEF LedgerTypes
  <2> QED
    BY <1>2, <1>3, <2>1, BagTakes
<1>6. /\ lease' \in [Leases -> Records] /\ \A m \in Leases \ {l} : lease'[m] = lease[m]
      /\ lease'[l].state = "released" /\ lease'[l].bytes = lease[l].bytes /\ lease'[l].used = lease[l].used
  <2>1. lease \in [Leases -> Records] /\ lease[l] \in Records
    BY <1>1 DEF LedgerTypes
  <2>2. [lease[l] EXCEPT !.state = "released"] \in Records
    BY <2>1 DEF Records
  <2>3. lease' = [lease EXCEPT ![l] = [lease[l] EXCEPT !.state = "released"]]
    BY <1>2, <2>1
  <2>4. lease'[l] = [lease[l] EXCEPT !.state = "released"]
    BY <2>1, <2>3
  <2>5. lease' \in [Leases -> Records] /\ \A m \in Leases \ {l} : lease'[m] = lease[m]
    BY <2>1, <2>2, <2>3
  <2>6. lease'[l].state = "released" /\ lease'[l].bytes = lease[l].bytes /\ lease'[l].used = lease[l].used
    BY <2>1, <2>4 DEF Records
  <2> QED
    BY <2>5, <2>6
<1>7. LedgerTypes'
  BY <1>1, <1>2, <1>4, <1>5, <1>6 DEF LedgerTypes
<1>8. ~LiveLease(l)'
  BY <1>6 DEF LiveLease
<1>9. LedgerExact'
  <2>1. reserved' = reserved - Live(l, lease[l].bytes) + Live(l, lease[l].bytes)'
    <3>1. Live(l, lease[l].bytes) = lease[l].bytes /\ Live(l, lease[l].bytes)' = 0
      BY <1>2, <1>8 DEF Live
    <3>2. lease[l].bytes \in Int /\ reserved \in Int
      BY <1>1, LeaseTypes
    <3> QED
      BY <1>4, <3>1, <3>2
  <2>2. \A g : (l \in Asking(g) <=> g = lease[l].floor) /\ l \notin Asking(g)'
    BY <1>2, <1>8 DEF Asking, LiveLeases
  <2>3. \A g \in Floors : CountIn(g, floors) \in Int
    BY <1>1 DEF CountIn, LedgerTypes, IsABag, BagIn, BagToSet
  <2>4. \A g \in Floors : CountIn(g, floors') = CountIn(g, floors) - (IF l \in Asking(g) THEN 1 ELSE 0)
                                                                   + (IF l \in Asking(g)' THEN 1 ELSE 0)
    BY <1>5, <2>2, <2>3
  <2> QED
    BY <1>6, <1>7, <2>1, <2>4, ExactAfter
<1>10. SpaceIsShared'
  <2>1. UsedBytes' = UsedBytes
    <3>1. UsedBytes' = UsedBytes - lease[l].used + lease'[l].used
      BY <1>1, <1>6, <1>7, SumsMove
    <3> QED
      BY <1>1, <1>6, <3>1, LeaseTypes
  <2>2. \A m \in Leases : lease'[m].used <= lease'[m].bytes
    BY <1>1, <1>6 DEF SpaceIsShared
  <2>3. \A m \in LiveLeases' : lease'[m].floor \in Floors
    BY <1>1, <1>6, <1>8 DEF SpaceIsShared, LiveLeases, LiveLease
  <2> QED
    BY <1>1, <1>2, <2>1, <2>2, <2>3 DEF SpaceIsShared
<1>11. MeasureIsSafe'
  BY <1>2 DEF MeasureIsSafe, Nobody
<1> QED
  BY <1>7, <1>9, <1>10, <1>11 DEF LedgerInv

(* The inequality the next lemma needs, in numbers. *)
LEMMA SpareGrows ==
    ASSUME NEW a \in Int, NEW r \in Int, NEW b \in Int, NEW o \in Int, NEW x \in Int, NEW y \in Int, NEW z \in Int,
           NEW x1 \in Int, NEW y1 \in Int, NEW z1 \in Int,
           a - (r - b) <= x + y - (z - o), x1 + y1 - z1 >= x + y - z
    PROVE  a - (r - b) <= x1 + y1 - (z1 - o)
OBVIOUS

LEMMA SpareSame ==
    ASSUME NEW x \in Int, NEW y \in Int, NEW z \in Int, NEW x1 \in Int, NEW y1 \in Int, x1 + y1 = x + y
    PROVE  x1 + y1 - z >= x + y - z
OBVIOUS

(* The holder of the lock does not see these steps, and need not. *)
LEMMA MeasureStays ==
    ASSUME LedgerInv, NEW l \in Leases, ~Resizing(l), \A m \in Leases \ {l} : lease'[m] = lease[m],
           lease'[l].state = lease[l].state, UNCHANGED <<admission, reserved>>,
           free' \in Nat, outside' \in Nat, OutstandingBytes' \in Int,
           free' + outside' - OutstandingBytes' >= free + outside - OutstandingBytes
    PROVE  MeasureIsSafe'
<1>1. LedgerTypes /\ MeasureIsSafe
  BY DEF LedgerInv
<1>2. free \in Nat /\ outside \in Nat /\ OutstandingBytes \in Int /\ reserved \in Nat
  BY <1>1, LeaseTypes
<1>3. ASSUME admission.by = "reserve"
      PROVE  lease'[admission.lease].state = "none" /\ admission.free - reserved <= free' + outside' - OutstandingBytes'
  <2>1. lease[admission.lease].state = "none" /\ admission.free - reserved <= free + outside - OutstandingBytes
    BY <1>1, <1>3 DEF MeasureIsSafe
  <2>2. admission.lease \in Leases /\ admission.free \in Nat
    BY <1>3, AdmissionTypes
  <2> QED
    BY <1>2, <2>1, <2>2
<1>4. ASSUME admission.by = "resize"
      PROVE  /\ LiveLease(admission.lease)'
             /\ admission.free - (reserved - lease'[admission.lease].bytes)
                   <= free' + outside' - (OutstandingBytes' - Outstanding(admission.lease)')
  <2>1. PICK a \in Leases : a = admission.lease /\ admission.free \in Nat
    BY <1>4, AdmissionTypes
  <2>2. LiveLease(a) /\ admission.free - (reserved - lease[a].bytes) <= free + outside - (OutstandingBytes - Outstanding(a))
    BY <1>1, <1>4, <2>1 DEF MeasureIsSafe
  <2>3. lease'[a] = lease[a]
    BY <1>4, <2>1 DEF Resizing
  <2>4. LiveLease(a)' /\ Outstanding(a)' = Outstanding(a)
    BY <2>2, <2>3 DEF LiveLease, Outstanding
  <2>5. lease[a].bytes \in Nat /\ Outstanding(a) \in Int
    BY <1>1, LeaseTypes DEF Outstanding
  <2>6. admission.free - (reserved - lease[a].bytes) <= free' + outside' - (OutstandingBytes' - Outstanding(a))
    <3>1. PICK o \in Int, b \in Int : o = Outstanding(a) /\ b = lease[a].bytes
      BY <2>5
    <3>2. admission.free - (reserved - b) <= free + outside - (OutstandingBytes - o)
      BY <2>2, <3>1
    <3>3. admission.free - (reserved - b) <= free' + outside' - (OutstandingBytes' - o)
      <4>1. PICK f1, f2, o1, o2, w1, w2, r, v \in Int :
               /\ f1 = free /\ f2 = free' /\ o1 = outside /\ o2 = outside'
               /\ w1 = OutstandingBytes /\ w2 = OutstandingBytes' /\ r = reserved /\ v = admission.free
        BY <1>2, <2>1
      <4>2. v - (r - b) <= f1 + o1 - (w1 - o) /\ f2 + o2 - w2 >= f1 + o1 - w1
        BY <3>2, <4>1
      <4>3. v - (r - b) <= f2 + o2 - (w2 - o)
        BY ONLY <4>2, b \in Int, o \in Int, f1 \in Int, f2 \in Int, o1 \in Int, o2 \in Int,
           w1 \in Int, w2 \in Int, r \in Int, v \in Int
      <4> QED
        BY <4>1, <4>3
    <3> QED
      BY <3>1, <3>3
  <2> QED
    BY <2>1, <2>3, <2>4, <2>6
<1> QED
  BY <1>3, <1>4 DEF MeasureIsSafe

(* A lease whose operation has written or deleted bytes. *)
LEMMA UsedMoves ==
    ASSUME LedgerInv, NEW l \in Leases, ~Resizing(l), NEW u \in Nat, u <= lease[l].bytes,
           lease' = [lease EXCEPT ![l].used = u], free' = free + lease[l].used - u, free' \in Nat,
           lease[l].state # "live" => u <= lease[l].used,
           UNCHANGED <<reserved, floors, admission, outside>>
    PROVE  LedgerInv' /\ free' + outside' - OutstandingBytes' >= free + outside - OutstandingBytes
<1>1. LedgerTypes /\ LedgerExact /\ SpaceIsShared
  BY DEF LedgerInv
<1>2. /\ lease' \in [Leases -> Records] /\ \A m \in Leases \ {l} : lease'[m] = lease[m]
      /\ lease'[l].state = lease[l].state /\ lease'[l].bytes = lease[l].bytes
      /\ lease'[l].floor = lease[l].floor /\ lease'[l].used = u
  <2>1. lease \in [Leases -> Records] /\ lease[l] \in Records
    BY <1>1 DEF LedgerTypes
  <2>2. [lease[l] EXCEPT !.used = u] \in Records
    BY <2>1 DEF Records
  <2>3. lease' = [lease EXCEPT ![l] = [lease[l] EXCEPT !.used = u]]
    BY <2>1
  <2>4. lease'[l] = [lease[l] EXCEPT !.used = u]
    BY <2>1, <2>3
  <2>5. lease' \in [Leases -> Records] /\ \A m \in Leases \ {l} : lease'[m] = lease[m]
    BY <2>1, <2>2, <2>3
  <2>6. /\ lease'[l].state = lease[l].state /\ lease'[l].bytes = lease[l].bytes
        /\ lease'[l].floor = lease[l].floor /\ lease'[l].used = u
    BY <2>1, <2>4 DEF Records
  <2> QED
    BY <2>5, <2>6
<1>3. LiveLease(l)' = LiveLease(l) /\ LiveLeases' = LiveLeases
  BY <1>2 DEF LiveLeases, LiveLease
<1>4. free' \in 0..Capacity
  <2>1. lease[l].used <= UsedBytes
    <3> DEFINE f == [m \in Leases |-> lease[m].used]
    <3>1. f \in [Leases -> Int] /\ (\A m \in Leases : f[m] >= 0) /\ f[l] = lease[l].used
      BY <1>1, LeaseTypes
    <3>2. UsedBytes = SumFunctionOnSet(f, Leases)
      BY DEF UsedBytes
    <3> HIDE DEF f
    <3>3. f[l] <= SumFunctionOnSet(f, Leases)
      BY <3>1, LeasesAssumption, SumOfNats
    <3> QED
      BY <3>1, <3>2, <3>3
  <2>2. free + outside + UsedBytes <= Capacity
    BY <1>1 DEF SpaceIsShared
  <2>3. free' <= Capacity
    BY <1>1, <2>1, <2>2, LeaseTypes, CapacityAssumption
  <2> QED
    BY <2>3, CapacityAssumption
<1>5. LedgerTypes'
  BY <1>1, <1>2, <1>4 DEF LedgerTypes
<1>6. /\ ClaimedBytes' = ClaimedBytes - Live(l, lease[l].bytes) + Live(l, lease[l].bytes)'
      /\ OutstandingBytes' = OutstandingBytes - Live(l, Outstanding(l)) + Live(l, Outstanding(l))'
      /\ UsedBytes' = UsedBytes - lease[l].used + u
  BY <1>1, <1>2, <1>5, SumsMove
<1>7. LedgerExact'
  <2>1. reserved' = reserved - Live(l, lease[l].bytes) + Live(l, lease[l].bytes)'
    BY <1>1, <1>2, <1>3, LeaseTypes DEF Live
  <2>2. \A g : l \in Asking(g)' <=> l \in Asking(g)
    BY <1>2, <1>3 DEF Asking
  <2>3. \A g \in Floors : CountIn(g, floors) \in Int
    BY <1>1 DEF CountIn, LedgerTypes, IsABag, BagIn, BagToSet
  <2>4. \A g \in Floors : CountIn(g, floors') = CountIn(g, floors) - (IF l \in Asking(g) THEN 1 ELSE 0)
                                                                   + (IF l \in Asking(g)' THEN 1 ELSE 0)
    BY <2>2, <2>3
  <2> QED
    BY <1>2, <1>5, <2>1, <2>4, ExactAfter
<1>8. SpaceIsShared'
  <2>1. \A m \in Leases : lease'[m].used <= lease'[m].bytes
    BY <1>1, <1>2 DEF SpaceIsShared
  <2>2. \A m \in LiveLeases' : lease'[m].floor \in Floors
    <3>1. \A m \in LiveLeases : lease'[m].floor = lease[m].floor
      BY <1>2 DEF LiveLeases
    <3> QED
      BY <1>1, <1>3, <3>1 DEF SpaceIsShared
  <2>3. free' + outside' + UsedBytes' <= Capacity
    BY <1>1, <1>6, LeaseTypes, CapacityAssumption DEF SpaceIsShared
  <2> QED
    BY <2>1, <2>2, <2>3 DEF SpaceIsShared
<1>9. free' + outside' - OutstandingBytes' >= free + outside - OutstandingBytes /\ OutstandingBytes' \in Int
  <2>1. Outstanding(l) = lease[l].bytes - lease[l].used /\ Outstanding(l)' = lease[l].bytes - u
    BY <1>2 DEF Outstanding
  <2>2. /\ free \in Nat /\ outside \in Nat /\ OutstandingBytes \in Int /\ lease[l].bytes \in Nat /\ lease[l].used \in Nat
    BY <1>1, LeaseTypes
  <2>3. CASE LiveLease(l)
    <3>1. OutstandingBytes' = OutstandingBytes - (lease[l].bytes - lease[l].used) + (lease[l].bytes - u)
      BY <1>3, <1>6, <2>1, <2>3 DEF Live
    <3> QED
      BY <2>2, <3>1
  <2>4. CASE ~LiveLease(l)
    <3>1. OutstandingBytes' = OutstandingBytes
      BY <1>3, <1>6, <2>2, <2>4 DEF Live
    <3>2. u <= lease[l].used
      BY <2>4 DEF LiveLease
    <3> QED
      BY <2>2, <3>1, <3>2
  <2> QED
    BY <2>3, <2>4
<1>10. outside' \in Nat
  BY <1>1, LeaseTypes
<1>11. MeasureIsSafe'
  BY <1>2, <1>9, <1>10, MeasureStays
<1> QED
  BY <1>5, <1>7, <1>8, <1>9, <1>11 DEF LedgerInv

LEMMA WriteStep ==
    ASSUME LedgerInv, NEW l \in Leases, Write(l)
    PROVE  LedgerInv' /\ free' + outside' - OutstandingBytes' >= free + outside - OutstandingBytes
<1>1. LedgerTypes
  BY DEF LedgerInv
<1>2. /\ lease[l].bytes \in Nat /\ lease[l].used \in Nat /\ free \in Nat /\ lease \in [Leases -> Records]
  BY <1>1, LeaseTypes DEF LedgerTypes
<1>3. PICK u \in Nat : u = lease[l].used + 1
  BY <1>2
<1>4. u <= lease[l].bytes
  BY <1>2, <1>3 DEF Write, Outstanding
<1>5. lease' = [lease EXCEPT ![l].used = u]
  BY <1>2, <1>3 DEF Write
<1>6. free' = free + lease[l].used - u /\ free' \in Nat
  BY <1>2, <1>3 DEF Write
<1>7. lease[l].state = "live" /\ ~Resizing(l) /\ UNCHANGED <<reserved, floors, admission, outside>>
  BY DEF Write, LiveLease
<1> QED
  BY <1>4, <1>5, <1>6, <1>7, UsedMoves

LEMMA RemoveStep ==
    ASSUME LedgerInv, NEW l \in Leases, Remove(l)
    PROVE  LedgerInv' /\ free' + outside' - OutstandingBytes' >= free + outside - OutstandingBytes
<1>1. LedgerTypes
  BY DEF LedgerInv
<1>2. /\ lease[l].bytes \in Nat /\ lease[l].used \in Nat /\ free \in Nat
  BY <1>1, LeaseTypes
<1>3. PICK u \in Nat : u = 0
  OBVIOUS
<1>4. u <= lease[l].bytes /\ u <= lease[l].used
  BY <1>2, <1>3
<1>5. lease' = [lease EXCEPT ![l].used = u]
  BY <1>3 DEF Remove
<1>6. free' = free + lease[l].used - u /\ free' \in Nat
  BY <1>2, <1>3 DEF Remove
<1>7. ~Resizing(l) /\ UNCHANGED <<reserved, floors, admission, outside>>
  BY DEF Remove
<1> QED
  BY <1>4, <1>5, <1>6, <1>7, UsedMoves

LEMMA OtherStep ==
    ASSUME LedgerInv, OtherProgram
    PROVE  LedgerInv' /\ OutstandingBytes' = OutstandingBytes /\ free' + outside' = free + outside
<1>1. LedgerTypes /\ LedgerExact /\ SpaceIsShared /\ MeasureIsSafe
  BY DEF LedgerInv
<1>2. /\ outside < MaxOutside /\ free > 0 /\ free' = free - 1 /\ outside' = outside + 1
      /\ UNCHANGED <<lease, reserved, floors, admission>>
  BY DEF OtherProgram
<1>3. free \in 0..Capacity /\ outside \in 0..MaxOutside
  BY <1>1 DEF LedgerTypes
<1>4. free' \in 0..Capacity /\ outside' \in 0..MaxOutside /\ free' + outside' = free + outside
  BY <1>2, <1>3, CapacityAssumption
<1>5. LedgerTypes'
  BY <1>1, <1>2, <1>4 DEF LedgerTypes
<1>6. /\ LedgerExact' /\ OutstandingBytes' = OutstandingBytes /\ UsedBytes' = UsedBytes /\ LiveLeases' = LiveLeases
      /\ \A l : Outstanding(l)' = Outstanding(l) /\ LiveLease(l)' = LiveLease(l)
  BY <1>1, <1>2, SameLedger
<1>7. SpaceIsShared'
  BY <1>1, <1>2, <1>4, <1>6 DEF SpaceIsShared
<1>8. MeasureIsSafe'
  <2>1. /\ free \in Int /\ outside \in Int /\ free' \in Int /\ outside' \in Int /\ reserved \in Int
        /\ OutstandingBytes \in Int
    BY <1>1, <1>2, <1>3, LeaseTypes
  <2>4. PICK x \in Int, y \in Int : x = free' /\ y = outside' /\ x + y = free + outside
    BY <1>4, <2>1
  <2>2. CASE admission.by = "resize"
    <3>1. PICK l \in Leases, n \in Nat : l = admission.lease /\ n = admission.free
      BY <2>2, AdmissionTypes
    <3>2. LiveLease(l) /\ n - (reserved - lease[l].bytes) <= free + outside - (OutstandingBytes - Outstanding(l))
      BY <1>1, <2>2, <3>1 DEF MeasureIsSafe
    <3>3. PICK b \in Int, o \in Int : b = lease[l].bytes /\ o = Outstanding(l)
      BY <1>1, LeaseTypes DEF Outstanding
    <3>4. n - (reserved - b) <= x + y - (OutstandingBytes - o)
      <4>2. n - (reserved - b) <= free + outside - (OutstandingBytes - o)
        BY <2>1, <3>1, <3>2, <3>3
      <4>3. PICK z \in Int : z = OutstandingBytes
        BY <2>1
      <4>4. PICK x0 \in Int, y0 \in Int : x0 = free /\ y0 = outside /\ x + y = x0 + y0
        BY <2>1, <2>4
      <4>5. x \in Int /\ y \in Int /\ x0 \in Int /\ y0 \in Int /\ z \in Int /\ x + y = x0 + y0
        BY <2>4, <4>3, <4>4
      <4>6. x + y - z >= x0 + y0 - z
        BY <4>5
      <4>7. n - (reserved - b) <= x0 + y0 - (z - o)
        BY <4>2, <4>3, <4>4
      <4>8. n \in Int /\ reserved \in Int /\ b \in Int /\ o \in Int
        BY <2>1, <3>1, <3>3
      <4>9. n - (reserved - b) <= x + y - (z - o)
        BY <4>6, <4>7, <4>5, <4>8, SpareGrows
      <4> QED
        BY <4>3, <4>9
    <3>5. /\ admission' = admission /\ reserved' = reserved /\ lease' = lease /\ OutstandingBytes' = OutstandingBytes
          /\ LiveLease(l)' /\ Outstanding(l)' = o
      BY <1>2, <1>6, <3>2, <3>3
    <3>6. LiveLease(admission.lease)' /\ Outstanding(admission.lease)' = o
      BY <3>1, <3>5 DEF LiveLease, Outstanding
    <3> QED
      BY <2>2, <2>4, <3>1, <3>3, <3>4, <3>5, <3>6 DEF MeasureIsSafe
  <2>3. CASE admission.by # "resize"
    <3>1. admission' = admission /\ reserved' = reserved /\ lease' = lease /\ OutstandingBytes' = OutstandingBytes
      BY <1>2, <1>6
    <3>2. ASSUME admission.by = "reserve"
          PROVE  lease[admission.lease].state = "none" /\ admission.free - reserved <= free' + outside' - OutstandingBytes
      <4>1. PICK n \in Nat : n = admission.free
        BY <3>2, AdmissionTypes
      <4>2. lease[admission.lease].state = "none" /\ n - reserved <= free + outside - OutstandingBytes
        BY <1>1, <3>2, <4>1 DEF MeasureIsSafe
      <4>3. n - reserved <= x + y - OutstandingBytes
        BY <2>1, <2>4, <4>1, <4>2
      <4> QED
        BY <2>4, <4>1, <4>2, <4>3
    <3> QED
      BY <2>3, <3>1, <3>2 DEF MeasureIsSafe
  <2> QED
    BY <2>2, <2>3
<1> QED
  BY <1>4, <1>5, <1>6, <1>7, <1>8 DEF LedgerInv

(* No reservation, resize, release or write lets the ledger promise more    *)
(* than the measurement it was admitted against leaves.                     *)
THEOREM LedgerStep == LedgerInv /\ [ReservationsNext]_reservationVars => LedgerInv'
<1> SUFFICES ASSUME LedgerInv, [ReservationsNext]_reservationVars PROVE LedgerInv'
  OBVIOUS
<1>1. CASE UNCHANGED reservationVars
  <2>1. UNCHANGED <<free, lease, reserved, floors, admission, outside>>
    BY <1>1 DEF reservationVars
  <2>2. LedgerExact' /\ OutstandingBytes' = OutstandingBytes /\ UsedBytes' = UsedBytes
    BY <2>1, SameLedger DEF LedgerInv
  <2>3. LedgerTypes' /\ SpaceIsShared'
    BY <2>1, <2>2, SameLedger DEF LedgerInv, LedgerTypes, SpaceIsShared
  <2>4. MeasureIsSafe'
    BY <2>1, <2>2 DEF LedgerInv, MeasureIsSafe, LiveLease, Outstanding
  <2> QED
    BY <2>2, <2>3, <2>4 DEF LedgerInv
<1>2. ASSUME NEW l \in Leases, NEW n \in Sizes, NEW f \in Floors,
             Measure(l, n, f) \/ MeasureResize(l, n, f) \/ Shrink(l, n, f)
      PROVE  LedgerInv'
  BY <1>2, MeasureStep, MeasureResizeStep, ShrinkStep
<1>3. CASE Admit \/ AdmitResize
  BY <1>3, AdmitStep, AdmitResizeStep
<1>4. ASSUME NEW l \in Leases, ReleaseLease(l) \/ Write(l) \/ Remove(l) PROVE LedgerInv'
  BY <1>4, ReleaseStep, WriteStep, RemoveStep
<1>5. CASE OtherProgram
  BY <1>5, OtherStep
<1> QED
  BY <1>1, <1>2, <1>3, <1>4, <1>5 DEF ReservationsNext

-----------------------------------------------------------------------------
(* What an admission that fits leaves. *)
LEMMA FloorsAreFinite ==
    ASSUME LedgerInv, NEW own
    PROVE  IsFiniteSet(BagToSet(floors (-) own)) /\ BagToSet(floors (-) own) \subseteq BagToSet(floors)
           /\ BagToSet(floors) \subseteq Nat
<1>1. LedgerTypes /\ LedgerExact
  BY DEF LedgerInv
<1>2. BagToSet(floors) \subseteq {lease[l].floor : l \in LiveLeases}
  <2> SUFFICES ASSUME NEW f \in BagToSet(floors) PROVE f \in {lease[l].floor : l \in LiveLeases}
    OBVIOUS
  <2>1. f \in Floors /\ CountIn(f, floors) # 0
    BY <1>1 DEF LedgerTypes, CountIn, BagIn, BagToSet, IsABag
  <2>2. Cardinality(Asking(f)) # 0
    BY <1>1, <2>1 DEF LedgerExact, Asking
  <2>3. Asking(f) # {}
    BY <2>2, FS_EmptySet
  <2> QED
    BY <2>3 DEF Asking
<1>3. IsFiniteSet({lease[l].floor : l \in LiveLeases})
  <2>1. PICK f : f = [l \in LiveLeases |-> lease[l].floor]
    OBVIOUS
  <2>2. {lease[l].floor : l \in LiveLeases} = {f[l] : l \in LiveLeases}
    BY <2>1
  <2>3. IsFiniteSet({f[l] : l \in LiveLeases})
    BY <1>1, LeaseTypes, FiniteImage
  <2> QED
    BY <2>2, <2>3
<1>4. BagToSet(floors (-) own) \subseteq BagToSet(floors)
  BY DEF (-), BagToSet
<1>5. BagToSet(floors) \subseteq Nat
  <2>1. BagToSet(floors) \subseteq Floors
    BY <1>1 DEF LedgerTypes
  <2> QED
    BY <2>1, SizesAssumption, Zenon
<1> QED
  <2>1. BagToSet(floors (-) own) \subseteq {lease[l].floor : l \in LiveLeases}
    BY <1>2, <1>4
  <2> QED
    BY <1>3, <1>4, <1>5, <2>1, FS_Subset

LEMMA FitsLeaves ==
    ASSUME LedgerInv, NEW d \in Int, NEW f \in Nat, NEW own, d >= Max({f, OtherFloor(own)})
    PROVE  d >= f /\ \A g \in BagToSet(floors (-) own) : d >= g
<1> DEFINE B == BagToSet(floors (-) own)
<1>1. IsFiniteSet(B) /\ B \subseteq Nat
  BY FloorsAreFinite
<1>2. OtherFloor(own) = Max({0} \cup B)
  BY DEF OtherFloor
<1> HIDE DEF B
<1>3. {0} \cup B \in SUBSET Int /\ IsFiniteSet({0} \cup B) /\ {0} \cup B # {}
  <2>1. IsFiniteSet({0})
    BY FS_Singleton
  <2>2. IsFiniteSet({0} \cup B)
    BY <1>1, <2>1, FS_Union
  <2> QED
    BY <1>1, <2>2
<1>4. OtherFloor(own) \in Int /\ \A g \in B : OtherFloor(own) >= g
  BY <1>2, <1>3, MaxBounds
<1>5. PICK o \in Int : o = OtherFloor(own)
  BY <1>4
<1>6. IsFiniteSet({f, o})
  <2>1. IsFiniteSet({f} \cup {o})
    BY FS_Singleton, FS_Union
  <2>2. {f, o} = {f} \cup {o}
    OBVIOUS
  <2> QED
    BY <2>1, <2>2
<1>7. Max({f, o}) \in {f, o} /\ \A x \in {f, o} : Max({f, o}) >= x
  <2>1. {f, o} \in SUBSET Int /\ {f, o} # {}
    OBVIOUS
  <2> QED
    BY <1>6, <2>1, MaxBounds
<1>8. d >= f /\ d >= o
  <2>1. PICK x \in Int : x = Max({f, o}) /\ x >= f /\ x >= o
    BY <1>7
  <2>2. d >= x
    BY <1>5, <2>1
  <2> QED
    BY <2>1, <2>2
<1>9. ASSUME NEW g \in B PROVE d >= g
  <2>1. g \in Int /\ o >= g
    BY <1>1, <1>4, <1>5
  <2> QED
    BY <1>8, <2>1
<1> QED
  BY <1>8, <1>9 DEF B

-----------------------------------------------------------------------------
(* Promises. *)
Spare == free + outside - OutstandingBytes

(* The same, and what resizes promised unchecked.                           *)
Cover == free + outside + owed - OutstandingBytes

Owing == LedgerInv /\ owed \in Nat

LEMMA CoverSum ==
    ASSUME NEW x \in Int, NEW y \in Int, NEW w \in Int, NEW z \in Int
    PROVE  x + y + w - z = (x + y - z) + w /\ x + y + w - z \in Int /\ x + y - z \in Int
OBVIOUS

LEMMA SpareType == ASSUME LedgerInv PROVE Spare \in Int /\ \A l \in Leases : lease[l].floor \in Nat
BY LeaseTypes DEF LedgerInv, Spare

LEMMA CoverType == ASSUME Owing PROVE Spare \in Int /\ Cover \in Int /\ Cover = Spare + owed
<1>1. PICK x \in Int, y \in Int, z \in Int, w \in Int : x = free /\ y = outside /\ z = OutstandingBytes /\ w = owed
  BY LeaseTypes DEF Owing, LedgerInv
<1>2. x + y + w - z = (x + y - z) + w /\ x + y + w - z \in Int /\ x + y - z \in Int
  BY CoverSum
<1> QED
  BY <1>1, <1>2 DEF Spare, Cover

LEMMA CoverNext == ASSUME Owing' PROVE Spare' \in Int /\ Cover' \in Int /\ Cover' = Spare' + owed'
<1>1. free' \in 0..Capacity /\ outside' \in 0..MaxOutside /\ owed' \in Nat
  BY DEF Owing, LedgerInv, LedgerTypes
<1>2. OutstandingBytes' \in Int
  <2> DEFINE o == [l \in Leases |-> Outstanding(l)']
             L == LiveLeases'
  <2>1. \A l \in Leases : lease'[l] \in Records
    BY DEF Owing, LedgerInv, LedgerTypes, Records
  <2>2. o \in [Leases -> Int] /\ L \in SUBSET Leases
    BY <2>1, RecordTypes DEF Outstanding, LiveLeases
  <2>3. IsFiniteSet(L)
    BY <2>2, LeasesAssumption, FS_Subset
  <2>4. OutstandingBytes' = SumFunctionOnSet(o, L)
    BY DEF OutstandingBytes
  <2> HIDE DEF o, L
  <2> QED
    BY <2>2, <2>3, <2>4, SumType
<1>3. PICK x \in Int, y \in Int, z \in Int, w \in Int : x = free' /\ y = outside' /\ z = OutstandingBytes' /\ w = owed'
  BY <1>1, <1>2, CapacityAssumption
<1>4. x + y + w - z = (x + y - z) + w /\ x + y + w - z \in Int /\ x + y - z \in Int
  BY CoverSum
<1> QED
  BY <1>3, <1>4 DEF Spare, Cover

(* A step that leaves the debt alone covers what it spares.                 *)
LEMMA CoverGrows ==
    ASSUME Owing, Owing', UNCHANGED owed, Spare' >= Spare
    PROVE  Cover' >= Cover
<1>1. PICK s \in Int, s1 \in Int, w \in Int : s = Spare /\ s1 = Spare' /\ w = owed
  BY CoverType, CoverNext DEF Owing
<1>2. Cover = s + w /\ Cover' = s1 + w /\ s1 >= s
  BY <1>1, CoverType, CoverNext
<1>3. s1 + w >= s + w
  BY <1>2
<1> QED
  BY <1>2, <1>3

LEMMA AtLeast == ASSUME NEW x \in Int, NEW y \in Int, NEW z \in Int, x >= y, y >= z PROVE x >= z
OBVIOUS

LEMMA PromisesLast ==
    ASSUME Owing, Owing', PromiseKept, Cover' >= Cover,
           \A l \in LiveLeases' : l \in LiveLeases /\ lease'[l].floor = lease[l].floor
    PROVE  PromiseKept'
<1>1. LiveLeases \subseteq Leases /\ \A l \in LiveLeases : Cover >= lease[l].floor
  BY DEF PromiseKept, LiveLeases, Cover
<1>2. PICK s \in Int, s1 \in Int : s = Cover /\ s1 = Cover'
  BY CoverType, CoverNext
<1>3. ASSUME NEW l \in LiveLeases' PROVE Cover' >= lease'[l].floor
  <2>1. l \in Leases /\ s >= lease[l].floor /\ lease'[l].floor = lease[l].floor
    BY <1>1, <1>2
  <2>2. PICK f \in Int : f = lease[l].floor
    BY <2>1, SpareType DEF Owing
  <2>3. s1 >= s /\ s >= f
    BY <1>2, <2>1, <2>2
  <2>4. s1 >= f
    BY <2>3, AtLeast
  <2> QED
    BY <1>2, <2>1, <2>2, <2>4
<1> QED
  BY <1>3 DEF PromiseKept, Cover

(* A claim that has been checked against the free space, the lease's own    *)
(* former claim taken out.                                                  *)
LEMMA PromiseMade ==
    ASSUME NEW l \in Leases, NEW f \in Nat,
           lease'[l].floor = f, \A m \in Leases \ {l} : lease'[m] = lease[m],
           NEW s \in Int, s = Cover', s >= f,
           \A m \in LiveLeases \ {l} : s >= lease[m].floor
    PROVE  PromiseKept'
<1>1. ASSUME NEW m \in LiveLeases' PROVE s >= lease'[m].floor
  <2>1. m \in Leases
    BY DEF LiveLeases
  <2>2. CASE m = l
    BY <2>2
  <2>3. CASE m # l
    BY <2>1, <2>3 DEF LiveLeases, LiveLease
  <2> QED
    BY <2>2, <2>3
<1> QED
  BY <1>1 DEF PromiseKept, Cover

(* A successful check pays the debt. *)
LEMMA NothingOwed == ASSUME Owing', owed' = 0 PROVE Cover' = Spare'
<1>1. PICK s \in Int : s = Spare'
  BY CoverNext
<1>2. s + 0 = s
  OBVIOUS
<1> QED
  BY <1>1, <1>2, CoverNext

LEMMA AdmitPromises == ASSUME Owing, Owing', PromiseKept, Admit PROVE PromiseKept'
<1>1. LedgerInv /\ LedgerTypes /\ MeasureIsSafe
  BY DEF Owing, LedgerInv
<1>2. admission.by = "reserve" /\ UNCHANGED <<free, outside>>
  BY DEF Admit
<1>3. PICK l \in Leases, n \in Nat, f \in Nat, a \in Int :
         l = admission.lease /\ n = admission.bytes /\ f = admission.floor /\ a = admission.free
  BY <1>1, <1>2, AdmissionTypes
<1>4. CASE UNCHANGED <<reserved, floors, lease, owed>>
  <2>1. Spare' = Spare /\ LiveLeases' = LiveLeases
    BY <1>2, <1>4, SameLedger DEF Spare
  <2> QED
    <3>1. Cover' >= Cover
      BY <1>1, <1>4, <2>1, SpareType, CoverGrows
    <3> QED
      BY <1>4, <2>1, <3>1, PromisesLast
<1>5. CASE /\ Fits(a, reserved, n, f, EmptyBag)
           /\ lease' = [lease EXCEPT ![l] = FreshLease(n, f)] /\ owed' = 0
  <2>1. lease[l].state = "none" /\ a - reserved <= Spare
    BY <1>1, <1>2, <1>3 DEF MeasureIsSafe, Spare
  <2>2. lease'[l] = FreshLease(n, f) /\ \A m \in Leases \ {l} : lease'[m] = lease[m]
    BY <1>1, <1>5 DEF LedgerTypes
  <2>3. ~LiveLease(l) /\ LiveLease(l)' /\ Outstanding(l)' = n /\ lease'[l].floor = f
    <3>1. n - 0 = n
      OBVIOUS
    <3> QED
      BY <2>1, <2>2, <3>1 DEF FreshLease, LiveLease, Outstanding
  <2>4. Spare' = Spare - n
    <3>1. OutstandingBytes' = OutstandingBytes - Live(l, Outstanding(l)) + Live(l, Outstanding(l))'
      BY <1>1, <2>2, SumsMove DEF Owing, LedgerInv
    <3>2. Live(l, Outstanding(l)) = 0 /\ Live(l, Outstanding(l))' = n
      BY <2>3 DEF Live
    <3>3. PICK o \in Int : o = OutstandingBytes
      BY <1>1, LeaseTypes
    <3>4. OutstandingBytes' = o + n
      BY <3>1, <3>2, <3>3
    <3> QED
      BY <1>1, <1>2, <3>3, <3>4, LeaseTypes DEF Spare
  <2>5. PICK s \in Int, d \in Int : s = Spare' /\ d = a - reserved - n /\ s >= d
    <3>1. PICK x \in Int : x = Spare /\ a - reserved <= x
      BY <1>1, <2>1, SpareType
    <3>2. PICK r \in Int : r = reserved
      BY <1>1, LeaseTypes
    <3>3. a - r <= x => x - n >= a - r - n
      BY <3>1, <3>2
    <3> QED
      BY <2>4, <3>1, <3>2, <3>3
  <2>6. d >= f /\ \A g \in BagToSet(floors (-) EmptyBag) : d >= g
    <3>1. d >= Max({f, OtherFloor(EmptyBag)})
      BY <1>5, <2>5 DEF Fits
    <3> QED
      BY <1>1, <3>1, FitsLeaves
  <2>7. BagToSet(floors) \subseteq BagToSet(floors (-) EmptyBag)
    BY <1>1 DEF LedgerTypes, IsABag, BagToSet, (-), EmptyBag, SetToBag
  <2>8. ASSUME NEW m \in LiveLeases \ {l} PROVE s >= lease[m].floor
    <3>1. m \in Leases /\ LiveLease(m)
      BY DEF LiveLeases
    <3>2. PICK g \in Int : g = lease[m].floor
      BY <1>1, <3>1, SpareType
    <3>3. g \in BagToSet(floors)
      BY <1>1, <3>1, <3>2, OwnEntries
    <3>4. d >= g
      BY <2>6, <2>7, <3>3
    <3>5. s >= g
      BY <2>5, <3>4, AtLeast
    <3> QED
      BY <3>2, <3>5
  <2>9. s >= f
    <3>1. s >= d /\ d >= f /\ f \in Int
      BY <2>5, <2>6
    <3> QED
      BY <2>5, <3>1, AtLeast
  <2> QED
    BY <1>5, <2>2, <2>3, <2>5, <2>8, <2>9, NothingOwed, PromiseMade
<1> QED
  BY <1>3, <1>4, <1>5 DEF Admit

LEMMA AdmitResizePromises == ASSUME Owing, Owing', PromiseKept, AdmitResize PROVE PromiseKept'
<1>1. LedgerInv /\ LedgerTypes /\ MeasureIsSafe
  BY DEF Owing, LedgerInv
<1>2. admission.by = "resize" /\ UNCHANGED <<free, outside>> /\ admission' = Nobody
  BY DEF AdmitResize
<1>3. PICK l \in Leases, n \in Nat, f \in Nat, a \in Int :
         /\ l = admission.lease /\ n = admission.bytes /\ f = admission.floor /\ a = admission.free
         /\ n \in Sizes /\ f \in Floors
  BY <1>1, <1>2, AdmissionTypes
<1>4. CASE UNCHANGED <<reserved, floors, lease, owed>>
  <2>1. Spare' = Spare /\ LiveLeases' = LiveLeases
    BY <1>2, <1>4, SameLedger DEF Spare
  <2> QED
    <3>1. Cover' >= Cover
      BY <1>1, <1>4, <2>1, SpareType, CoverGrows
    <3> QED
      BY <1>4, <2>1, <3>1, PromisesLast
<1>5. CASE /\ Fits(a, reserved - lease[l].bytes, n, f, SetToBag({lease[l].floor}))
           /\ Replace(l, n, f) /\ owed' = 0
  <2> DEFINE own == SetToBag({lease[l].floor})
  <2>1. LiveLease(l) /\ a - (reserved - lease[l].bytes) <= free + outside - (OutstandingBytes - Outstanding(l))
    BY <1>1, <1>2, <1>3 DEF MeasureIsSafe
  <2>2. /\ lease'[l] = FreshLease(n, f) /\ \A m \in Leases \ {l} : lease'[m] = lease[m]
        /\ OutstandingBytes' = (OutstandingBytes - Outstanding(l)) + n
    BY <1>1, <1>2, <1>3, <1>5, <2>1, ReplaceFacts, ReplaceKeeps
  <2>3. lease'[l].floor = f
    BY <2>2 DEF FreshLease
  <2>4. PICK s \in Int, d \in Int : s = Spare' /\ d = a - (reserved - lease[l].bytes) - n /\ s >= d
    <3>1. PICK x \in Int, y \in Int, z \in Int : x = free /\ y = outside /\ z = OutstandingBytes - Outstanding(l)
      BY <1>1, LeaseTypes DEF Outstanding
    <3>2. PICK r \in Int : r = reserved - lease[l].bytes
      BY <1>1, LeaseTypes
    <3>3. a - r <= x + y - z
      BY <2>1, <3>1, <3>2
    <3>4. x \in Int /\ y \in Int /\ z \in Int /\ r \in Int
      OBVIOUS
    <3>5. x + y - (z + n) >= a - r - n
      BY <3>3, <3>4
    <3>6. Spare' = x + y - (z + n)
      BY <1>2, <2>2, <3>1 DEF Spare
    <3> QED
      BY <3>2, <3>5, <3>6
  <2>5. d >= f /\ \A g \in BagToSet(floors (-) own) : d >= g
    <3>1. d >= Max({f, OtherFloor(own)})
      BY <1>5, <2>4 DEF Fits
    <3> QED
      BY <1>1, <3>1, FitsLeaves
  <2>6. ASSUME NEW m \in LiveLeases \ {l} PROVE s >= lease[m].floor
    <3>1. m \in Leases /\ LiveLease(m) /\ m # l
      BY DEF LiveLeases
    <3>2. PICK g \in Int : g = lease[m].floor
      BY <1>1, <3>1, SpareType
    <3>3. g \in BagToSet(floors) /\ g \in Floors
      BY <1>1, <3>1, <3>2, OwnEntries DEF LedgerInv, LedgerTypes
    <3>4. CountIn(g, floors) = Cardinality(Asking(g)) /\ m \in Asking(g)
      BY <1>1, <3>1, <3>2, <3>3 DEF LedgerInv, LedgerExact, Asking, LiveLeases
    <3>5. g \in BagToSet(floors (-) own)
      <4>1. IsABag(floors) /\ lease[l].floor \in BagToSet(floors)
        BY <1>1, <2>1, OwnEntries DEF LedgerInv, LedgerTypes
      <4>2. CountIn(g, floors (-) own) = CountIn(g, floors) - (IF g = lease[l].floor THEN 1 ELSE 0)
        BY <4>1, BagTakes
      <4>3. CountIn(g, floors (-) own) # 0
        <5>1. CASE g = lease[l].floor
          <6>1. l \in Asking(g) /\ IsFiniteSet(Asking(g))
            BY <1>1, <2>1, <5>1, AskingFacts DEF Asking, LiveLeases
          <6>2. Cardinality(Asking(g) \ {l}) = Cardinality(Asking(g)) - 1
            BY <6>1, FS_RemoveElement
          <6>3. Cardinality(Asking(g) \ {l}) # 0
            <7>1. IsFiniteSet(Asking(g) \ {l}) /\ Asking(g) \ {l} # {}
              BY <3>1, <3>4, <6>1, FS_Subset
            <7> QED
              BY <7>1, FS_EmptySet
          <6> QED
            BY <3>4, <4>2, <5>1, <6>2, <6>3
        <5>2. CASE g # lease[l].floor
          <6>1. Cardinality(Asking(g)) # 0 /\ Cardinality(Asking(g)) \in Nat
            BY <1>1, <3>4, AskingFacts
          <6> QED
            BY <3>4, <4>2, <5>2, <6>1
        <5> QED
          BY <5>1, <5>2
      <4> QED
        BY <4>3 DEF CountIn, BagIn
    <3>6. s >= g
      <4>1. s >= d /\ d >= g
        BY <2>4, <2>5, <3>5
      <4> QED
        BY <2>4, <3>2, <4>1, AtLeast
    <3> QED
      BY <3>2, <3>6
  <2>7. s >= f
    <3>1. s >= d /\ d >= f /\ f \in Int
      BY <2>4, <2>5
    <3> QED
      BY <2>4, <3>1, AtLeast
  <2> QED
    BY <1>5, <2>2, <2>3, <2>4, <2>6, <2>7, NothingOwed, PromiseMade
<1> QED
  BY <1>3, <1>4, <1>5 DEF AdmitResize

LEMMA DebtGrows ==
    ASSUME NEW x \in Int, NEW y \in Int, NEW w \in Int, NEW e \in Int, NEW o \in Int, NEW n \in Int,
           NEW d \in Int, d >= n - o
    PROVE  x + y + (w + d) - ((e - o) + n) >= x + y + w - e
OBVIOUS

(* A resize that is not checked owes what it lets its lease write in        *)
(* addition.                                                                *)
LEMMA Debt ==
    ASSUME NEW d \in Int
    PROVE  Max({0, d}) \in Nat /\ Max({0, d}) >= d
<1>1. {0, d} \in SUBSET Int /\ IsFiniteSet({0, d}) /\ {0, d} # {}
  <2>1. IsFiniteSet({d} \cup {0})
    BY FS_Singleton, FS_AddElement
  <2>2. {0, d} = {d} \cup {0} /\ {0, d} \in SUBSET Int
    OBVIOUS
  <2> QED
    BY <2>1, <2>2
<1>2. Max({0, d}) \in Int /\ Max({0, d}) >= 0 /\ Max({0, d}) >= d
  BY <1>1, MaxBounds
<1> QED
  BY <1>2

LEMMA DebtIsNat ==
    ASSUME Owing, NEW l \in Leases, NEW n \in Sizes
    PROVE  /\ Max({0, n - Outstanding(l)}) \in Nat
           /\ Outstanding(l) \in Int /\ n - Outstanding(l) \in Int
           /\ Max({0, n - Outstanding(l)}) >= n - Outstanding(l)
<1>1. n \in Nat /\ lease[l].bytes \in Nat /\ lease[l].used \in Nat
  BY SizesAssumption, LeaseTypes DEF Owing, LedgerInv
<1>2. Outstanding(l) \in Int
  BY <1>1 DEF Outstanding
<1>3. n - Outstanding(l) \in Int
  BY <1>1, <1>2
<1> QED
  BY <1>2, <1>3, Debt

LEMMA ShrinkPromises ==
    ASSUME Owing, Owing', PromiseKept,
           NEW l \in Leases, NEW n \in Sizes, NEW f \in Floors, Shrink(l, n, f)
    PROVE  PromiseKept'
<1>1. LedgerInv /\ LedgerTypes
  BY DEF Owing, LedgerInv
<1>2. /\ LiveLease(l) /\ Replace(l, n, f)
      /\ UNCHANGED <<free, outside>> /\ admission' = Nobody /\ ~(f > lease[l].floor)
      /\ owed' = owed + Max({0, n - Outstanding(l)})
  BY DEF Shrink, LockFree, Grows
<1>3. n \in Nat /\ f \in Nat
  BY SizesAssumption, Zenon
<1>4. /\ lease'[l] = FreshLease(n, f) /\ \A m \in Leases \ {l} : lease'[m] = lease[m]
      /\ OutstandingBytes' = (OutstandingBytes - Outstanding(l)) + n
  BY <1>1, <1>2, ReplaceFacts, ReplaceKeeps
<1>5. PICK d \in Int, o \in Int : d = Max({0, n - Outstanding(l)}) /\ o = Outstanding(l) /\ d >= n - o
  BY DebtIsNat
<1>6. PICK s \in Int, x \in Int : s = Cover' /\ x = Cover /\ s >= x
  <2>1. PICK y \in Int, z \in Int, e \in Int, w \in Int : y = free /\ z = outside /\ e = OutstandingBytes /\ w = owed
    BY <1>1, LeaseTypes DEF Owing
  <2>2. Cover = y + z + w - e /\ Cover' = y + z + (w + d) - ((e - o) + n)
    BY <1>2, <1>4, <1>5, <2>1 DEF Cover
  <2>3. n \in Int
    BY <1>3
  <2>4. y + z + (w + d) - ((e - o) + n) >= y + z + w - e
    BY <1>5, <2>3, DebtGrows
  <2> QED
    BY <2>2, <2>4, CoverType, CoverNext
<1>7. ASSUME NEW m \in LiveLeases PROVE s >= lease[m].floor
  <2>1. x >= lease[m].floor /\ m \in Leases
    BY <1>6 DEF PromiseKept, Cover, LiveLeases
  <2>2. PICK g \in Int : g = lease[m].floor
    BY <1>1, <2>1, SpareType
  <2>3. s >= x /\ x >= g
    BY <1>6, <2>1, <2>2
  <2>4. s >= g
    BY <2>3, AtLeast
  <2> QED
    BY <2>2, <2>4
<1>8. s >= f
  <2>1. PICK g \in Int : g = lease[l].floor /\ g >= f
    <3>1. lease[l].floor \in Nat
      BY <1>1, SpareType
    <3> QED
      BY <1>2, <1>3, <3>1
  <2>2. s >= g
    BY <1>2, <1>7, <2>1 DEF LiveLeases
  <2>3. f \in Int /\ g >= f
    BY <1>3, <2>1
  <2> QED
    BY <2>2, <2>3, AtLeast
<1>9. lease'[l].floor = f
  BY <1>4 DEF FreshLease
<1>10. \A m \in LiveLeases \ {l} : s >= lease[m].floor
  BY <1>7
<1> QED
  BY <1>3, <1>4, <1>6, <1>8, <1>9, <1>10, PromiseMade

(* What is owed is a number of bytes. *)
LEMMA OwedStep == ASSUME Owing, [ReservationsNext]_reservationVars PROVE owed' \in Nat
<1>1. ASSUME NEW l \in Leases, NEW n \in Sizes, NEW f \in Floors, Shrink(l, n, f) PROVE owed' \in Nat
  BY <1>1, DebtIsNat DEF Shrink, Owing
<1>2. owed' = owed \/ owed' = 0 \/ \E l \in Leases, n \in Sizes, f \in Floors : Shrink(l, n, f)
  BY DEF ReservationsNext, reservationVars, Measure, MeasureResize, Admit, AdmitResize, ReleaseLease, Write, Remove,
         OtherProgram
<1> QED
  BY <1>1, <1>2 DEF Owing

LEMMA PromiseStep ==
    ASSUME Owing, Owing', PromiseKept, [ReservationsNext]_reservationVars
    PROVE  PromiseKept'
<1>1. LedgerInv /\ LedgerTypes
  BY DEF Owing, LedgerInv
<1>2. ASSUME UNCHANGED <<free, outside, lease, owed>> PROVE PromiseKept'
  <2>1. LiveLeases' = LiveLeases /\ OutstandingBytes' = OutstandingBytes
    BY <1>2 DEF LiveLeases, LiveLease, OutstandingBytes, Outstanding
  <2> QED
    BY <1>2, <2>1 DEF PromiseKept
<1>3. ASSUME NEW l \in Leases, NEW n \in Sizes, NEW f \in Floors, Shrink(l, n, f) PROVE PromiseKept'
  BY <1>3, ShrinkPromises
<1>4. ASSUME NEW l \in Leases, ReleaseLease(l) PROVE PromiseKept'
  <2>1. LiveLease(l) /\ UNCHANGED <<free, outside, owed>> /\ lease' = [lease EXCEPT ![l].state = "released"]
    BY <1>4 DEF ReleaseLease
  <2>2. lease'[l].state = "released" /\ \A m \in Leases \ {l} : lease'[m] = lease[m]
    BY <1>1, <2>1 DEF LedgerTypes, Records
  <2>3. LiveLeases' = LiveLeases \ {l} /\ ~LiveLease(l)'
    BY <2>2 DEF LiveLeases, LiveLease
  <2>4. PICK o \in Int, u \in Nat, e \in Int : o = Outstanding(l) /\ u = o /\ e = OutstandingBytes
    <3>1. Outstanding(l) \in Nat
      BY <1>1, LeaseTypes DEF Outstanding, LedgerInv, SpaceIsShared
    <3>2. Outstanding(l) \in Int /\ OutstandingBytes \in Int
      BY <1>1, <3>1, LeaseTypes
    <3> QED
      BY ONLY <3>1, <3>2, Zenon
  <2>5. OutstandingBytes' = e - u + 0
    <3>1. OutstandingBytes' = OutstandingBytes - Live(l, Outstanding(l)) + Live(l, Outstanding(l))'
      BY <1>1, <2>2, SumsMove DEF Owing, LedgerInv
    <3>2. Live(l, Outstanding(l)) = u /\ Live(l, Outstanding(l))' = 0
      BY <2>1, <2>3, <2>4 DEF Live
    <3> QED
      BY <2>4, <3>1, <3>2
  <2>6. Spare' >= Spare
    <3>1. PICK y \in Int, z \in Int : y = free /\ z = outside
      BY <1>1, LeaseTypes
    <3>2. Spare = y + z - e /\ Spare' = y + z - (e - u + 0)
      BY <2>1, <2>4, <2>5, <3>1 DEF Spare
    <3>3. e \in Int /\ u \in Nat /\ y \in Int /\ z \in Int
      OBVIOUS
    <3>4. y + z - (e - u + 0) >= y + z - e
      BY <3>3
    <3> QED
      BY <3>2, <3>4
  <2>7. \A m \in LiveLeases' : m \in LiveLeases /\ lease'[m].floor = lease[m].floor
    BY <2>2, <2>3 DEF LiveLeases
  <2> QED
    BY <1>1, <2>1, <2>6, <2>7, CoverGrows, PromisesLast
<1>5. ASSUME NEW l \in Leases, Write(l) \/ Remove(l) PROVE PromiseKept'
  <2>1. Spare' >= Spare
    BY <1>1, <1>5, WriteStep, RemoveStep DEF Spare
  <2>2. PICK u : lease' = [lease EXCEPT ![l].used = u]
    BY <1>5 DEF Write, Remove
  <2>3. lease \in [Leases -> Records] /\ lease[l] \in Records
    BY <1>1 DEF LedgerTypes
  <2>4. lease'[l].state = lease[l].state /\ lease'[l].floor = lease[l].floor /\ \A m \in Leases \ {l} : lease'[m] = lease[m]
    BY <2>2, <2>3 DEF Records
  <2>5. \A m \in LiveLeases' : m \in LiveLeases /\ lease'[m].floor = lease[m].floor
    BY <2>4 DEF LiveLeases, LiveLease
  <2> QED
    <3>1. UNCHANGED owed
      BY <1>5 DEF Write, Remove
    <3> QED
      BY <2>1, <2>5, <3>1, CoverGrows, PromisesLast
<1>6. ASSUME OtherProgram PROVE PromiseKept'
  <2>1. UNCHANGED <<lease, owed>>
    BY <1>6 DEF OtherProgram
  <2>2. Spare' >= Spare
    <3>1. OutstandingBytes' = OutstandingBytes /\ free' + outside' = free + outside
      BY <1>1, <1>6, OtherStep
    <3>2. PICK y \in Int, z \in Int, y1 \in Int, z1 \in Int, e \in Int :
             y = free /\ z = outside /\ y1 = free' /\ z1 = outside' /\ e = OutstandingBytes
      BY <1>1, <1>6, LeaseTypes DEF OtherProgram
    <3>3. y1 + z1 = y + z /\ y \in Int /\ z \in Int /\ y1 \in Int /\ z1 \in Int /\ e \in Int
      BY <3>1, <3>2
    <3>4. y1 + z1 - e >= y + z - e
      BY <3>3, SpareSame
    <3> QED
      BY <3>1, <3>2, <3>4 DEF Spare
  <2>3. LiveLeases' = LiveLeases
    BY <2>1 DEF LiveLeases, LiveLease
  <2> QED
    BY <2>1, <2>2, <2>3, CoverGrows, PromisesLast
<1>7. CASE UNCHANGED reservationVars
  BY <1>2, <1>7 DEF reservationVars
<1>8. ASSUME NEW l \in Leases, NEW n \in Sizes, NEW f \in Floors, Measure(l, n, f) \/ MeasureResize(l, n, f) PROVE PromiseKept'
  <2>1. UNCHANGED <<free, outside, lease, owed>>
    BY <1>8 DEF Measure, MeasureResize
  <2> QED
    BY <1>2, <2>1
<1>9. CASE Admit \/ AdmitResize
  BY <1>9, AdmitPromises, AdmitResizePromises
<1> QED
  BY <1>3, <1>4, <1>5, <1>6, <1>7, <1>8, <1>9 DEF ReservationsNext

(* The two tables of the ledger say at every moment what the live leases    *)
(* say, and no operation has written more than it claimed: whatever order   *)
(* the admissions, resizes, releases and writes of any number of            *)
(* operations take.                                                         *)
THEOREM LedgerAlwaysExact == ReservationsSpec => [](ReservationsTypeOK /\ LedgerExact)
<1>1. ReservationsInit => Owing
  BY LedgerInit DEF ReservationsInit, Owing
<1>2. Owing /\ [ReservationsNext]_reservationVars => Owing'
  <2> SUFFICES ASSUME Owing, [ReservationsNext]_reservationVars PROVE LedgerInv' /\ owed' \in Nat
    BY DEF Owing
  <2> QED
    BY LedgerStep, OwedStep DEF Owing
<1>3. Owing => ReservationsTypeOK /\ LedgerExact
  BY DEF Owing, LedgerInv, LedgerTypes, ReservationsTypeOK
<1> QED
  BY <1>1, <1>2, <1>3, PTL DEF ReservationsSpec

(* Every promise is kept, also where a resize is not checked: what the live *)
(* leases may still write leaves the floor each of them asked for, short    *)
(* only of what other programs took and of what resizes have promised       *)
(* unchecked since the last check.                                          *)
THEOREM LedgerAlwaysKeepsPromises == ReservationsSpec => []LedgerKeepsPromises
<1>1. ReservationsInit => Owing /\ PromiseKept
  <2>1. ASSUME ReservationsInit PROVE LiveLeases = {}
    BY <2>1 DEF ReservationsInit, LiveLeases, LiveLease, NoLease
  <2> QED
    BY <2>1, LedgerInit DEF PromiseKept, ReservationsInit, Owing
<1>2. (Owing /\ PromiseKept) /\ [ReservationsNext]_reservationVars => (Owing /\ PromiseKept)'
  <2> SUFFICES ASSUME Owing, PromiseKept, [ReservationsNext]_reservationVars PROVE Owing' /\ PromiseKept'
    OBVIOUS
  <2>1. Owing'
    BY LedgerStep, OwedStep DEF Owing
  <2> QED
    BY <2>1, PromiseStep
<1>3. Owing /\ PromiseKept => LedgerKeepsPromises
  BY DEF Owing, LedgerInv, LedgerTypes, ReservationsTypeOK, LedgerKeepsPromises
<1> QED
  BY <1>1, <1>2, <1>3, PTL DEF ReservationsSpec

-----------------------------------------------------------------------------
(* Recordings.                                                             *)

Forms == {"raw", "new", "audio", "hidden"}
Unseen == {"raw", "new", "hidden"}
Row == [raw : Texts, refined : Texts \cup {NoText}]
Loops == {"published", "failing", "committed", "deleting", "bare", "settling"}
Stages == {"new", "filling", "transcoding", "ready", "answered", "refused", "gone", "lost"} \cup Loops

CaptureTypes ==
    /\ at \in [Uploads -> Stages]
    /\ rows \in [Uploads -> {NoRow} \cup Row]
    /\ files \subseteq Uploads \X Forms /\ intents \subseteq Uploads \X Unseen
    /\ revision \in [Revisions -> {NoRevision} \cup
           [kind : {"refine", "retranscribe"}, of : Uploads, read : Texts]]
    /\ turn \in Uploads \cup {NoUpload} /\ up \in BOOLEAN /\ raises \in Nat

Has(u, n) == <<u, n>> \in files
Journaled(u, n) == <<u, n>> \in intents

(* The files of u are those of F, its intents those of I. *)
Only(u, F, I) == \A n \in Forms : (Has(u, n) <=> n \in F) /\ (Journaled(u, n) <=> n \in I)

(* What holds between a row, its files and their intents at every moment.   *)
Accounted(u) ==
    /\ Exists(u) => Has(u, "audio") \/ (Has(u, "hidden") /\ Journaled(u, "hidden"))
    /\ Has(u, "audio") => Exists(u) \/ Journaled(u, "new")
    /\ \A n \in Unseen : Has(u, n) => Journaled(u, n)

Quiet(u) == IF Exists(u) THEN Only(u, {"audio"}, {}) ELSE Only(u, {}, {})

(* How far its handler has come, and what that leaves on the disk.          *)
Phased(u) ==
    /\ at[u] = "new" => Only(u, {}, {})
    /\ at[u] = "filling" => IF u \in Compressed THEN Only(u, {"raw"}, {"raw"}) ELSE Only(u, {"new"}, {"new"})
    /\ at[u] = "transcoding" => Only(u, {"raw", "new"}, {"raw", "new"})
    /\ at[u] = "ready" => Only(u, {"new"}, {"new"})
    /\ at[u] \in {"published", "failing", "committed"} => Only(u, {"audio"}, {"new"})
    /\ at[u] \in {"deleting", "bare", "settling"} => ~Has(u, "audio")
    /\ at[u] = "bare" => raises # 0
    /\ at[u] \in {"deleting", "settling"} /\ raises = 0 => \A n \in Forms : Journaled(u, n) => n = "hidden"
    /\ at[u] \in {"new", "filling", "transcoding", "ready", "published", "failing", "gone", "lost"} => ~Exists(u)
    /\ at[u] = "committed" => Exists(u)

(* Who has the loop, what a dead process left, and what startup has tried.  *)
Placed(u) ==
    /\ at[u] \in Loops => turn = u /\ up
    /\ InFlight(u) => up
    /\ ~InFlight(u) /\ up /\ raises = 0 => Quiet(u)
    /\ ~up /\ raises = 0 => \A n \in Forms : Journaled(u, n) => <<u, n>> \notin tried

UploadInv(u) == Accounted(u) /\ Phased(u) /\ Placed(u)

CapturesInv == CaptureTypes /\ \A u \in Uploads : UploadInv(u)

LEMMA NoRowFacts ==
    /\ NoRow \notin Row /\ NoUpload \notin Uploads /\ NoText \notin Texts /\ Compressed \subseteq Uploads
BY CapturesAssumption DEF NoRow, Row, NoUpload

LEMMA CapturesInvInit == CapturesInit => CapturesInv
<1> SUFFICES ASSUME CapturesInit PROVE CapturesInv
  OBVIOUS
<1>1. CaptureTypes
  BY DEF CapturesInit, CaptureTypes, Stages, Loops
<1>2. ASSUME NEW u \in Uploads PROVE UploadInv(u)
  <2>1. at[u] = "new" /\ ~Exists(u) /\ Only(u, {}, {}) /\ up
    BY DEF CapturesInit, Exists, Only, Has, Journaled
  <2> QED
    BY <2>1 DEF UploadInv, Accounted, Phased, Placed, Quiet, Only, Forms, Unseen, Loops, InFlight
<1> QED
  BY <1>1, <1>2 DEF CapturesInv

-----------------------------------------------------------------------------
(* The disk of one upload seen from another's step. *)
LeftAlone(w) ==
    /\ at'[w] = at[w] /\ rows'[w] = rows[w]
    /\ \A n \in Forms : (Has(w, n)' <=> Has(w, n)) /\ (Journaled(w, n)' <=> Journaled(w, n))

LEMMA OthersKeep ==
    ASSUME CapturesInv, CaptureTypes', NEW w \in Uploads, LeftAlone(w),
           up' = up, \A n \in Forms : <<w, n>> \in tried' <=> <<w, n>> \in tried, raises' = raises \/ raises' = raises + 1,
           at[w] \in Loops => turn' = turn
    PROVE  UploadInv(w)'
<1>1. UploadInv(w) /\ raises \in Nat /\ (raises' = 0 => raises = 0)
  BY DEF CapturesInv, CaptureTypes
<1>2. (Exists(w)' <=> Exists(w)) /\ (InFlight(w)' <=> InFlight(w))
  BY DEF LeftAlone, Exists, InFlight
<1>3. Accounted(w)'
  BY <1>1, <1>2 DEF UploadInv, Accounted, LeftAlone, Forms, Unseen
<1>4. \A F, I \in SUBSET Forms : Only(w, F, I) => Only(w, F, I)'
  BY DEF Only, LeftAlone
<1>5. Phased(w)'
  BY <1>1, <1>2, <1>4 DEF UploadInv, Phased, LeftAlone, Forms
<1>6. Quiet(w) => Quiet(w)'
  BY <1>2, <1>4 DEF Quiet, Forms
<1>7. Placed(w)'
  BY <1>1, <1>2, <1>6 DEF UploadInv, Placed, LeftAlone
<1> QED
  BY <1>3, <1>5, <1>7 DEF UploadInv


-----------------------------------------------------------------------------
(* Types. *)

LEMMA ReconcileTypes ==
    ASSUME CaptureTypes, NEW is \in SUBSET intents, Reconcile(is)
    PROVE  files' \subseteq Uploads \X Forms /\ intents' \subseteq Uploads \X Unseen /\ raises' \in Nat
<1>1. \A i \in is : <<i[1], "audio">> \in Uploads \X Forms
  BY DEF CaptureTypes, Forms
<1> QED
  BY <1>1 DEF Reconcile, CaptureTypes, NoRaise, Raise

LEMMA CreateTypes ==
    ASSUME CaptureTypes, NEW u \in Uploads,
           Place(u) \/ Transcode(u) \/ Transcribe(u) \/ Publish(u) \/ Insert(u) \/ Finish(u) \/ GiveUp(u)
    PROVE  CaptureTypes'
<1>1. CASE Place(u)
  BY <1>1 DEF Place, Placeholder, Goes, CaptureTypes, Stages, Forms, Unseen
<1>2. CASE Transcode(u)
  BY <1>2 DEF Transcode, Placeholder, Goes, CaptureTypes, Stages, Forms, Unseen
<1>3. CASE Transcribe(u)
  BY <1>3 DEF Transcribe, Goes, CaptureTypes, Stages
<1>4. CASE Publish(u)
  BY <1>4 DEF Publish, Goes, CaptureTypes, Stages, Loops, Forms
<1>5. CASE Insert(u)
  BY <1>5 DEF Insert, Goes, CaptureTypes, Stages, Loops, NoRaise, Raise, Row
<1>6. CASE Finish(u)
  BY <1>6 DEF Finish, Goes, CaptureTypes, Stages, NoRaise, Raise
<1>7. CASE GiveUp(u)
  <2>1. /\ Reconcile({i \in intents : i[1] = u}) /\ at' = [at EXCEPT ![u] = "refused"] /\ turn' = NoUpload
        /\ UNCHANGED <<rows, revision, up>>
    BY <1>7 DEF GiveUp
  <2> QED
    BY <2>1, ReconcileTypes DEF CaptureTypes, Stages
<1> QED
  BY <1>1, <1>2, <1>3, <1>4, <1>5, <1>6, <1>7

LEMMA OtherTypes ==
    ASSUME CaptureTypes,
           \/ \E u \in Uploads : Stage(u) \/ DeleteRow(u) \/ DeleteBareRow(u) \/ Settle(u)
           \/ Die \/ Start \/ \E i \in intents : Recover(i)
    PROVE  CaptureTypes'
<1>1. ASSUME NEW u \in Uploads, Stage(u) PROVE CaptureTypes'
  BY <1>1 DEF Stage, CaptureTypes, Stages, Loops, Forms, Unseen
<1>2. ASSUME NEW u \in Uploads, DeleteRow(u) PROVE CaptureTypes'
  BY <1>2 DEF DeleteRow, Goes, CaptureTypes, Stages, Loops, NoRaise, Raise
<1>3. ASSUME NEW u \in Uploads, Settle(u) PROVE CaptureTypes'
  <2>1. /\ Reconcile(intents \cap {<<u, "hidden">>}) /\ turn' = NoUpload
        /\ at' = [at EXCEPT ![u] = IF Exists(u) THEN "answered" ELSE "gone"] /\ UNCHANGED <<rows, revision, up>>
    BY <1>3 DEF Settle, Goes
  <2>2. at' \in [Uploads -> Stages]
    BY <2>1 DEF CaptureTypes, Stages
  <2> QED
    BY <2>1, <2>2, ReconcileTypes DEF CaptureTypes
<1>7. ASSUME NEW u \in Uploads, DeleteBareRow(u) PROVE CaptureTypes'
  BY <1>7 DEF DeleteBareRow, CaptureTypes, Stages, NoRaise, Raise
<1>4. CASE Die
  BY <1>4 DEF Die, CaptureTypes, Stages
<1>5. CASE Start
  BY <1>5 DEF Start, CaptureTypes
<1>6. ASSUME NEW i \in intents, Recover(i) PROVE CaptureTypes'
  <2>1. Reconcile({i}) /\ UNCHANGED <<at, rows, revision, turn, up>>
    BY <1>6 DEF Recover
  <2> QED
    BY <2>1, ReconcileTypes DEF CaptureTypes
<1> QED
  BY <1>1, <1>2, <1>3, <1>4, <1>5, <1>6, <1>7

LEMMA RevisionTypes ==
    ASSUME CaptureTypes, NEW r \in Revisions,
           \/ Refine(r) \/ Retranscribe(r)
           \/ \E u \in Uploads, kind \in {"refine", "retranscribe"} : Ask(r, u, kind)
    PROVE  CaptureTypes'
<1>1. ASSUME NEW u \in Uploads, NEW kind \in {"refine", "retranscribe"}, Ask(r, u, kind) PROVE CaptureTypes'
  <2>1. rows[u].raw \in Texts
    BY <1>1 DEF Ask, Exists, CaptureTypes, Row
  <2> QED
    BY <1>1, <2>1 DEF Ask, RevisionOf, CaptureTypes
<1>2. CASE Refine(r)
  <2>1. revision[r].kind = "refine" /\ revision[r] # NoRevision
    BY <1>2 DEF Refine, RevisionEnds
  <2>2. revision[r].read \in Texts /\ revision[r].of \in Uploads
    BY <2>1 DEF CaptureTypes
  <2>3. rows' \in [Uploads -> {NoRow} \cup Row]
    <3>1. CASE UNCHANGED rows
      BY <3>1 DEF CaptureTypes
    <3>2. CASE Exists(revision[r].of) /\ rows' = [rows EXCEPT ![revision[r].of].refined = revision[r].read]
      <4>1. rows[revision[r].of] \in Row
        BY <2>2, <3>2 DEF Exists, CaptureTypes
      <4>2. [rows[revision[r].of] EXCEPT !.refined = revision[r].read] \in Row
        BY <2>2, <4>1 DEF Row
      <4> QED
        BY <2>2, <3>2, <4>2 DEF CaptureTypes
    <3> QED
      BY <1>2, <3>1, <3>2 DEF Refine
  <2>4. raises' \in Nat
    BY <1>2 DEF Refine, NoRaise, Raise, CaptureTypes
  <2> QED
    BY <1>2, <2>3, <2>4 DEF Refine, RevisionEnds, CaptureTypes
<1>3. CASE Retranscribe(r)
  <2>1. ASSUME NEW t \in Texts PROVE [raw |-> t, refined |-> NoText] \in Row
    BY DEF Row
  <2>2. rows' \in [Uploads -> {NoRow} \cup Row]
    <3>1. CASE UNCHANGED rows
      BY <3>1 DEF CaptureTypes
    <3>2. CASE \E t \in Texts : rows' = [rows EXCEPT ![revision[r].of] = [raw |-> t, refined |-> NoText]]
      BY <2>1, <3>2 DEF CaptureTypes
    <3> QED
      BY <1>3, <3>1, <3>2 DEF Retranscribe
  <2>3. raises' \in Nat
    BY <1>3 DEF Retranscribe, NoRaise, Raise, CaptureTypes
  <2> QED
    BY <1>3, <2>2, <2>3 DEF Retranscribe, RevisionEnds, CaptureTypes
<1> QED
  BY <1>1, <1>2, <1>3


-----------------------------------------------------------------------------
(* What settling some intents of one upload does to its files, and that it  *)
(* leaves the others alone.                                                 *)
LEMMA ReconcileOne ==
    ASSUME CaptureTypes, NEW u \in Uploads, NEW is \in SUBSET intents, \A i \in is : i[1] = u, Reconcile(is)
    PROVE  /\ \A w \in Uploads \ {u}, n \in Forms :
                  (Has(w, n)' <=> Has(w, n)) /\ (Journaled(w, n)' <=> Journaled(w, n))
           /\ \/ UNCHANGED <<files, intents>> /\ raises' = raises + 1 /\ is # {}
              \/ /\ raises' = raises
                 /\ \A n \in Forms : Journaled(u, n)' <=> Journaled(u, n) /\ <<u, n>> \notin is
                 /\ \A n \in Unseen : Has(u, n)' <=> Has(u, n) /\ <<u, n>> \notin is
                 /\ Exists(u) => (Has(u, "audio")' <=>
                        Has(u, "audio") \/ \E n \in {"new", "hidden"} : <<u, n>> \in is /\ Has(u, n))
                 /\ ~Exists(u) => (Has(u, "audio")' <=> Has(u, "audio") /\ is = {})
<1> DEFINE Public(i) == <<i[1], "audio">>
           unowned == {i \in is : ~Exists(i[1])}
           restored == {i \in (is \cap files) \ unowned : i[2] # "raw"}
<1>1. ASSUME NEW i \in is PROVE /\ i = <<u, i[2]>> /\ i[2] \in Unseen /\ Public(i) = <<u, "audio">>
                               /\ (i \in unowned <=> ~Exists(u))
  BY DEF CaptureTypes
<1>2. CASE UNCHANGED <<files, intents>> /\ raises' = raises + 1 /\ is # {}
  BY <1>2 DEF Has, Journaled
<1>3. CASE /\ raises' = raises /\ intents' = intents \ is
           /\ files' = (files \ (is \cup {Public(i) : i \in unowned})) \cup {Public(i) : i \in restored}
  <2>1. \A w \in Uploads \ {u}, n \in Forms : <<w, n>> \notin is /\ \A i \in is : Public(i) # <<w, n>>
    BY <1>1
  <2>2. \A w \in Uploads \ {u}, n \in Forms :
            (Has(w, n)' <=> Has(w, n)) /\ (Journaled(w, n)' <=> Journaled(w, n))
    BY <1>3, <2>1 DEF Has, Journaled
  <2>3. \A n \in Forms : Journaled(u, n)' <=> Journaled(u, n) /\ <<u, n>> \notin is
    BY <1>3 DEF Journaled
  <2>4. \A n \in Unseen, i \in is : Public(i) # <<u, n>>
    BY <1>1 DEF Unseen
  <2>5. \A n \in Unseen : Has(u, n)' <=> Has(u, n) /\ <<u, n>> \notin is
    BY <1>3, <2>4 DEF Has
  <2>6. <<u, "audio">> \notin is
    BY <1>1 DEF Unseen
  <2>7. CASE Exists(u)
    <3>1. unowned = {}
      BY <1>1, <2>7
    <3>2. Has(u, "audio")' <=> Has(u, "audio") \/ restored # {}
      BY <1>1, <1>3, <2>6, <3>1 DEF Has
    <3>3. restored # {} <=> \E n \in {"new", "hidden"} : <<u, n>> \in is /\ Has(u, n)
      <4>1. ASSUME NEW i \in restored PROVE \E n \in {"new", "hidden"} : <<u, n>> \in is /\ Has(u, n)
        BY <1>1 DEF Has, Unseen
      <4>2. ASSUME NEW n \in {"new", "hidden"}, <<u, n>> \in is, Has(u, n) PROVE <<u, n>> \in restored
        BY <3>1, <4>2 DEF Has
      <4> QED
        BY <4>1, <4>2
    <3> QED
      BY <1>3, <2>2, <2>3, <2>5, <2>7, <3>2, <3>3
  <2>8. CASE ~Exists(u)
    <3>1. unowned = is /\ restored = {}
      BY <1>1, <2>8
    <3>2. Has(u, "audio")' <=> Has(u, "audio") /\ is = {}
      BY <1>1, <1>3, <2>6, <3>1 DEF Has
    <3> QED
      BY <1>3, <2>2, <2>3, <2>5, <2>8, <3>2
  <2> QED
    BY <2>7, <2>8
<1> QED
  BY <1>2, <1>3 DEF Reconcile, Raise, NoRaise


-----------------------------------------------------------------------------
(* The steps of one upload's handler. *)

(* A handler has the loop to itself: only its own upload is disturbed.      *)
LEMMA OneUpload ==
    ASSUME CapturesInv, CaptureTypes', NEW u \in Uploads, turn \in {u, NoUpload}, UNCHANGED <<up, tried>>,
           raises' = raises \/ raises' = raises + 1, \A w \in Uploads \ {u} : LeftAlone(w), UploadInv(u)'
    PROVE  CapturesInv'
<1>1. ASSUME NEW w \in Uploads \ {u} PROVE UploadInv(w)'
  <2>1. at[w] \notin Loops
    BY NoRowFacts DEF CapturesInv, UploadInv, Placed
  <2> QED
    BY <2>1, OthersKeep
<1> QED
  BY <1>1 DEF CapturesInv

(* The names of one upload, before and after. *)
LEMMA WriteKeeps ==
    ASSUME CapturesInv, NEW u \in Uploads, Place(u) \/ Transcode(u) \/ Transcribe(u) \/ Publish(u)
    PROVE  CapturesInv'
<1>1. UploadInv(u) /\ CaptureTypes /\ up /\ turn = NoUpload
  BY DEF CapturesInv, Place, Transcode, Transcribe, Publish, LoopFree
<1>2. CaptureTypes'
  BY <1>1, CreateTypes
<1>3. UNCHANGED <<rows, up, tried, raises>> /\ u \in DOMAIN at
  BY <1>1 DEF Place, Transcode, Transcribe, Publish, CaptureTypes
<1>4. ASSUME NEW w \in Uploads \ {u} PROVE LeftAlone(w)
  BY <1>1 DEF Place, Transcode, Transcribe, Publish, Placeholder, Goes, LeftAlone, Has, Journaled, CaptureTypes
<1>5. CASE Place(u)
  <2>1. at[u] = "new" /\ at'[u] = "filling"
    BY <1>3, <1>5 DEF Place, Goes
  <2>2. ~Exists(u) /\ Only(u, {}, {})
    BY <1>1, <2>1 DEF UploadInv, Phased
  <2>3. IF u \in Compressed THEN Only(u, {"raw"}, {"raw"})' ELSE Only(u, {"new"}, {"new"})'
    BY <1>5, <2>2 DEF Place, Placeholder, Only, Has, Journaled
  <2>4. UploadInv(u)'
    BY <1>1, <1>3, <2>1, <2>2, <2>3 DEF UploadInv, Accounted, Phased, Placed, Only, Forms, Unseen, Loops, InFlight, Exists
  <2> QED
    BY <1>1, <1>2, <1>3, <1>4, <2>4, OneUpload
<1>6. CASE Transcode(u)
  <2>1. at[u] = "filling" /\ at'[u] = "transcoding" /\ u \in Compressed
    BY <1>3, <1>6 DEF Transcode, Goes
  <2>2. ~Exists(u) /\ Only(u, {"raw"}, {"raw"})
    BY <1>1, <2>1 DEF UploadInv, Phased
  <2>3. Only(u, {"raw", "new"}, {"raw", "new"})'
    BY <1>6, <2>2 DEF Transcode, Placeholder, Only, Has, Journaled
  <2>4. UploadInv(u)'
    BY <1>1, <1>3, <2>1, <2>2, <2>3 DEF UploadInv, Accounted, Phased, Placed, Only, Forms, Unseen, Loops, InFlight, Exists
  <2> QED
    BY <1>1, <1>2, <1>3, <1>4, <2>4, OneUpload
<1>7. CASE Transcribe(u)
  <2>1. at'[u] = "ready" /\ at[u] = IF u \in Compressed THEN "transcoding" ELSE "filling"
    BY <1>3, <1>7 DEF Transcribe, Goes
  <2>2. ~Exists(u) /\ (Only(u, {"raw", "new"}, {"raw", "new"}) \/ Only(u, {"new"}, {"new"}))
    BY <1>1, <2>1 DEF UploadInv, Phased
  <2>3. Only(u, {"new"}, {"new"})'
    BY <1>7, <2>2 DEF Transcribe, Only, Has, Journaled, Forms
  <2>4. UploadInv(u)'
    BY <1>1, <1>3, <2>1, <2>2, <2>3 DEF UploadInv, Accounted, Phased, Placed, Only, Forms, Unseen, Loops, InFlight, Exists
  <2> QED
    BY <1>1, <1>2, <1>3, <1>4, <2>4, OneUpload
<1>8. CASE Publish(u)
  <2>1. at'[u] = "published" /\ at[u] = "ready" /\ turn' = u
    BY <1>3, <1>8 DEF Publish, Goes
  <2>2. ~Exists(u) /\ Only(u, {"new"}, {"new"})
    BY <1>1, <2>1 DEF UploadInv, Phased
  <2>3. Only(u, {"audio"}, {"new"})'
    BY <1>8, <2>2 DEF Publish, Only, Has, Journaled, Forms
  <2>4. UploadInv(u)'
    BY <1>1, <1>3, <2>1, <2>2, <2>3 DEF UploadInv, Accounted, Phased, Placed, Only, Forms, Unseen, Loops, InFlight, Exists
  <2> QED
    BY <1>1, <1>2, <1>3, <1>4, <2>4, OneUpload
<1> QED
  BY <1>5, <1>6, <1>7, <1>8

LEMMA InsertKeeps == ASSUME CapturesInv, NEW u \in Uploads, Insert(u) PROVE CapturesInv'
<1>1. UploadInv(u) /\ CaptureTypes /\ up /\ at[u] = "published"
  BY DEF CapturesInv, Insert, Goes
<1>2. CaptureTypes' /\ turn = u
  BY <1>1, CreateTypes DEF UploadInv, Placed, Loops
<1>3. UNCHANGED <<files, intents, up, tried, turn>> /\ ~Exists(u) /\ Only(u, {"audio"}, {"new"})
  BY <1>1 DEF Insert, UploadInv, Phased
<1>4. \A w \in Uploads \ {u} : LeftAlone(w)
  BY <1>1, <1>3 DEF Insert, Goes, LeftAlone, Has, Journaled, CaptureTypes
<1>5. \/ at'[u] = "committed" /\ Exists(u)' /\ raises' = raises
      \/ at'[u] = "failing" /\ ~Exists(u)' /\ raises' = raises + 1
  <2>1. CASE Goes(u, "published", "failing") /\ Raise /\ UNCHANGED rows
    BY <1>1, <1>3, <2>1 DEF Goes, Raise, CaptureTypes, Exists
  <2>2. ASSUME NEW t \in Texts, rows' = [rows EXCEPT ![u] = [raw |-> t, refined |-> NoText]],
               Goes(u, "published", "committed"), NoRaise
        PROVE  at'[u] = "committed" /\ Exists(u)' /\ raises' = raises
    BY <1>1, <2>2, NoRowFacts DEF Goes, NoRaise, CaptureTypes, Exists, NoRow
  <2> QED
    BY <2>1, <2>2 DEF Insert
<1>6. Only(u, {"audio"}, {"new"})'
  BY <1>3 DEF Only, Has, Journaled
<1>7. UploadInv(u)'
  BY <1>1, <1>2, <1>3, <1>5, <1>6 DEF UploadInv, Accounted, Phased, Placed, Only, Forms, Unseen, Loops, InFlight
<1> QED
  BY <1>2, <1>3, <1>4, <1>5, <1>7, OneUpload

LEMMA FinishKeeps == ASSUME CapturesInv, NEW u \in Uploads, Finish(u) PROVE CapturesInv'
<1>1. UploadInv(u) /\ CaptureTypes /\ up /\ at[u] = "committed" /\ at'[u] = "answered" /\ turn' = NoUpload
  BY DEF CapturesInv, Finish, Goes, CaptureTypes
<1>2. CaptureTypes' /\ turn = u
  BY <1>1, CreateTypes DEF UploadInv, Placed, Loops
<1>3. UNCHANGED <<rows, files, up, tried>> /\ Exists(u) /\ Only(u, {"audio"}, {"new"})
  BY <1>1 DEF Finish, UploadInv, Phased
<1>4. \A w \in Uploads \ {u} : LeftAlone(w)
  BY <1>1, <1>3 DEF Finish, Goes, LeftAlone, Has, Journaled, CaptureTypes
<1>5. \/ raises' = raises /\ Only(u, {"audio"}, {})'
      \/ raises' = raises + 1 /\ Only(u, {"audio"}, {"new"})'
  BY <1>3 DEF Finish, Only, Has, Journaled, NoRaise, Raise
<1>6. UploadInv(u)'
  BY <1>1, <1>3, <1>5 DEF UploadInv, Accounted, Phased, Placed, Quiet, Only, Forms, Unseen, Loops, InFlight, Exists,
     CaptureTypes
<1> QED
  BY <1>2, <1>3, <1>4, <1>5, <1>6, OneUpload

(* Settling every intent of an upload leaves what its row asks for.         *)
LEMMA ReconcileSettles ==
    ASSUME CapturesInv, NEW u \in Uploads, NEW is \in SUBSET intents, \A i \in is : i[1] = u, Reconcile(is),
           UNCHANGED <<rows, up, tried>>, turn' = NoUpload, \A w \in Uploads \ {u} : at'[w] = at[w],
           at'[u] \in {"answered", "refused", "gone"}, at'[u] = "gone" => ~Exists(u), up,
           CaptureTypes', turn \in {u, NoUpload},
           raises = 0 => \A i \in intents : i[1] = u => i \in is,
           Has(u, "audio") => Exists(u) \/ \E i \in intents : i[1] = u /\ i \in is
    PROVE  CapturesInv'
<1>1. UploadInv(u) /\ CaptureTypes
  BY DEF CapturesInv
<1>2. /\ \A w \in Uploads \ {u}, n \in Forms :
             (Has(w, n)' <=> Has(w, n)) /\ (Journaled(w, n)' <=> Journaled(w, n))
      /\ \/ UNCHANGED <<files, intents>> /\ raises' = raises + 1 /\ is # {}
         \/ /\ raises' = raises
            /\ \A n \in Forms : Journaled(u, n)' <=> Journaled(u, n) /\ <<u, n>> \notin is
            /\ \A n \in Unseen : Has(u, n)' <=> Has(u, n) /\ <<u, n>> \notin is
            /\ Exists(u) => (Has(u, "audio")' <=>
                   Has(u, "audio") \/ \E n \in {"new", "hidden"} : <<u, n>> \in is /\ Has(u, n))
            /\ ~Exists(u) => (Has(u, "audio")' <=> Has(u, "audio") /\ is = {})
  BY <1>1, ReconcileOne
<1>3. \A w \in Uploads \ {u} : LeftAlone(w)
  BY <1>2 DEF LeftAlone
<1>4. raises' = raises \/ raises' = raises + 1
  BY <1>2
<1>5. Exists(u)' <=> Exists(u)
  BY DEF Exists
<1>6. Accounted(u)'
  <2>1. CASE UNCHANGED <<files, intents>>
    BY <1>1, <1>5, <2>1 DEF UploadInv, Accounted, Has, Journaled
  <2>2. CASE /\ \A n \in Forms : Journaled(u, n)' <=> Journaled(u, n) /\ <<u, n>> \notin is
             /\ \A n \in Unseen : Has(u, n)' <=> Has(u, n) /\ <<u, n>> \notin is
             /\ Exists(u) => (Has(u, "audio")' <=>
                    Has(u, "audio") \/ \E n \in {"new", "hidden"} : <<u, n>> \in is /\ Has(u, n))
             /\ ~Exists(u) => (Has(u, "audio")' <=> Has(u, "audio") /\ is = {})
    BY <1>1, <1>5, <2>2 DEF UploadInv, Accounted, Forms, Unseen
  <2> QED
    BY <1>2, <2>1, <2>2
<1>7. Phased(u)'
  BY <1>5 DEF Phased
<1>8. raises' = 0 => Quiet(u)'
  <2> SUFFICES ASSUME raises' = 0 PROVE Quiet(u)'
    OBVIOUS
  <2>1. raises = 0 /\ \A n \in Forms : Journaled(u, n) => <<u, n>> \in is
    BY <1>1, <1>4 DEF CaptureTypes, Journaled
  <2>2. raises' # raises + 1
    BY <1>1 DEF CaptureTypes
  <2>3. \A n \in Forms : ~Journaled(u, n)'
    BY <1>2, <2>1, <2>2
  <2> QED
    BY <1>5, <1>6, <2>3 DEF Accounted, Quiet, Only, Forms, Unseen
<1>9. UploadInv(u)'
  BY <1>6, <1>7, <1>8 DEF UploadInv, Placed, Loops, InFlight
<1> QED
  BY <1>3, <1>4, <1>9, OneUpload


LEMMA GiveUpKeeps == ASSUME CapturesInv, NEW u \in Uploads, GiveUp(u) PROVE CapturesInv'
<1>1. UploadInv(u) /\ CaptureTypes /\ up /\ at' = [at EXCEPT ![u] = "refused"] /\ turn' = NoUpload
  BY DEF CapturesInv, GiveUp
<1>2. CaptureTypes'
  BY <1>1, CreateTypes
<1>3. UNCHANGED <<rows, up, tried>> /\ Reconcile({i \in intents : i[1] = u})
  BY DEF GiveUp
<1>4. turn \in {u, NoUpload}
  BY <1>1 DEF GiveUp, UploadInv, Placed, Loops
<1>5. Has(u, "audio") => Exists(u) \/ \E i \in intents : i[1] = u
  <2>1. Journaled(u, "new") => \E i \in intents : i[1] = u
    BY DEF Journaled
  <2> QED
    BY <1>1, <2>1 DEF UploadInv, Accounted
<1>6. at'[u] = "refused" /\ \A w \in Uploads \ {u} : at'[w] = at[w]
  BY <1>1 DEF CaptureTypes
<1> QED
  BY <1>1, <1>2, <1>3, <1>4, <1>5, <1>6, ReconcileSettles

LEMMA StageKeeps == ASSUME CapturesInv, NEW u \in Uploads, Stage(u) PROVE CapturesInv'
<1>1. UploadInv(u) /\ CaptureTypes /\ up /\ turn = NoUpload /\ turn' = u /\ Exists(u) /\ Exists(u)'
  BY DEF CapturesInv, Stage, LoopFree, Exists
<1>2. CaptureTypes'
  BY <1>1, OtherTypes
<1>3. /\ UNCHANGED <<rows, up, tried, raises>> /\ \A w \in Uploads \ {u} : at'[w] = at[w]
      /\ at'[u] = IF Has(u, "audio") THEN "deleting" ELSE "bare"
  <2>1. CASE Has(u, "audio")
    BY <1>1, <2>1 DEF Stage, CaptureTypes, Has
  <2>2. CASE ~Has(u, "audio")
    BY <1>1, <2>2 DEF Stage, CaptureTypes, Has
  <2> QED
    BY <2>1, <2>2
<1>4. \A w \in Uploads \ {u} : LeftAlone(w)
  BY <1>1, <1>3 DEF Stage, LeftAlone, Has, Journaled
<1>5. at[u] \in {"answered", "refused"}
  BY <1>1, NoRowFacts DEF UploadInv, Phased, Placed, CaptureTypes, Stages, Loops
<1>6. /\ ~Has(u, "audio")'
      /\ \A n \in Forms : Journaled(u, n)' => Journaled(u, n) \/ n = "hidden"
      /\ \A n \in Unseen : Has(u, n)' => Has(u, n) \/ (n = "hidden" /\ Journaled(u, n)')
      /\ \A n \in Forms : Journaled(u, n) => Journaled(u, n)'
      /\ Has(u, "audio") => Has(u, "hidden")' /\ Journaled(u, "hidden")'
      /\ ~Has(u, "audio") => (Has(u, "hidden")' <=> Has(u, "hidden"))
  <2>1. CASE Has(u, "audio")
    BY <2>1 DEF Stage, Has, Journaled, Forms, Unseen
  <2>2. CASE ~Has(u, "audio")
    BY <2>2 DEF Stage, Has, Journaled, Forms, Unseen
  <2> QED
    BY <2>1, <2>2
<1>7. Accounted(u)'
  BY <1>1, <1>6 DEF UploadInv, Accounted, Forms, Unseen
<1>8. raises = 0 => Has(u, "audio") /\ \A n \in Forms : ~Journaled(u, n)
  BY <1>1, <1>5 DEF UploadInv, Placed, InFlight, Quiet, Only, Forms
<1>9. UploadInv(u)'
  BY <1>1, <1>3, <1>6, <1>7, <1>8 DEF UploadInv, Phased, Placed, Loops, InFlight
<1> QED
  BY <1>1, <1>2, <1>3, <1>4, <1>9, OneUpload

LEMMA DeleteRowKeeps == ASSUME CapturesInv, NEW u \in Uploads, DeleteRow(u) PROVE CapturesInv'
<1>1. UploadInv(u) /\ CaptureTypes /\ up /\ at[u] = "deleting" /\ at'[u] = "settling"
  BY DEF CapturesInv, DeleteRow, Goes, CaptureTypes
<1>2. CaptureTypes' /\ turn = u
  BY <1>1, OtherTypes DEF UploadInv, Placed, Loops
<1>3. UNCHANGED <<files, intents, up, tried, turn>> /\ ~Has(u, "audio")
  BY <1>1 DEF DeleteRow, UploadInv, Phased
<1>4. \A w \in Uploads \ {u} : LeftAlone(w)
  BY <1>1, <1>3 DEF DeleteRow, Goes, LeftAlone, Has, Journaled, CaptureTypes
<1>5. \/ raises' = raises /\ ~Exists(u)'
      \/ raises' = raises + 1 /\ UNCHANGED rows
  BY <1>1 DEF DeleteRow, NoRaise, Raise, CaptureTypes, Exists
<1>6. UploadInv(u)'
  BY <1>1, <1>2, <1>3, <1>5 DEF UploadInv, Accounted, Phased, Placed, Loops, InFlight, Exists, Has, Journaled,
     CaptureTypes
<1> QED
  BY <1>2, <1>3, <1>4, <1>5, <1>6, OneUpload

LEMMA DeleteBareKeeps == ASSUME CapturesInv, NEW u \in Uploads, DeleteBareRow(u) PROVE CapturesInv'
<1>1. UploadInv(u) /\ CaptureTypes /\ CaptureTypes' /\ up /\ at[u] = "bare"
  BY OtherTypes DEF CapturesInv, DeleteBareRow
<1>2. /\ turn = u /\ turn' = NoUpload /\ raises # 0 /\ ~Has(u, "audio")
      /\ UNCHANGED <<files, intents, up, tried>>
  BY <1>1 DEF DeleteBareRow, UploadInv, Placed, Phased, Loops
<1>3. /\ \/ raises' = raises /\ ~Exists(u)' /\ at'[u] = "gone"
         \/ raises' = raises + 1 /\ UNCHANGED rows /\ at'[u] = "answered"
      /\ \A w \in Uploads \ {u} : at'[w] = at[w] /\ rows'[w] = rows[w]
  BY <1>1 DEF DeleteBareRow, NoRaise, Raise, CaptureTypes, Exists
<1>4. \A w \in Uploads \ {u} : LeftAlone(w)
  BY <1>2, <1>3 DEF LeftAlone, Has, Journaled
<1>5. raises' # 0
  BY <1>1, <1>2, <1>3 DEF CaptureTypes
<1>6. UploadInv(u)'
  BY <1>1, <1>2, <1>3, <1>5 DEF UploadInv, Accounted, Phased, Placed, Loops, InFlight, Exists, Has, Journaled
<1> QED
  BY <1>1, <1>2, <1>3, <1>4, <1>6, OneUpload

LEMMA SettleKeeps == ASSUME CapturesInv, NEW u \in Uploads, Settle(u) PROVE CapturesInv'
<1> DEFINE is == intents \cap {<<u, "hidden">>}
<1>1. /\ UploadInv(u) /\ CaptureTypes /\ up /\ at[u] = "settling" /\ turn' = NoUpload
      /\ at' = [at EXCEPT ![u] = IF Exists(u) THEN "answered" ELSE "gone"]
  BY DEF CapturesInv, Settle, Goes
<1>2. CaptureTypes' /\ turn = u
  BY <1>1, OtherTypes DEF UploadInv, Placed, Loops
<1>3. UNCHANGED <<rows, up, tried>> /\ Reconcile(is)
  BY DEF Settle
<1>4. ~Has(u, "audio")
  BY <1>1 DEF UploadInv, Phased
<1>5. raises = 0 => \A i \in intents : i[1] = u => i \in is
  <2> SUFFICES ASSUME raises = 0, NEW i \in intents, i[1] = u PROVE i \in is
    OBVIOUS
  <2>1. i = <<u, i[2]>> /\ i[2] \in Forms
    BY <1>1 DEF CaptureTypes, Forms, Unseen
  <2>2. Journaled(u, i[2])
    BY <2>1 DEF Journaled
  <2>3. i[2] = "hidden"
    BY <1>1, <2>1, <2>2 DEF UploadInv, Phased
  <2> QED
    BY <2>1, <2>3
<1>6. /\ at'[u] \in {"answered", "refused", "gone"} /\ (at'[u] = "gone" => ~Exists(u))
      /\ \A w \in Uploads \ {u} : at'[w] = at[w]
  BY <1>1 DEF CaptureTypes
<1>7. is \in SUBSET intents /\ \A i \in is : i[1] = u
  OBVIOUS
<1> QED
  BY <1>1, <1>2, <1>3, <1>4, <1>5, <1>6, <1>7, ReconcileSettles

-----------------------------------------------------------------------------
(* Revisions, deaths and the next start. *)

LEMMA RevisionKeeps ==
    ASSUME CapturesInv, NEW r \in Revisions,
           \/ Refine(r) \/ Retranscribe(r)
           \/ \E u \in Uploads, kind \in {"refine", "retranscribe"} : Ask(r, u, kind)
    PROVE  CapturesInv'
<1>1. CaptureTypes /\ CaptureTypes'
  BY RevisionTypes DEF CapturesInv
<1>2. /\ UNCHANGED <<at, files, intents, up, turn, tried>>
      /\ raises' = raises \/ raises' = raises + 1
  BY DEF Refine, Retranscribe, Ask, RevisionEnds, NoRaise, Raise
<1>3. ASSUME NEW w \in Uploads PROVE Exists(w)' <=> Exists(w)
  <2>1. CASE \E u \in Uploads, kind \in {"refine", "retranscribe"} : Ask(r, u, kind)
    BY <2>1 DEF Ask, Exists
  <2>2. CASE UNCHANGED rows
    BY <2>2 DEF Exists
  <2>3. CASE /\ Exists(revision[r].of)
             /\ rows' = [rows EXCEPT ![revision[r].of].refined = revision[r].read]
    <3>1. CASE w = revision[r].of
      <4>1. rows[w] \in Row /\ rows'[w] = [rows[w] EXCEPT !.refined = revision[r].read]
        BY <1>1, <2>3, <3>1 DEF CaptureTypes, Exists
      <4>2. rows'[w].raw = rows[w].raw /\ rows[w].raw \in Texts
        BY <4>1 DEF Row
      <4> QED
        BY <2>3, <3>1, <4>2, NoRowFacts DEF Exists, NoRow
    <3>2. CASE w # revision[r].of
      BY <1>1, <2>3, <3>2 DEF CaptureTypes, Exists
    <3> QED
      BY <3>1, <3>2
  <2>4. ASSUME NEW t \in Texts, Exists(revision[r].of),
               rows' = [rows EXCEPT ![revision[r].of] = [raw |-> t, refined |-> NoText]]
        PROVE  Exists(w)' <=> Exists(w)
    BY <1>1, <2>4, NoRowFacts DEF CaptureTypes, Exists, NoRow
  <2> QED
    BY <2>1, <2>2, <2>3, <2>4 DEF Refine, Retranscribe
<1>4. raises' = 0 => raises = 0
  BY <1>1, <1>2 DEF CaptureTypes
<1>5. ASSUME NEW w \in Uploads PROVE UploadInv(w)'
  <2>1. UploadInv(w) /\ (Exists(w)' <=> Exists(w))
    BY <1>3 DEF CapturesInv
  <2>2. Accounted(w)'
    BY <1>2, <2>1 DEF UploadInv, Accounted, Has, Journaled
  <2>3. \A F, I \in SUBSET Forms : Only(w, F, I) => Only(w, F, I)'
    BY <1>2 DEF Only, Has, Journaled
  <2>4. Phased(w)'
    BY <1>2, <1>4, <2>1, <2>3 DEF UploadInv, Phased, Forms, Has, Journaled
  <2>5. Placed(w)'
    BY <1>2, <1>4, <2>1, <2>3 DEF UploadInv, Placed, Quiet, Forms, InFlight, Journaled
  <2> QED
    BY <2>2, <2>4, <2>5 DEF UploadInv
<1> QED
  BY <1>1, <1>5 DEF CapturesInv

LEMMA DieKeeps == ASSUME CapturesInv, Die PROVE CapturesInv'
<1>1. /\ CaptureTypes /\ CaptureTypes' /\ UNCHANGED <<rows, files, intents, raises>> /\ ~up'
      /\ tried' = {}
      /\ at' = [u \in Uploads |-> IF at[u] = "new" THEN "new" ELSE IF Exists(u) THEN "answered" ELSE "lost"]
  BY OtherTypes DEF CapturesInv, Die
<1>2. ASSUME NEW w \in Uploads PROVE UploadInv(w)'
  <2>1. UploadInv(w) /\ (Exists(w)' <=> Exists(w))
    BY <1>1 DEF CapturesInv, Exists
  <2>2. Accounted(w)'
    BY <1>1, <2>1 DEF UploadInv, Accounted, Has, Journaled
  <2>3. Only(w, {}, {}) => Only(w, {}, {})'
    BY <1>1 DEF Only, Has, Journaled
  <2>4. Phased(w)'
    BY <1>1, <2>1, <2>3 DEF UploadInv, Phased
  <2>5. Placed(w)'
    BY <1>1 DEF Placed, Loops, InFlight
  <2> QED
    BY <2>2, <2>4, <2>5 DEF UploadInv
<1> QED
  BY <1>1, <1>2 DEF CapturesInv

LEMMA StartKeeps == ASSUME CapturesInv, Start PROVE CapturesInv'
<1>1. /\ CaptureTypes /\ CaptureTypes' /\ UNCHANGED <<at, rows, files, intents, turn, tried, raises>>
      /\ ~up /\ up' /\ intents \subseteq tried
  BY OtherTypes DEF CapturesInv, Start
<1>2. ASSUME NEW w \in Uploads PROVE UploadInv(w)'
  <2>1. UploadInv(w) /\ (Exists(w)' <=> Exists(w))
    BY <1>1 DEF CapturesInv, Exists
  <2>2. Accounted(w)'
    BY <1>1, <2>1 DEF UploadInv, Accounted, Has, Journaled
  <2>3. \A F, I \in SUBSET Forms : Only(w, F, I) => Only(w, F, I)'
    BY <1>1 DEF Only, Has, Journaled
  <2>4. Phased(w)'
    BY <1>1, <2>1, <2>3 DEF UploadInv, Phased, Forms, Has, Journaled
  <2>5. raises = 0 => \A n \in Forms : ~Journaled(w, n)
    BY <1>1, <2>1 DEF UploadInv, Placed, Journaled
  <2>6. raises = 0 => Quiet(w)
    BY <2>1, <2>5 DEF UploadInv, Accounted, Quiet, Only, Forms, Unseen
  <2>7. Quiet(w) => Quiet(w)'
    BY <2>1, <2>3 DEF Quiet, Forms
  <2>8. Placed(w)'
    BY <1>1, <2>1, <2>6, <2>7 DEF UploadInv, Placed, InFlight
  <2> QED
    BY <2>2, <2>4, <2>8 DEF UploadInv
<1> QED
  BY <1>1, <1>2 DEF CapturesInv


LEMMA RecoverKeeps == ASSUME CapturesInv, NEW i \in intents, Recover(i) PROVE CapturesInv'
<1>1. /\ CaptureTypes /\ CaptureTypes' /\ UNCHANGED <<at, rows, turn, up>>
      /\ ~up /\ i \notin tried /\ tried' = tried \cup {i} /\ Reconcile({i})
  BY OtherTypes DEF CapturesInv, Recover
<1>2. PICK u \in Uploads, k \in Unseen : i = <<u, k>>
  BY <1>1 DEF CaptureTypes
<1>3. /\ \A w \in Uploads \ {u}, n \in Forms :
             (Has(w, n)' <=> Has(w, n)) /\ (Journaled(w, n)' <=> Journaled(w, n))
      /\ \/ UNCHANGED <<files, intents>> /\ raises' = raises + 1
         \/ /\ raises' = raises
            /\ \A n \in Forms : Journaled(u, n)' <=> Journaled(u, n) /\ n # k
            /\ \A n \in Unseen : Has(u, n)' <=> Has(u, n) /\ n # k
            /\ Exists(u) => (Has(u, "audio")' <=> Has(u, "audio") \/ (k \in {"new", "hidden"} /\ Has(u, k)))
            /\ ~Exists(u) => ~Has(u, "audio")'
  <2>1. {i} \in SUBSET intents /\ \A j \in {i} : j[1] = u
    BY <1>2
  <2>2. /\ \A w \in Uploads \ {u}, n \in Forms :
               (Has(w, n)' <=> Has(w, n)) /\ (Journaled(w, n)' <=> Journaled(w, n))
        /\ \/ UNCHANGED <<files, intents>> /\ raises' = raises + 1
           \/ /\ raises' = raises
              /\ \A n \in Forms : Journaled(u, n)' <=> Journaled(u, n) /\ <<u, n>> \notin {i}
              /\ \A n \in Unseen : Has(u, n)' <=> Has(u, n) /\ <<u, n>> \notin {i}
              /\ Exists(u) => (Has(u, "audio")' <=>
                     Has(u, "audio") \/ \E n \in {"new", "hidden"} : <<u, n>> \in {i} /\ Has(u, n))
              /\ ~Exists(u) => (Has(u, "audio")' <=> Has(u, "audio") /\ {i} = {})
    BY <1>1, <2>1, ReconcileOne
  <2>3. \A n : <<u, n>> \in {i} <=> n = k
    BY <1>2
  <2> QED
    BY <2>2, <2>3
<1>4. ASSUME NEW w \in Uploads \ {u} PROVE UploadInv(w)'
  <2>1. LeftAlone(w) /\ \A n \in Forms : <<w, n>> \in tried' <=> <<w, n>> \in tried
    BY <1>1, <1>2, <1>3 DEF LeftAlone
  <2> QED
    BY <1>1, <1>3, <2>1, OthersKeep
<1>5. UploadInv(u)'
  <2>1. UploadInv(u) /\ (Exists(u)' <=> Exists(u)) /\ (InFlight(u)' <=> InFlight(u)) /\ Journaled(u, k)
    BY <1>1, <1>2 DEF CapturesInv, Exists, InFlight, Journaled
  <2>2. Accounted(u)'
    <3>1. CASE UNCHANGED <<files, intents>>
      BY <2>1, <3>1 DEF UploadInv, Accounted, Has, Journaled
    <3>2. CASE /\ \A n \in Forms : Journaled(u, n)' <=> Journaled(u, n) /\ n # k
               /\ \A n \in Unseen : Has(u, n)' <=> Has(u, n) /\ n # k
               /\ Exists(u) => (Has(u, "audio")' <=> Has(u, "audio") \/ (k \in {"new", "hidden"} /\ Has(u, k)))
               /\ ~Exists(u) => ~Has(u, "audio")'
      BY <2>1, <3>2 DEF UploadInv, Accounted, Forms, Unseen
    <3> QED
      BY <1>3, <3>1, <3>2
  <2>3. ~InFlight(u) /\ at[u] # "new"
    BY <1>1, <1>2, <2>1 DEF UploadInv, Placed, Phased, Only, Forms, Unseen
  <2>4. Phased(u)'
    BY <1>1, <2>1, <2>3 DEF UploadInv, Phased, InFlight
  <2>5. Placed(u)'
    <3>1. at'[u] \notin Loops /\ ~InFlight(u)' /\ ~up'
      BY <1>1, <2>1, <2>3 DEF Loops, InFlight
    <3>2. raises' = 0 => raises = 0 /\ raises' = raises
      BY <1>1, <1>3 DEF CaptureTypes
    <3>3. raises' = 0 => \A n \in Forms : Journaled(u, n)' => <<u, n>> \notin tried'
      BY <1>1, <1>2, <1>3, <2>1, <3>2 DEF UploadInv, Placed, CaptureTypes
    <3> QED
      BY <3>1, <3>3 DEF Placed
  <2> QED
    BY <2>2, <2>4, <2>5 DEF UploadInv
<1> QED
  BY <1>1, <1>4, <1>5 DEF CapturesInv

LEMMA CapturesInvStep == CapturesInv /\ [CapturesNext]_captureVars => CapturesInv'
<1> SUFFICES ASSUME CapturesInv, [CapturesNext]_captureVars PROVE CapturesInv'
  OBVIOUS
<1>1. CASE UNCHANGED captureVars
  <2>1. CaptureTypes'
    BY <1>1 DEF CapturesInv, CaptureTypes, captureVars
  <2>2. ASSUME NEW w \in Uploads PROVE UploadInv(w)'
    BY <1>1, <2>1, OthersKeep DEF captureVars, LeftAlone, Has, Journaled
  <2> QED
    BY <2>1, <2>2 DEF CapturesInv
<1>2. CASE \E u \in Uploads : Place(u) \/ Transcode(u) \/ Transcribe(u) \/ Publish(u)
  BY <1>2, WriteKeeps
<1>3. CASE \E u \in Uploads : Insert(u) \/ Finish(u) \/ GiveUp(u)
  BY <1>3, InsertKeeps, FinishKeeps, GiveUpKeeps
<1>4. CASE \E u \in Uploads : Stage(u) \/ DeleteRow(u) \/ DeleteBareRow(u) \/ Settle(u)
  BY <1>4, StageKeeps, DeleteRowKeeps, DeleteBareKeeps, SettleKeeps
<1>5. CASE \E r \in Revisions :
               \/ Refine(r) \/ Retranscribe(r)
               \/ \E u \in Uploads, kind \in {"refine", "retranscribe"} : Ask(r, u, kind)
  BY <1>5, RevisionKeeps
<1>6. CASE Die \/ Start \/ \E i \in intents : Recover(i)
  BY <1>6, DieKeeps, StartKeeps, RecoverKeeps
<1> QED
  BY <1>1, <1>2, <1>3, <1>4, <1>5, <1>6 DEF CapturesNext

LEMMA CapturesInvAlways == CapturesSpec => []CapturesInv
  BY CapturesInvInit, CapturesInvStep, PTL DEF CapturesSpec

(* For any number of recordings, failures and deaths: a capture has its     *)
(* recording, what no capture owns has an intent that will discard it, and  *)
(* without a failed call nothing is left when no handler runs.              *)
THEOREM RecordingsAreAccounted == CapturesSpec => []RecordingsAccounted
<1>1. ASSUME CapturesInv PROVE RecordingsAccounted
  <2>1. \A u \in Uploads : Accounted(u) /\ Placed(u)
    BY <1>1 DEF CapturesInv, UploadInv
  <2>2. \A u \in Uploads : Exists(u) => <<u, "audio">> \in files \/ <<u, "hidden">> \in files \cap intents
    BY <2>1 DEF Accounted, Has, Journaled
  <2>3. ASSUME NEW f \in files
        PROVE  IF f[2] = "audio" THEN Exists(f[1]) \/ <<f[1], "new">> \in intents ELSE f \in intents
    <3>1. f = <<f[1], f[2]>> /\ f[1] \in Uploads /\ f[2] \in Forms
      BY <1>1 DEF CapturesInv, CaptureTypes
    <3> QED
      BY <2>1, <3>1 DEF Accounted, Has, Journaled, Forms, Unseen
  <2>4. ASSUME up, raises = 0, NEW u \in Uploads, ~InFlight(u)
        PROVE  /\ u \notin {i[1] : i \in intents}
               /\ {f \in files : f[1] = u} = (IF Exists(u) THEN {<<u, "audio">>} ELSE {})
    <3>1. Quiet(u)
      BY <2>1, <2>4 DEF Placed
    <3>2. \A n \in Forms : /\ <<u, n>> \notin intents
                           /\ <<u, n>> \in files <=> Exists(u) /\ n = "audio"
      BY <3>1 DEF Quiet, Only, Has, Journaled
    <3>3. \A f \in files : f = <<f[1], f[2]>> /\ f[2] \in Forms
      BY <1>1 DEF CapturesInv, CaptureTypes
    <3>4. \A i \in intents : i = <<i[1], i[2]>> /\ i[2] \in Forms
      BY <1>1 DEF CapturesInv, CaptureTypes, Forms, Unseen
    <3>5. ASSUME NEW i \in intents PROVE i[1] # u
      <4>1. PICK n \in Forms : i = <<i[1], n>>
        BY <3>4
      <4> QED
        BY ONLY <3>2, <4>1, i \in intents, n \in Forms
    <3>6. CASE Exists(u)
      <4>1. ASSUME NEW f \in files, f[1] = u PROVE f = <<u, "audio">>
        <5>1. PICK n \in Forms : f = <<u, n>>
          BY <3>3, <4>1
        <5> QED
          BY ONLY <3>2, <5>1, f \in files, n \in Forms
      <4>2. <<u, "audio">> \in files
        BY <3>2, <3>6 DEF Forms
      <4> QED
        BY <3>5, <3>6, <4>1, <4>2
    <3>7. CASE ~Exists(u)
      <4>1. ASSUME NEW f \in files PROVE f[1] # u
        <5>1. PICK n \in Forms : f = <<f[1], n>>
          BY <3>3
        <5> QED
          BY ONLY <3>2, <3>7, <5>1, f \in files, n \in Forms
      <4> QED
        BY <3>5, <3>7, <4>1
    <3> QED
      BY <3>6, <3>7
  <2> QED
    BY <2>2, <2>3, <2>4 DEF RecordingsAccounted
<1> QED
  BY <1>1, CapturesInvAlways, PTL

-----------------------------------------------------------------------------
(* A refinement that is shown is one of the transcript beside it, whatever  *)
(* number of revisions await a model at once.                               *)
THEOREM RefinementsFit == CapturesSpec => []RefinedFitsRaw
<1>1. CapturesInit => RefinedFitsRaw
  BY DEF CapturesInit, RefinedFitsRaw, NoRow
<1>2. ASSUME CapturesInv, RefinedFitsRaw, [CapturesNext]_captureVars PROVE RefinedFitsRaw'
  <2> SUFFICES ASSUME NEW w \in Uploads PROVE rows'[w].refined \in {NoText, rows'[w].raw}
    BY DEF RefinedFitsRaw
  <2>1. CASE UNCHANGED rows
    BY <1>2, <2>1 DEF RefinedFitsRaw
  <2>2. ASSUME NEW u \in Uploads, NEW t \in Texts, rows' = [rows EXCEPT ![u] = [raw |-> t, refined |-> NoText]]
        PROVE  rows'[w].refined \in {NoText, rows'[w].raw}
    <3>1. CASE w = u
      BY <1>2, <2>2, <3>1 DEF CapturesInv, CaptureTypes
    <3>2. CASE w # u
      BY <1>2, <2>2, <3>2 DEF RefinedFitsRaw, CapturesInv, CaptureTypes
    <3> QED
      BY <3>1, <3>2
  <2>3. ASSUME NEW u \in Uploads, rows' = [rows EXCEPT ![u] = NoRow]
        PROVE  rows'[w].refined \in {NoText, rows'[w].raw}
    BY <1>2, <2>3 DEF RefinedFitsRaw, CapturesInv, CaptureTypes, NoRow
  <2>4. ASSUME NEW r \in Revisions, Refine(r) PROVE rows'[w].refined \in {NoText, rows'[w].raw}
    <3> DEFINE v == revision[r]
    <3>1. v.of \in Uploads
      BY <1>2, <2>4 DEF Refine, RevisionEnds, CapturesInv, CaptureTypes
    <3>2. CASE Exists(v.of) /\ rows[v.of].raw = v.read /\ rows' = [rows EXCEPT ![v.of].refined = v.read]
      <4>1. CASE w = v.of
        <5>1. rows[w] \in Row /\ rows'[w] = [rows[w] EXCEPT !.refined = v.read]
          BY <1>2, <3>1, <3>2, <4>1 DEF CapturesInv, CaptureTypes, Exists
        <5> QED
          BY <3>2, <4>1, <5>1 DEF Row
      <4>2. CASE w # v.of
        BY <1>2, <3>2, <4>2 DEF RefinedFitsRaw, CapturesInv, CaptureTypes
      <4> QED
        BY <4>1, <4>2
    <3> QED
      BY <2>1, <2>4, <3>2 DEF Refine
  <2>5. ASSUME NEW r \in Revisions, Retranscribe(r) PROVE rows'[w].refined \in {NoText, rows'[w].raw}
    <3>1. revision[r].of \in Uploads
      BY <1>2, <2>5 DEF Retranscribe, RevisionEnds, CapturesInv, CaptureTypes
    <3> QED
      BY <2>1, <2>2, <2>5, <3>1 DEF Retranscribe
  <2>6. CASE \E u \in Uploads : Insert(u) \/ DeleteRow(u) \/ DeleteBareRow(u)
    BY <2>1, <2>2, <2>3, <2>6 DEF Insert, DeleteRow, DeleteBareRow
  <2>7. CASE \E u \in Uploads : \/ Place(u) \/ Transcode(u) \/ Transcribe(u) \/ Publish(u) \/ Finish(u)
                                \/ GiveUp(u) \/ Stage(u) \/ Settle(u)
    BY <2>1, <2>7 DEF Place, Transcode, Transcribe, Publish, Finish, GiveUp, Stage, Settle
  <2>8. CASE \/ Die \/ Start \/ \E i \in intents : Recover(i)
             \/ \E r \in Revisions, u \in Uploads, kind \in {"refine", "retranscribe"} : Ask(r, u, kind)
    BY <2>1, <2>8 DEF Die, Start, Recover, Ask
  <2>9. CASE UNCHANGED captureVars
    BY <2>1, <2>9 DEF captureVars
  <2> QED
    BY <1>2, <2>4, <2>5, <2>6, <2>7, <2>8, <2>9 DEF CapturesNext
<1> QED
  BY <1>1, <1>2, CapturesInvAlways, PTL DEF CapturesSpec

-----------------------------------------------------------------------------
(* Immutable voices.                                                       *)

VoiceSnapshotsSpec == VoiceSnapshotsInit /\ [][VoiceSnapshotsNext]_snapshotVars

MaybeVoices == Voices \cup {NoVoice}
SnapshotPhases == {"none", "freezing", "frozen", "accepted", "failed", "completed", "deleted"}
StoreEntries == [kind : {"raw", "prompt", "pending", "hidden"}, of : MaybeVoices, implementation : Nat]

SnapshotTypes ==
    /\ voice \in [Profiles -> MaybeVoices] /\ envelope \in [Envelopes -> [phase : SnapshotPhases, voice : MaybeVoices]]
    /\ snapshots \subseteq StoreEntries /\ IsFiniteSet(snapshots)
    /\ DOMAIN claimed \subseteq Envelopes \cup {"worker"} /\ claimed \in [DOMAIN claimed -> Nat \ {0}]
    /\ deriving \in Envelopes \cup {NoEnvelope} /\ implementation \in Nat
    /\ stage \in {"starting", "collecting", "serving"} /\ doomed \subseteq StoreEntries

(* The requests whose voice has to be there. *)
Waiting == {r \in Envelopes : Phase(r) \in {"frozen", "accepted", "failed"}}
VoicesAreThere == \A r \in Waiting : Raw(envelope[r].voice) \in snapshots

(* What the worker may still add fits, or is there already. *)
WorkersClaim == IF "worker" \in DOMAIN claimed THEN claimed["worker"] ELSE 0
StoreHasRoom ==
    /\ Cardinality(snapshots) + WorkersClaim <= StoreMost
    /\ \A r \in Envelopes : deriving = r =>
          /\ Phase(r) = "accepted"
          /\ "worker" \in DOMAIN claimed \/ envelope[r].voice \in Single \/ Prompt(envelope[r].voice) \in snapshots
    /\ deriving = NoEnvelope => "worker" \notin DOMAIN claimed

(* Before the loop serves nobody is being answered, and what the collection *)
(* takes is nobody's.                                                       *)
CollectionIsSafe ==
    stage # "serving" =>
       /\ deriving = NoEnvelope /\ \A r \in Envelopes : Phase(r) \notin {"freezing", "frozen"}
       /\ \A x \in doomed : x.kind = "raw" => \A r \in Waiting : envelope[r].voice # x.of

(* One request freezes at a time, and its directory is there. *)
FreezingIsAlone ==
    \A r \in Envelopes : Phase(r) = "freezing" =>
       PendingEntry(envelope[r].voice) \in snapshots /\ \A q \in Envelopes : Phase(q) = "freezing" => q = r

SnapshotInv == SnapshotTypes /\ VoicesAreThere /\ StoreHasRoom /\ CollectionIsSafe /\ FreezingIsAlone

LEMMA SnapshotConstants ==
    /\ PromptMost \in Nat /\ PromptMost >= 1 /\ StoreMost \in Nat /\ IsFiniteSet(Envelopes)
    /\ "worker" \notin Envelopes /\ NoEnvelope \notin Envelopes
<1>1. PromptMost \in Nat \ {0} /\ StoreMost \in Nat /\ IsFiniteSet(Envelopes)
  BY VoiceSnapshotsAssumption
<1>2. PromptMost \in Nat /\ PromptMost >= 1
  BY <1>1
<1>3. "worker" \notin Envelopes /\ NoEnvelope \notin Envelopes
  <2>1. {"worker", "no request"} \cap Envelopes = {}
    BY VoiceSnapshotsAssumption
  <2> QED
    BY <2>1, Zenon DEF NoEnvelope
<1> QED
  BY <1>1, <1>2, <1>3

LEMMA SnapshotInit == VoiceSnapshotsInit => SnapshotInv
<1> SUFFICES ASSUME VoiceSnapshotsInit PROVE SnapshotInv
  OBVIOUS
<1>1. SnapshotTypes
  BY FS_EmptySet DEF VoiceSnapshotsInit, SnapshotTypes, SnapshotPhases, MaybeVoices
<1>2. \A r \in Envelopes : Phase(r) = "none"
  BY DEF VoiceSnapshotsInit, Phase
<1>3. VoicesAreThere
  BY <1>2 DEF VoicesAreThere, Waiting
<1>4. StoreHasRoom
  BY FS_EmptySet, SnapshotConstants DEF VoiceSnapshotsInit, StoreHasRoom, WorkersClaim
<1>5. CollectionIsSafe
  BY DEF VoiceSnapshotsInit, CollectionIsSafe
<1>6. FreezingIsAlone
  BY <1>2 DEF FreezingIsAlone
<1> QED
  BY <1>1, <1>3, <1>4, <1>5, <1>6 DEF SnapshotInv

-----------------------------------------------------------------------------
(* Requests. *)
LEMMA EnvelopeFacts ==
    ASSUME SnapshotTypes
    PROVE  \A r \in Envelopes : Phase(r) \in SnapshotPhases /\ envelope[r].voice \in MaybeVoices
BY DEF SnapshotTypes, Phase

LEMMA EntersFacts ==
    ASSUME SnapshotTypes, NEW r \in Envelopes, NEW phase \in SnapshotPhases, Enters(r, phase)
    PROVE  /\ envelope' \in [Envelopes -> [phase : SnapshotPhases, voice : MaybeVoices]]
           /\ Phase(r)' = phase /\ \A q \in Envelopes \ {r} : Phase(q)' = Phase(q)
           /\ \A q \in Envelopes : envelope'[q].voice = envelope[q].voice
<1>1. envelope \in [Envelopes -> [phase : SnapshotPhases, voice : MaybeVoices]]
  BY DEF SnapshotTypes
<1>2. envelope' = [envelope EXCEPT ![r] = [envelope[r] EXCEPT !.phase = phase]]
  BY <1>1 DEF Enters
<1>3. [envelope[r] EXCEPT !.phase = phase] \in [phase : SnapshotPhases, voice : MaybeVoices]
  BY <1>1
<1>4. [envelope[r] EXCEPT !.phase = phase].phase = phase /\ [envelope[r] EXCEPT !.phase = phase].voice = envelope[r].voice
  BY <1>1
<1>5. envelope' \in [Envelopes -> [phase : SnapshotPhases, voice : MaybeVoices]]
  BY <1>1, <1>2, <1>3
<1>6. envelope'[r].phase = phase /\ envelope'[r].voice = envelope[r].voice
  BY <1>1, <1>2, <1>4
<1>7. \A q \in Envelopes \ {r} : envelope'[q] = envelope[q]
  BY <1>1, <1>2
<1> QED
  BY <1>5, <1>6, <1>7 DEF Phase

(* A step of one request that leaves the store alone. *)
LEMMA RequestMoves ==
    ASSUME SnapshotInv, NEW r \in Envelopes, NEW phase \in SnapshotPhases, Enters(r, phase), LoopServes, deriving # r, phase # "freezing",
           phase \in {"frozen", "accepted", "failed"} => Raw(envelope[r].voice) \in snapshots,
           UNCHANGED <<voice, snapshots, claimed, deriving, implementation, stage, doomed>>
    PROVE  SnapshotInv'
<1>1. SnapshotTypes /\ VoicesAreThere /\ StoreHasRoom
  BY DEF SnapshotInv
<1>2. /\ envelope' \in [Envelopes -> [phase : SnapshotPhases, voice : MaybeVoices]]
      /\ Phase(r)' = phase /\ \A q \in Envelopes \ {r} : Phase(q)' = Phase(q)
      /\ \A q \in Envelopes : envelope'[q].voice = envelope[q].voice
  BY <1>1, EntersFacts
<1>3. SnapshotTypes'
  BY <1>1, <1>2 DEF SnapshotTypes
<1>4. VoicesAreThere'
  BY <1>1, <1>2 DEF VoicesAreThere, Waiting, Raw
<1>5. StoreHasRoom'
  BY <1>1, <1>2 DEF StoreHasRoom, WorkersClaim, Prompt, Phase
<1>6. CollectionIsSafe'
  BY DEF CollectionIsSafe, LoopServes
<1>7. FreezingIsAlone'
  BY <1>2 DEF FreezingIsAlone, LoopServes, NobodyFreezes
<1> QED
  BY <1>3, <1>4, <1>5, <1>6, <1>7 DEF SnapshotInv

-----------------------------------------------------------------------------
(* The size of the store. *)
LEMMA StoreSizes ==
    ASSUME SnapshotTypes
    PROVE  /\ Cardinality(snapshots) \in Nat /\ WorkersClaim \in Nat /\ Bytes \in Int
           /\ Cardinality(snapshots) + WorkersClaim <= Bytes
<1>1. Cardinality(snapshots) \in Nat
  BY FS_CardinalityType DEF SnapshotTypes
<1>2. IsFiniteSet(DOMAIN claimed)
  <2>1. IsFiniteSet(Envelopes \cup {"worker"})
    BY SnapshotConstants, FS_AddElement
  <2> QED
    BY <2>1, FS_Subset DEF SnapshotTypes
<1>3. claimed \in [DOMAIN claimed -> Int] /\ \A w \in DOMAIN claimed : claimed[w] \in Nat /\ claimed[w] >= 0
  BY DEF SnapshotTypes
<1> DEFINE sum == SumFunctionOnSet(claimed, DOMAIN claimed)
<1>4. sum \in Nat /\ \A w \in DOMAIN claimed : claimed[w] <= sum
  BY <1>2, <1>3, SumOfNats
<1>5. Bytes = Cardinality(snapshots) + sum
  BY DEF Bytes
<1> HIDE DEF sum
<1>6. WorkersClaim \in Nat /\ WorkersClaim <= sum
  BY <1>3, <1>4 DEF WorkersClaim
<1> QED
  BY <1>1, <1>4, <1>5, <1>6

(* One entry more, or one less. *)
LEMMA OneEntry ==
    ASSUME SnapshotTypes, NEW x
    PROVE  /\ IsFiniteSet(snapshots \cup {x}) /\ Cardinality(snapshots \cup {x}) <= Cardinality(snapshots) + 1
           /\ Cardinality(snapshots \cup {x}) \in Nat
           /\ x \in snapshots => Cardinality(snapshots \cup {x}) = Cardinality(snapshots)
           /\ IsFiniteSet(snapshots \ {x}) /\ Cardinality(snapshots \ {x}) <= Cardinality(snapshots)
           /\ Cardinality(snapshots \ {x}) \in Nat
           /\ x \in snapshots => Cardinality(snapshots \ {x}) = Cardinality(snapshots) - 1
<1>1. IsFiniteSet(snapshots) /\ Cardinality(snapshots) \in Nat
  BY FS_CardinalityType DEF SnapshotTypes
<1>2. IsFiniteSet(snapshots \cup {x}) /\ Cardinality(snapshots \cup {x}) \in {Cardinality(snapshots), Cardinality(snapshots) + 1}
  BY <1>1, FS_AddElement
<1>3. IsFiniteSet(snapshots \ {x}) /\ Cardinality(snapshots \ {x}) <= Cardinality(snapshots)
  BY <1>1, FS_Subset
<1>4. x \in snapshots => snapshots \cup {x} = snapshots
  OBVIOUS
<1>5. Cardinality(snapshots \ {x}) \in Nat
  BY <1>3, FS_CardinalityType
<1>6. x \in snapshots => Cardinality(snapshots \ {x}) = Cardinality(snapshots) - 1
  BY <1>1, FS_RemoveElement
<1>7. Cardinality(snapshots \cup {x}) <= Cardinality(snapshots) + 1 /\ Cardinality(snapshots \cup {x}) \in Nat
  <2>1. PICK n \in Nat : n = Cardinality(snapshots)
    BY <1>1
  <2>2. Cardinality(snapshots \cup {x}) \in {n, n + 1}
    BY <1>2, <2>1
  <2>3. n \in Nat /\ n <= n + 1
    BY <2>1
  <2> QED
    BY <2>1, <2>2, <2>3
<1> QED
  BY <1>2, <1>3, <1>4, <1>5, <1>6, <1>7, Zenon

(* Claims of others than the worker do not count here. *)
LEMMA ClaimFacts ==
    ASSUME SnapshotTypes, NEW w \in Envelopes \cup {"worker"}, NEW n \in Nat \ {0}
    PROVE  /\ DOMAIN Claim(w, n) \subseteq Envelopes \cup {"worker"}
           /\ Claim(w, n) \in [DOMAIN Claim(w, n) -> Nat \ {0}]
           /\ DOMAIN Claim(w, n) = DOMAIN claimed \cup {w} /\ Claim(w, n)[w] = n
           /\ \A x \in DOMAIN claimed \ {w} : Claim(w, n)[x] = claimed[x]
           /\ DOMAIN Unclaim(w) \subseteq Envelopes \cup {"worker"}
           /\ Unclaim(w) \in [DOMAIN Unclaim(w) -> Nat \ {0}]
           /\ DOMAIN Unclaim(w) = DOMAIN claimed \ {w}
           /\ \A x \in DOMAIN claimed \ {w} : Unclaim(w)[x] = claimed[x]
BY DEF SnapshotTypes, Claim, Unclaim

LEMMA FreezeStep == ASSUME SnapshotInv, NEW r \in Envelopes, NEW p \in Profiles, Freeze(r, p) PROVE SnapshotInv'
<1>1. SnapshotTypes /\ VoicesAreThere /\ StoreHasRoom
  BY DEF SnapshotInv
<1>2. PICK v \in Voices : v = voice[p]
  BY <1>1 DEF Freeze, SnapshotTypes, MaybeVoices
<1>3. /\ stage = "serving" /\ Phase(r) = "none"
      /\ UNCHANGED <<voice, deriving, implementation, stage, doomed, edits>>
  BY DEF Freeze, LoopServes
<1>4. PICK phase \in {"frozen", "freezing"} :
         /\ envelope' = [envelope EXCEPT ![r] = [phase |-> phase, voice |-> v]]
         /\ \/ phase = "frozen" /\ Verified(v) /\ UNCHANGED <<snapshots, claimed>>
            \/ /\ phase = "freezing" /\ StoreFits(1)
               /\ snapshots' = snapshots \cup {PendingEntry(v)} /\ claimed' = Claim(r, 1)
  BY <1>2 DEF Freeze
<1>5. /\ envelope' \in [Envelopes -> [phase : SnapshotPhases, voice : MaybeVoices]]
      /\ envelope'[r].phase = phase /\ envelope'[r].voice = v
      /\ \A q \in Envelopes \ {r} : envelope'[q] = envelope[q]
  BY <1>1, <1>4 DEF SnapshotTypes, SnapshotPhases, MaybeVoices
<1>6. SnapshotTypes'
  <2>1. CASE phase = "frozen"
    BY <1>1, <1>3, <1>4, <1>5, <2>1 DEF SnapshotTypes
  <2>2. CASE phase = "freezing"
    <3>1. PendingEntry(v) \in StoreEntries
      BY DEF PendingEntry, StoreEntries, MaybeVoices
    <3>2. snapshots' \subseteq StoreEntries /\ IsFiniteSet(snapshots')
      BY <1>1, <1>4, <2>2, <3>1, OneEntry DEF SnapshotTypes
    <3>3. DOMAIN claimed' \subseteq Envelopes \cup {"worker"} /\ claimed' \in [DOMAIN claimed' -> Nat \ {0}]
      <4>1. PICK n \in Nat \ {0} : n = 1
        OBVIOUS
      <4>2. DOMAIN Claim(r, n) \subseteq Envelopes \cup {"worker"} /\ Claim(r, n) \in [DOMAIN Claim(r, n) -> Nat \ {0}]
        BY <1>1, ClaimFacts
      <4>3. claimed' = Claim(r, n)
        BY <1>4, <2>2, <4>1
      <4> QED
        BY <4>2, <4>3
    <3> QED
      BY <1>1, <1>3, <1>5, <3>2, <3>3 DEF SnapshotTypes
  <2> QED
    BY <2>1, <2>2
<1>7. snapshots \subseteq snapshots'
  BY <1>4
<1>8. VoicesAreThere'
  <2> SUFFICES ASSUME NEW q \in Envelopes, Phase(q)' \in {"frozen", "accepted", "failed"}
               PROVE  Raw(envelope'[q].voice) \in snapshots'
    BY DEF VoicesAreThere, Waiting, Raw
  <2>1. CASE q = r
    <3>1. phase = "frozen"
      BY <1>5, <2>1 DEF Phase
    <3>2. Raw(v) \in snapshots
      BY <1>4, <3>1 DEF Verified
    <3> QED
      BY <1>5, <1>7, <2>1, <3>2
  <2>2. CASE q # r
    BY <1>1, <1>5, <1>7, <2>2 DEF VoicesAreThere, Waiting, Phase
  <2> QED
    BY <2>1, <2>2
<1>9. WorkersClaim' = WorkersClaim /\ ("worker" \in DOMAIN claimed' <=> "worker" \in DOMAIN claimed)
  <2>1. r # "worker"
    BY SnapshotConstants
  <2>2. CASE phase = "frozen"
    BY <1>4, <2>2 DEF WorkersClaim
  <2>3. CASE phase = "freezing"
    <3>1. PICK n \in Nat \ {0} : n = 1
      OBVIOUS
    <3>2. claimed' = Claim(r, n)
      BY <1>4, <2>3, <3>1
    <3>3. DOMAIN Claim(r, n) = DOMAIN claimed \cup {r} /\ \A x \in DOMAIN claimed \ {r} : Claim(r, n)[x] = claimed[x]
      BY DEF Claim
    <3> QED
      BY <2>1, <3>2, <3>3 DEF WorkersClaim
  <2> QED
    BY <2>2, <2>3
<1>10. Cardinality(snapshots') + WorkersClaim <= StoreMost
  <2>1. CASE phase = "frozen"
    BY <1>1, <1>4, <2>1 DEF StoreHasRoom
  <2>2. CASE phase = "freezing"
    <3>1. Bytes + 1 <= StoreMost
      BY <1>4, <2>2 DEF StoreFits
    <3>2. Cardinality(snapshots') <= Cardinality(snapshots) + 1 /\ Cardinality(snapshots') \in Nat
      BY <1>1, <1>4, <2>2, OneEntry
    <3> QED
      BY <1>1, <3>1, <3>2, StoreSizes, SnapshotConstants
  <2> QED
    BY <2>1, <2>2
<1>11. StoreHasRoom'
  <2>1. ASSUME NEW q \in Envelopes, deriving = q
        PROVE  Phase(q)' = "accepted" /\ ("worker" \in DOMAIN claimed' \/ envelope'[q].voice \in Single \/ Prompt(envelope'[q].voice) \in snapshots')
    <3>1. Phase(q) = "accepted" /\ ("worker" \in DOMAIN claimed \/ envelope[q].voice \in Single \/ Prompt(envelope[q].voice) \in snapshots)
      BY <1>1, <2>1 DEF StoreHasRoom
    <3>2. q # r
      BY <1>3, <3>1
    <3> QED
      BY <1>5, <1>7, <1>9, <3>1, <3>2 DEF Phase
  <2> QED
    BY <1>1, <1>3, <1>9, <1>10, <2>1 DEF StoreHasRoom, Prompt
<1>12. CollectionIsSafe'
  BY <1>3 DEF CollectionIsSafe
<1>13. FreezingIsAlone'
  <2>1. \A q \in Envelopes : Phase(q)' = "freezing" => q = r /\ phase = "freezing"
    BY <1>5 DEF Freeze, LoopServes, NobodyFreezes, Phase
  <2>2. phase = "freezing" => PendingEntry(v) \in snapshots'
    BY <1>4
  <2> QED
    BY <1>5, <2>1, <2>2 DEF FreezingIsAlone, PendingEntry
<1> QED
  BY <1>6, <1>8, <1>11, <1>12, <1>13 DEF SnapshotInv

(* The pending directory becomes the entry, or goes. *)
LEMMA FrozenStep == ASSUME SnapshotInv, NEW r \in Envelopes, Frozen(r) PROVE SnapshotInv'
<1>1. SnapshotTypes /\ VoicesAreThere /\ StoreHasRoom /\ CollectionIsSafe /\ FreezingIsAlone
  BY DEF SnapshotInv
<1>2. PICK v \in MaybeVoices : v = envelope[r].voice
  BY <1>1, EnvelopeFacts
<1>3. /\ Phase(r) = "freezing" /\ claimed' = Unclaim(r)
      /\ UNCHANGED <<voice, deriving, implementation, stage, doomed, edits>>
  BY DEF Frozen
<1>4. stage = "serving"
  BY <1>1, <1>3 DEF CollectionIsSafe
<1>5. PICK phase \in {"frozen", "deleted"} :
         /\ Enters(r, phase)
         /\ \/ phase = "frozen" /\ snapshots' = (snapshots \ {PendingEntry(v)}) \cup {Raw(v)}
            \/ phase = "deleted" /\ snapshots' = snapshots \ {PendingEntry(v)}
  BY <1>2 DEF Frozen
<1>6. /\ envelope' \in [Envelopes -> [phase : SnapshotPhases, voice : MaybeVoices]]
      /\ Phase(r)' = phase /\ \A q \in Envelopes \ {r} : Phase(q)' = Phase(q)
      /\ \A q \in Envelopes : envelope'[q].voice = envelope[q].voice
  BY <1>1, <1>5, EntersFacts DEF SnapshotPhases
<1>7. PICK p : p = PendingEntry(v)
  OBVIOUS
<1>8. /\ Raw(v) \in StoreEntries /\ \A u : Raw(u) # p /\ Prompt(u) # p
  BY <1>7 DEF PendingEntry, Raw, Prompt, StoreEntries
<1>9. p \in snapshots /\ \A q \in Envelopes : Phase(q) = "freezing" => q = r
  BY <1>1, <1>2, <1>3, <1>7 DEF FreezingIsAlone
<1>10. PICK T : T = snapshots \ {p}
  OBVIOUS
<1>11. snapshots' = T \cup {Raw(v)} \/ snapshots' = T
  BY <1>5, <1>7, <1>10
<1>12. IsFiniteSet(T) /\ Cardinality(T) = Cardinality(snapshots) - 1 /\ Cardinality(T) \in Nat /\ T \subseteq StoreEntries
  BY <1>1, <1>9, <1>10, OneEntry DEF SnapshotTypes
<1>13. IsFiniteSet(snapshots') /\ Cardinality(snapshots') \in {Cardinality(T), Cardinality(T) + 1} /\ snapshots' \subseteq StoreEntries
  <2>1. IsFiniteSet(T \cup {Raw(v)}) /\ Cardinality(T \cup {Raw(v)}) \in {Cardinality(T), Cardinality(T) + 1}
    BY <1>12, FS_AddElement
  <2> QED
    BY <1>8, <1>11, <1>12, <2>1
<1>14. /\ DOMAIN claimed' \subseteq Envelopes \cup {"worker"} /\ claimed' \in [DOMAIN claimed' -> Nat \ {0}]
       /\ WorkersClaim' = WorkersClaim /\ ("worker" \in DOMAIN claimed' <=> "worker" \in DOMAIN claimed)
  <2>1. r # "worker"
    BY SnapshotConstants
  <2>2. PICK n \in Nat \ {0} : n = 1
    OBVIOUS
  <2>3. /\ DOMAIN Unclaim(r) \subseteq Envelopes \cup {"worker"} /\ Unclaim(r) \in [DOMAIN Unclaim(r) -> Nat \ {0}]
        /\ DOMAIN Unclaim(r) = DOMAIN claimed \ {r} /\ \A x \in DOMAIN claimed \ {r} : Unclaim(r)[x] = claimed[x]
    BY <1>1, ClaimFacts
  <2> QED
    BY <1>3, <2>1, <2>3 DEF WorkersClaim
<1>15. SnapshotTypes'
  BY <1>1, <1>3, <1>6, <1>13, <1>14 DEF SnapshotTypes
<1>16. \A u : Raw(u) \in snapshots => Raw(u) \in snapshots'
  BY <1>8, <1>10, <1>11
<1>17. VoicesAreThere'
  <2> SUFFICES ASSUME NEW q \in Envelopes, Phase(q)' \in {"frozen", "accepted", "failed"}
               PROVE  Raw(envelope'[q].voice) \in snapshots'
    BY DEF VoicesAreThere, Waiting, Raw
  <2>1. CASE q = r
    <3>1. snapshots' = (snapshots \ {PendingEntry(v)}) \cup {Raw(v)}
      BY <1>5, <1>6, <2>1
    <3> QED
      BY <1>2, <1>6, <2>1, <3>1
  <2>2. CASE q # r
    BY <1>1, <1>6, <1>16, <2>2 DEF VoicesAreThere, Waiting
  <2> QED
    BY <2>1, <2>2
<1>18. Cardinality(snapshots') + WorkersClaim <= StoreMost
  <2>1. Cardinality(snapshots) + WorkersClaim <= StoreMost /\ Cardinality(snapshots) \in Nat /\ WorkersClaim \in Nat /\ StoreMost \in Nat
    BY <1>1, StoreSizes, SnapshotConstants DEF StoreHasRoom
  <2> QED
    BY <1>12, <1>13, <2>1
<1>19. StoreHasRoom'
  <2>1. ASSUME NEW q \in Envelopes, deriving = q
        PROVE  Phase(q)' = "accepted" /\ ("worker" \in DOMAIN claimed' \/ envelope'[q].voice \in Single \/ Prompt(envelope'[q].voice) \in snapshots')
    <3>1. Phase(q) = "accepted" /\ ("worker" \in DOMAIN claimed \/ envelope[q].voice \in Single \/ Prompt(envelope[q].voice) \in snapshots)
      BY <1>1, <2>1 DEF StoreHasRoom
    <3>2. \A u : Prompt(u) \in snapshots => Prompt(u) \in snapshots'
      BY <1>8, <1>10, <1>11
    <3> QED
      BY <1>3, <1>6, <1>14, <3>1, <3>2
  <2> QED
    BY <1>1, <1>3, <1>14, <1>18, <2>1 DEF StoreHasRoom, Prompt
<1>20. CollectionIsSafe'
  BY <1>3, <1>4 DEF CollectionIsSafe
<1>21. FreezingIsAlone'
  BY <1>3, <1>6, <1>9 DEF FreezingIsAlone
<1> QED
  BY <1>15, <1>17, <1>19, <1>20, <1>21 DEF SnapshotInv

LEMMA EditStep == ASSUME SnapshotInv, NEW p \in Profiles, Edit(p) PROVE SnapshotInv'
<1>1. /\ stage = "serving" /\ voice \in [Profiles -> MaybeVoices]
      /\ UNCHANGED <<envelope, snapshots, claimed, deriving, implementation, stage, doomed>>
  BY DEF Edit, LoopServes, SnapshotInv, SnapshotTypes
<1>2. voice' \in [Profiles -> MaybeVoices]
  BY <1>1 DEF Edit, MaybeVoices
<1>3. SnapshotTypes' /\ VoicesAreThere' /\ CollectionIsSafe' /\ FreezingIsAlone'
  BY <1>1, <1>2 DEF SnapshotInv, SnapshotTypes, VoicesAreThere, Waiting, CollectionIsSafe, FreezingIsAlone, Phase, Raw, PendingEntry
<1>4. StoreHasRoom'
  BY <1>1 DEF SnapshotInv, StoreHasRoom, WorkersClaim, Phase, Prompt
<1> QED
  BY <1>3, <1>4 DEF SnapshotInv

LEMMA RowStep ==
    ASSUME SnapshotInv, NEW r \in Envelopes, Accept(r) \/ DeleteRequest(r)
    PROVE  SnapshotInv'
<1>1. VoicesAreThere /\ StoreHasRoom /\ SnapshotTypes
  BY DEF SnapshotInv
<1>2. LoopServes /\ UNCHANGED <<voice, snapshots, claimed, deriving, implementation, stage, doomed>>
  BY DEF Accept, DeleteRequest
<1>3. deriving # r
  BY <1>1 DEF StoreHasRoom, Accept, DeleteRequest
<1>4. PICK phase \in {"accepted", "deleted"} : Enters(r, phase) /\ (phase = "accepted" => r \in Waiting)
  BY DEF Accept, DeleteRequest, Waiting
<1>5. phase \in SnapshotPhases /\ phase # "freezing" /\ (phase \in {"frozen", "accepted", "failed"} => Raw(envelope[r].voice) \in snapshots)
  BY <1>1, <1>4 DEF VoicesAreThere, SnapshotPhases
<1> QED
  BY <1>2, <1>3, <1>4, <1>5, RequestMoves

-----------------------------------------------------------------------------
(* The worker. *)
LEMMA DeriveStep == ASSUME SnapshotInv, NEW r \in Envelopes, Derive(r) PROVE SnapshotInv'
<1>1. SnapshotTypes /\ VoicesAreThere /\ StoreHasRoom /\ CollectionIsSafe /\ FreezingIsAlone
  BY DEF SnapshotInv
<1>2. /\ LoopServes /\ Phase(r) = "accepted" /\ deriving = NoEnvelope /\ deriving # r
      /\ UNCHANGED <<voice, snapshots, implementation, stage, doomed, edits>>
  BY SnapshotConstants DEF Derive
<1>3. CASE Enters(r, "failed") /\ UNCHANGED <<claimed, deriving>>
  <2>1. r \in Waiting
    BY <1>2 DEF Waiting
  <2>2. Raw(envelope[r].voice) \in snapshots
    BY <1>1, <2>1 DEF VoicesAreThere
  <2>3. PICK phase \in SnapshotPhases : phase = "failed"
    BY DEF SnapshotPhases
  <2>4. Enters(r, phase)
    BY <1>3, <2>3
  <2> QED
    BY <1>2, <1>3, <2>2, <2>3, <2>4, RequestMoves
<1>4. ASSUME deriving' = r, UNCHANGED envelope,
             \/ (envelope[r].voice \in Single \/ Prompt(envelope[r].voice) \in snapshots) /\ UNCHANGED claimed
             \/ StoreFits(PromptMost) /\ claimed' = Claim("worker", PromptMost)
      PROVE  SnapshotInv'
  <2>1. "worker" \notin DOMAIN claimed /\ WorkersClaim = 0
    BY <1>1, <1>2 DEF StoreHasRoom, WorkersClaim
  <2>2. /\ DOMAIN claimed' \subseteq Envelopes \cup {"worker"} /\ claimed' \in [DOMAIN claimed' -> Nat \ {0}]
        /\ "worker" \in DOMAIN claimed' \/ envelope[r].voice \in Single \/ Prompt(envelope[r].voice) \in snapshots
        /\ Cardinality(snapshots) + WorkersClaim' <= StoreMost
    <3>1. CASE (envelope[r].voice \in Single \/ Prompt(envelope[r].voice) \in snapshots) /\ UNCHANGED claimed
      BY <1>1, <3>1 DEF SnapshotTypes, StoreHasRoom, WorkersClaim
    <3>2. CASE StoreFits(PromptMost) /\ claimed' = Claim("worker", PromptMost)
      <4>1. PICK n \in Nat \ {0} : n = PromptMost
        BY SnapshotConstants
      <4>2. /\ DOMAIN Claim("worker", n) \subseteq Envelopes \cup {"worker"}
            /\ Claim("worker", n) \in [DOMAIN Claim("worker", n) -> Nat \ {0}]
            /\ "worker" \in DOMAIN Claim("worker", n) /\ Claim("worker", n)["worker"] = n
        <5>1. PICK w \in Envelopes \cup {"worker"} : w = "worker"
          OBVIOUS
        <5>2. /\ DOMAIN Claim(w, n) \subseteq Envelopes \cup {"worker"}
              /\ Claim(w, n) \in [DOMAIN Claim(w, n) -> Nat \ {0}]
              /\ DOMAIN Claim(w, n) = DOMAIN claimed \cup {w} /\ Claim(w, n)[w] = n
          BY <1>1, <5>1, ClaimFacts
        <5> QED
          BY <5>1, <5>2
      <4>3. WorkersClaim' = n
        BY <3>2, <4>1, <4>2 DEF WorkersClaim
      <4>4. Bytes + n <= StoreMost
        BY <3>2, <4>1 DEF StoreFits
      <4>5. Cardinality(snapshots) \in Nat /\ Bytes \in Int /\ Cardinality(snapshots) <= Bytes
        BY <1>1, <2>1, StoreSizes
      <4>6. Cardinality(snapshots) + n <= StoreMost
        BY <4>4, <4>5, SnapshotConstants
      <4> QED
        BY <3>2, <4>1, <4>2, <4>3, <4>6
    <3> QED
      BY <1>4, <3>1, <3>2
  <2>3. SnapshotTypes'
    BY <1>1, <1>2, <1>4, <2>2 DEF SnapshotTypes
  <2>4. StoreHasRoom'
    BY <1>2, <1>4, <2>2, SnapshotConstants DEF StoreHasRoom, Phase, Prompt
  <2>5. VoicesAreThere' /\ FreezingIsAlone' /\ CollectionIsSafe'
    BY <1>1, <1>2, <1>4 DEF VoicesAreThere, Waiting, FreezingIsAlone, CollectionIsSafe, Phase, Raw, PendingEntry, LoopServes
  <2> QED
    BY <2>3, <2>4, <2>5 DEF SnapshotInv
<1> QED
  BY <1>3, <1>4 DEF Derive

LEMMA DeriveEndsStep == ASSUME SnapshotInv, NEW r \in Envelopes, DeriveEnds(r) PROVE SnapshotInv'
<1>1. SnapshotTypes /\ VoicesAreThere /\ StoreHasRoom /\ CollectionIsSafe /\ FreezingIsAlone
  BY DEF SnapshotInv
<1>2. PICK v \in MaybeVoices : v = envelope[r].voice
  BY <1>1, EnvelopeFacts
<1>3. /\ LoopServes /\ deriving = r /\ deriving' = NoEnvelope /\ claimed' = Unclaim("worker")
      /\ UNCHANGED <<voice, implementation, stage, doomed, edits>>
  BY DEF DeriveEnds
<1>4. PICK phase \in {"completed", "failed"} : Enters(r, phase) /\ ((v \notin Single /\ snapshots' = snapshots \cup {Prompt(v)}) \/ snapshots' = snapshots)
  BY <1>2 DEF DeriveEnds
<1>5. /\ envelope' \in [Envelopes -> [phase : SnapshotPhases, voice : MaybeVoices]]
      /\ Phase(r)' = phase /\ \A q \in Envelopes \ {r} : Phase(q)' = Phase(q)
      /\ \A q \in Envelopes : envelope'[q].voice = envelope[q].voice
  BY <1>1, <1>4, EntersFacts DEF SnapshotPhases
<1>6. Phase(r) = "accepted" /\ ("worker" \in DOMAIN claimed \/ v \in Single \/ Prompt(v) \in snapshots)
  BY <1>1, <1>2, <1>3 DEF StoreHasRoom
<1>7. Prompt(v) \in StoreEntries
  BY <1>1 DEF Prompt, StoreEntries, SnapshotTypes
<1>8. snapshots' \subseteq StoreEntries /\ IsFiniteSet(snapshots') /\ snapshots \subseteq snapshots'
  BY <1>1, <1>4, <1>7, OneEntry DEF SnapshotTypes
<1>9. /\ DOMAIN claimed' \subseteq Envelopes \cup {"worker"} /\ claimed' \in [DOMAIN claimed' -> Nat \ {0}]
      /\ "worker" \notin DOMAIN claimed' /\ WorkersClaim' = 0
  <2>1. PICK n \in Nat \ {0} : n = 1
    OBVIOUS
  <2>2. /\ DOMAIN Unclaim("worker") \subseteq Envelopes \cup {"worker"}
        /\ Unclaim("worker") \in [DOMAIN Unclaim("worker") -> Nat \ {0}]
        /\ DOMAIN Unclaim("worker") = DOMAIN claimed \ {"worker"}
    BY <1>1, ClaimFacts
  <2> QED
    BY <1>3, <2>2 DEF WorkersClaim
<1>10. SnapshotTypes'
  BY <1>1, <1>3, <1>5, <1>8, <1>9 DEF SnapshotTypes
<1>11. VoicesAreThere'
  <2> SUFFICES ASSUME NEW q \in Envelopes, Phase(q)' \in {"frozen", "accepted", "failed"}
               PROVE  Raw(envelope'[q].voice) \in snapshots'
    BY DEF VoicesAreThere, Waiting, Raw
  <2>1. q \in Waiting
    BY <1>5, <1>6 DEF Waiting
  <2> QED
    BY <1>1, <1>5, <1>8, <2>1 DEF VoicesAreThere
<1>12. Cardinality(snapshots') <= StoreMost /\ Cardinality(snapshots') \in Nat
  <2>1. Cardinality(snapshots) + WorkersClaim <= StoreMost /\ Cardinality(snapshots) \in Nat /\ WorkersClaim \in Nat /\ StoreMost \in Nat
    BY <1>1, StoreSizes, SnapshotConstants DEF StoreHasRoom
  <2>2. CASE snapshots' = snapshots
    BY <2>1, <2>2
  <2>3. CASE snapshots' = snapshots \cup {Prompt(v)} /\ "worker" \in DOMAIN claimed
    <3>1. WorkersClaim >= 1
      BY <1>1, <2>3 DEF WorkersClaim, SnapshotTypes
    <3>2. Cardinality(snapshots') <= Cardinality(snapshots) + 1 /\ Cardinality(snapshots') \in Nat
      BY <1>1, <2>3, OneEntry
    <3> QED
      BY <2>1, <3>1, <3>2
  <2>4. CASE snapshots' = snapshots \cup {Prompt(v)} /\ Prompt(v) \in snapshots
    <3>1. snapshots' = snapshots
      BY <2>4
    <3> QED
      BY <2>1, <3>1
  <2> QED
    BY <1>4, <1>6, <2>2, <2>3, <2>4
<1>13. StoreHasRoom'
  BY <1>3, <1>9, <1>12, SnapshotConstants DEF StoreHasRoom
<1>14. CollectionIsSafe' /\ FreezingIsAlone'
  BY <1>3, <1>4, <1>5 DEF CollectionIsSafe, FreezingIsAlone, LoopServes, NobodyFreezes
<1> QED
  BY <1>10, <1>11, <1>13, <1>14 DEF SnapshotInv

-----------------------------------------------------------------------------
(* Starts and the collection. *)
LEMMA RestartStep == ASSUME SnapshotInv, Restart PROVE SnapshotInv'
<1>1. SnapshotTypes /\ VoicesAreThere /\ StoreHasRoom /\ CollectionIsSafe
  BY DEF SnapshotInv
<1>2. /\ claimed' = [w \in {} |-> 0] /\ deriving' = NoEnvelope /\ stage' = "starting" /\ doomed' = {}
      /\ voice' = voice /\ implementation' = implementation + 1
  BY DEF Restart
<1>3. /\ envelope' \in [Envelopes -> [phase : SnapshotPhases, voice : MaybeVoices]]
      /\ \A r \in Envelopes : /\ envelope'[r].voice = envelope[r].voice /\ Phase(r)' \notin {"freezing", "frozen", "accepted"}
                              /\ Phase(r)' = "failed" => Phase(r) \in {"accepted", "failed"}
  <2>1. ASSUME NEW r \in Envelopes
        PROVE  /\ envelope'[r] \in [phase : SnapshotPhases, voice : MaybeVoices]
               /\ envelope'[r].voice = envelope[r].voice /\ Phase(r)' \notin {"freezing", "frozen", "accepted"}
               /\ Phase(r)' = "failed" => Phase(r) \in {"accepted", "failed"}
    <3>1. envelope[r] \in [phase : SnapshotPhases, voice : MaybeVoices]
      BY <1>1 DEF SnapshotTypes
    <3>2. CASE Phase(r) = "accepted"
      <4>1. envelope'[r] = [envelope[r] EXCEPT !.phase = "failed"]
        BY <3>2 DEF Restart
      <4> QED
        BY <3>1, <3>2, <4>1 DEF Phase, SnapshotPhases
    <3>3. CASE Phase(r) \in {"freezing", "frozen"}
      <4>1. envelope'[r] = [envelope[r] EXCEPT !.phase = "deleted"]
        BY <3>3 DEF Restart
      <4> QED
        BY <3>1, <3>3, <4>1 DEF Phase, SnapshotPhases
    <3>4. CASE Phase(r) \notin {"accepted", "freezing", "frozen"}
      <4>1. envelope'[r] = envelope[r]
        BY <3>4 DEF Restart
      <4> QED
        BY <3>1, <3>4, <4>1 DEF Phase
    <3> QED
      BY <3>2, <3>3, <3>4
  <2>2. DOMAIN envelope' = Envelopes /\ envelope' = [r \in Envelopes |-> envelope'[r]]
    BY DEF Restart
  <2> QED
    BY <2>1, <2>2
<1>4. /\ snapshots' \subseteq StoreEntries /\ IsFiniteSet(snapshots') /\ Cardinality(snapshots') \in Nat
      /\ Cardinality(snapshots') <= Cardinality(snapshots) /\ \A v : Raw(v) \in snapshots => Raw(v) \in snapshots'
  <2>1. IsFiniteSet(snapshots) /\ Cardinality(snapshots) \in Nat /\ snapshots \subseteq StoreEntries /\ implementation + 1 \in Nat
    BY <1>1, FS_CardinalityType DEF SnapshotTypes
  <2>2. PICK f : f = [x \in snapshots |-> IF x.kind = "prompt" /\ x.implementation = implementation
                                          THEN [x EXCEPT !.implementation = implementation + 1] ELSE x]
    OBVIOUS
  <2>3. CASE snapshots' = snapshots
    BY <2>1, <2>3
  <2>4. CASE snapshots' = {f[x] : x \in snapshots}
    <3>1. IsFiniteSet({f[x] : x \in snapshots}) /\ Cardinality({f[x] : x \in snapshots}) <= Cardinality(snapshots)
      BY <2>1, FiniteImage
    <3>2. \A x \in snapshots : f[x] \in StoreEntries
      BY <2>1, <2>2 DEF StoreEntries
    <3>3. ASSUME NEW v, Raw(v) \in snapshots PROVE Raw(v) \in snapshots'
      <4>1. Raw(v).kind # "prompt"
        BY DEF Raw
      <4>2. f[Raw(v)] = Raw(v)
        BY <2>2, <3>3, <4>1
      <4> QED
        BY <2>4, <3>3, <4>2
    <3> QED
      BY <2>4, <3>1, <3>2, <3>3, FS_CardinalityType
  <2>5. \/ snapshots' = snapshots
        \/ snapshots' = {IF x.kind = "prompt" /\ x.implementation = implementation
                         THEN [x EXCEPT !.implementation = implementation + 1] ELSE x : x \in snapshots}
    BY DEF Restart
  <2>6. {IF x.kind = "prompt" /\ x.implementation = implementation
         THEN [x EXCEPT !.implementation = implementation + 1] ELSE x : x \in snapshots} = {f[x] : x \in snapshots}
    BY <2>2
  <2> QED
    BY <2>3, <2>4, <2>5, <2>6
<1>5. SnapshotTypes'
  BY <1>1, <1>2, <1>3, <1>4 DEF SnapshotTypes
<1>6. VoicesAreThere'
  <2> SUFFICES ASSUME NEW q \in Envelopes, Phase(q)' \in {"frozen", "accepted", "failed"}
               PROVE  Raw(envelope'[q].voice) \in snapshots'
    BY DEF VoicesAreThere, Waiting, Raw
  <2>1. q \in Waiting
    BY <1>3 DEF Waiting
  <2> QED
    BY <1>1, <1>3, <1>4, <2>1 DEF VoicesAreThere
<1>7. Cardinality(snapshots') <= StoreMost
  <2>1. Cardinality(snapshots) + WorkersClaim <= StoreMost /\ Cardinality(snapshots) \in Nat /\ WorkersClaim \in Nat /\ StoreMost \in Nat
    BY <1>1, StoreSizes, SnapshotConstants DEF StoreHasRoom
  <2> QED
    BY <1>4, <2>1
<1>8. StoreHasRoom'
  BY <1>2, <1>4, <1>7, SnapshotConstants DEF StoreHasRoom, WorkersClaim
<1>9. CollectionIsSafe' /\ FreezingIsAlone'
  BY <1>2, <1>3 DEF CollectionIsSafe, FreezingIsAlone
<1> QED
  BY <1>5, <1>6, <1>8, <1>9 DEF SnapshotInv

(* A step of the collection that leaves every awaited voice. *)
LEMMA CollectionMoves ==
    ASSUME SnapshotInv, stage # "serving", snapshots' \subseteq StoreEntries, IsFiniteSet(snapshots'),
           Cardinality(snapshots') <= Cardinality(snapshots), \A r \in Waiting : Raw(envelope[r].voice) \in snapshots',
           stage' \in {"collecting", "serving"}, doomed' \subseteq StoreEntries,
           stage' = "collecting" => \A x \in doomed' : x.kind = "raw" => \A r \in Waiting : envelope[r].voice # x.of,
           UNCHANGED <<voice, envelope, claimed, deriving, implementation>>
    PROVE  SnapshotInv'
<1>1. SnapshotTypes /\ VoicesAreThere /\ StoreHasRoom /\ CollectionIsSafe
  BY DEF SnapshotInv
<1>2. deriving = NoEnvelope /\ \A r \in Envelopes : Phase(r) \notin {"freezing", "frozen"}
  BY <1>1 DEF CollectionIsSafe
<1>3. \A r \in Envelopes : Phase(r)' = Phase(r)
  BY DEF Phase
<1>4. SnapshotTypes'
  BY <1>1 DEF SnapshotTypes
<1>5. Cardinality(snapshots') + WorkersClaim <= StoreMost
  <2>1. Cardinality(snapshots) + WorkersClaim <= StoreMost /\ Cardinality(snapshots) \in Nat /\ WorkersClaim \in Nat /\ StoreMost \in Nat
    BY <1>1, StoreSizes, SnapshotConstants DEF StoreHasRoom
  <2>2. Cardinality(snapshots') \in Nat
    BY FS_CardinalityType
  <2> QED
    BY <2>1, <2>2
<1>6. StoreHasRoom'
  BY <1>1, <1>2, <1>5, SnapshotConstants DEF StoreHasRoom, WorkersClaim
<1>7. VoicesAreThere' /\ CollectionIsSafe' /\ FreezingIsAlone'
  BY <1>1, <1>2, <1>3 DEF VoicesAreThere, Waiting, CollectionIsSafe, FreezingIsAlone, Raw
<1> QED
  BY <1>4, <1>6, <1>7 DEF SnapshotInv

LEMMA CollectStep == ASSUME SnapshotInv, Collect PROVE SnapshotInv'
<1>1. SnapshotTypes /\ VoicesAreThere /\ CollectionIsSafe
  BY DEF SnapshotInv
<1>2. PICK left : left = {x \in snapshots : x.kind \in {"raw", "prompt"}}
  OBVIOUS
<1>3. /\ stage = "starting" /\ snapshots' = left
      /\ \/ stage' = "collecting" /\ doomed' = {x \in left : ~Kept(x)}
         \/ stage' = "serving" /\ UNCHANGED doomed
      /\ UNCHANGED <<voice, envelope, claimed, deriving, implementation>>
  BY <1>2 DEF Collect
<1>4. left \subseteq snapshots /\ IsFiniteSet(left) /\ Cardinality(left) <= Cardinality(snapshots) /\ left \subseteq StoreEntries
  BY <1>1, <1>2, FS_Subset DEF SnapshotTypes
<1>5. \A r \in Waiting : Raw(envelope[r].voice) \in left /\ envelope[r].voice \in Owners
  <2> SUFFICES ASSUME NEW r \in Waiting PROVE Raw(envelope[r].voice) \in left /\ envelope[r].voice \in Owners
    OBVIOUS
  <2>1. Raw(envelope[r].voice) \in snapshots /\ Raw(envelope[r].voice).kind = "raw"
    BY <1>1 DEF VoicesAreThere, Raw
  <2>2. r \in Envelopes /\ Phase(r) \in {"accepted", "failed"}
    BY <1>1, <1>3 DEF CollectionIsSafe, Waiting
  <2> QED
    BY <1>2, <2>1, <2>2 DEF Owners
<1>6. stage' = "collecting" => \A x \in doomed' : x.kind = "raw" => \A r \in Waiting : envelope[r].voice # x.of
  <2> SUFFICES ASSUME stage' = "collecting", NEW x \in doomed', x.kind = "raw", NEW r \in Waiting
               PROVE  envelope[r].voice # x.of
    OBVIOUS
  <2>1. ~Kept(x)
    BY <1>3
  <2> QED
    BY <1>5, <2>1 DEF Kept
<1>7. doomed' \subseteq StoreEntries
  BY <1>1, <1>3, <1>4 DEF SnapshotTypes
<1> QED
  BY <1>3, <1>4, <1>5, <1>6, <1>7, CollectionMoves

LEMMA HideStep == ASSUME SnapshotInv, NEW x \in doomed, Hide(x) PROVE SnapshotInv'
<1>1. SnapshotTypes /\ VoicesAreThere /\ CollectionIsSafe
  BY DEF SnapshotInv
<1>2. /\ stage = "collecting" /\ x \in snapshots /\ snapshots' = (snapshots \ {x}) \cup {Hidden(x)}
      /\ UNCHANGED <<voice, envelope, claimed, deriving, implementation, stage, doomed>>
  BY DEF Hide
<1>3. x \in StoreEntries /\ Hidden(x) \in StoreEntries
  BY <1>1 DEF SnapshotTypes, Hidden, StoreEntries
<1>4. PICK T : T = snapshots \ {x}
  OBVIOUS
<1>5. IsFiniteSet(T) /\ Cardinality(T) = Cardinality(snapshots) - 1 /\ Cardinality(T) \in Nat /\ Cardinality(snapshots) \in Nat
  BY <1>1, <1>2, <1>4, OneEntry, StoreSizes
<1>6. IsFiniteSet(snapshots') /\ Cardinality(snapshots') \in {Cardinality(T), Cardinality(T) + 1}
  BY <1>2, <1>4, <1>5, FS_AddElement
<1>7. Cardinality(snapshots') <= Cardinality(snapshots)
  BY <1>5, <1>6
<1>8. \A r \in Waiting : Raw(envelope[r].voice) \in snapshots'
  <2> SUFFICES ASSUME NEW r \in Waiting PROVE Raw(envelope[r].voice) \in snapshots'
    OBVIOUS
  <2>1. Raw(envelope[r].voice) \in snapshots
    BY <1>1 DEF VoicesAreThere
  <2>2. x.kind = "raw" => envelope[r].voice # x.of
    BY <1>1, <1>2 DEF CollectionIsSafe
  <2>3. Raw(envelope[r].voice) # x
    BY <2>2 DEF Raw
  <2> QED
    BY <1>2, <2>1, <2>3
<1>9. snapshots' \subseteq StoreEntries
  BY <1>1, <1>2, <1>3 DEF SnapshotTypes
<1>10. /\ stage # "serving" /\ stage' \in {"collecting", "serving"} /\ doomed' \subseteq StoreEntries
       /\ \A y \in doomed' : y.kind = "raw" => \A r \in Waiting : envelope[r].voice # y.of
  BY <1>1, <1>2 DEF SnapshotTypes, CollectionIsSafe
<1> QED
  BY <1>2, <1>6, <1>7, <1>8, <1>9, <1>10, CollectionMoves

LEMMA DiscardStep == ASSUME SnapshotInv, NEW x \in doomed, Discard(x) PROVE SnapshotInv'
<1>1. SnapshotTypes /\ VoicesAreThere /\ CollectionIsSafe
  BY DEF SnapshotInv
<1>2. /\ stage = "collecting" /\ doomed' = doomed \ {x} /\ snapshots' = snapshots \ {Hidden(x)}
      /\ UNCHANGED <<voice, envelope, claimed, deriving, implementation, stage>>
  BY DEF Discard
<1>3. x \in StoreEntries /\ Hidden(x).kind = "hidden"
  BY <1>1 DEF SnapshotTypes, Hidden, StoreEntries
<1>4. IsFiniteSet(snapshots') /\ Cardinality(snapshots') <= Cardinality(snapshots) /\ snapshots' \subseteq StoreEntries
  BY <1>1, <1>2, OneEntry DEF SnapshotTypes
<1>5. \A r \in Waiting : Raw(envelope[r].voice) \in snapshots'
  BY <1>1, <1>2, <1>3 DEF VoicesAreThere, Raw
<1>6. /\ stage # "serving" /\ stage' \in {"collecting", "serving"} /\ doomed' \subseteq StoreEntries
      /\ \A y \in doomed' : y.kind = "raw" => \A r \in Waiting : envelope[r].voice # y.of
  BY <1>1, <1>2 DEF SnapshotTypes, CollectionIsSafe
<1> QED
  BY <1>2, <1>4, <1>5, <1>6, CollectionMoves

LEMMA OpenStep == ASSUME SnapshotInv, Open PROVE SnapshotInv'
<1>1. SnapshotTypes /\ VoicesAreThere
  BY DEF SnapshotInv
<1>2. /\ stage = "collecting" /\ stage' = "serving" /\ doomed = {}
      /\ UNCHANGED <<voice, envelope, snapshots, claimed, deriving, implementation, doomed>>
  BY DEF Open
<1>3. /\ snapshots' \subseteq StoreEntries /\ IsFiniteSet(snapshots') /\ Cardinality(snapshots') <= Cardinality(snapshots)
      /\ doomed' \subseteq StoreEntries
  BY <1>1, <1>2, StoreSizes DEF SnapshotTypes
<1>4. \A r \in Waiting : Raw(envelope[r].voice) \in snapshots'
  BY <1>1, <1>2 DEF VoicesAreThere
<1> QED
  BY <1>2, <1>3, <1>4, CollectionMoves

(* Every step keeps what is said of the store. *)
THEOREM SnapshotStep == SnapshotInv /\ [VoiceSnapshotsNext]_snapshotVars => SnapshotInv'
<1> SUFFICES ASSUME SnapshotInv, [VoiceSnapshotsNext]_snapshotVars PROVE SnapshotInv'
  OBVIOUS
<1>1. ASSUME NEW p \in Profiles, Edit(p) \/ \E r \in Envelopes : Freeze(r, p) PROVE SnapshotInv'
  BY <1>1, EditStep, FreezeStep
<1>2. ASSUME NEW r \in Envelopes, Frozen(r) PROVE SnapshotInv'
  BY <1>2, FrozenStep
<1>3. ASSUME NEW r \in Envelopes, Accept(r) \/ DeleteRequest(r) PROVE SnapshotInv'
  BY <1>3, RowStep
<1>4. ASSUME NEW r \in Envelopes, Derive(r) \/ DeriveEnds(r) PROVE SnapshotInv'
  BY <1>4, DeriveStep, DeriveEndsStep
<1>5. CASE Restart \/ Collect \/ Open
  BY <1>5, RestartStep, CollectStep, OpenStep
<1>6. ASSUME NEW x \in doomed, Hide(x) \/ Discard(x) PROVE SnapshotInv'
  BY <1>6, HideStep, DiscardStep
<1>7. CASE UNCHANGED snapshotVars
  <2>1. SnapshotTypes' /\ VoicesAreThere' /\ CollectionIsSafe' /\ FreezingIsAlone'
    BY <1>7 DEF snapshotVars, SnapshotInv, SnapshotTypes, VoicesAreThere, Waiting, CollectionIsSafe, FreezingIsAlone, Phase, Raw, PendingEntry
  <2>2. StoreHasRoom'
    BY <1>7 DEF snapshotVars, SnapshotInv, StoreHasRoom, WorkersClaim, Phase, Prompt
  <2> QED
    BY <2>1, <2>2 DEF SnapshotInv
<1> QED
  BY <1>1, <1>2, <1>3, <1>4, <1>5, <1>6, <1>7 DEF VoiceSnapshotsNext

(* The voice of a request that may still run stays in the store, and the   *)
(* store stays in its limit.                                               *)
THEOREM VoicesAlwaysKept == VoiceSnapshotsSpec => []VoicesAreKept
<1>1. SnapshotInv => VoicesAreKept
  <2> SUFFICES ASSUME SnapshotInv PROVE VoicesAreKept
    OBVIOUS
  <2>1. \A r \in Envelopes : Phase(r) \in {"frozen", "accepted", "failed"} => Raw(envelope[r].voice) \in snapshots
    BY DEF SnapshotInv, VoicesAreThere, Waiting
  <2>2. SnapshotTypes /\ Cardinality(snapshots) + WorkersClaim <= StoreMost
    BY DEF SnapshotInv, StoreHasRoom
  <2>3. Cardinality(snapshots) \in Nat /\ WorkersClaim \in Nat /\ StoreMost \in Nat
    BY <2>2, StoreSizes, SnapshotConstants
  <2>4. Cardinality(snapshots) <= StoreMost
    BY <2>2, <2>3
  <2> QED
    BY <2>1, <2>4 DEF VoicesAreKept
<1> QED
  BY <1>1, SnapshotInit, SnapshotStep, PTL DEF VoiceSnapshotsSpec

-----------------------------------------------------------------------------
(* Archives.                                                               *)

ArchivesSpec == ArchivesInit /\ [][ArchivesNext]_archiveVars

ImportStages == {"new", "inspected", "working", "filling", "published", "committed", "broken", "cleaning", "answered", "refused"}
(* Where an import may be whose row is there. *)
Entered == {"committed", "broken", "cleaning", "answered", "refused"}

ImportTypes ==
    /\ imports \in [Imports -> [at : ImportStages, ok : BOOLEAN, name : Nat, profile : Profiling \cup {OldProfile, NoProfile}]]
    /\ owners \subseteq Imports \cup {OldProfile} /\ IsFiniteSet(owners)
    /\ placed \subseteq Imports \X {"staged", "public"} /\ journaled \subseteq Imports

(* What holds between two steps of an import: a row is the last thing that  *)
(* comes; storage in the making is journaled; what is published in this     *)
(* turn of the loop is there, and so is the profile it goes to.             *)
ImportsAreInOrder ==
    /\ \A i \in Imports : i \in owners => At(i) \in Entered
    /\ \A i \in Imports : At(i) = "filling" => i \in journaled
    /\ \A i \in Imports : At(i) = "published" =>
          <<i, "public">> \in placed /\ (i \notin Profiling => imports[i].profile \in owners)

ImportsInv == ImportTypes /\ ImportsAreInOrder /\ ImportsAreWhole

LEMMA ImportConstants ==
    /\ Profiling \subseteq Imports /\ OldProfile \notin Imports /\ OldProfile \notin Profiling
    /\ Imports \cap Exports = {} /\ ImportsMost \in Nat /\ ExportsMost \in Nat
BY ArchivesAssumption

LEMMA ImportsInit == ArchivesInit => ImportsInv
<1> SUFFICES ASSUME ArchivesInit PROVE ImportsInv
  OBVIOUS
<1>1. ImportTypes
  BY FS_Singleton DEF ArchivesInit, ImportTypes, ImportStages
<1>2. ImportsAreInOrder
  BY ImportConstants DEF ArchivesInit, ImportsAreInOrder, At
<1>3. ImportsAreWhole
  BY ImportConstants DEF ArchivesInit, ImportsAreWhole, ImportedProfiles
<1> QED
  BY <1>1, <1>2, <1>3 DEF ImportsInv

(* One import goes on; names and profiles stay. *)
LEMMA TurnsFacts ==
    ASSUME ImportTypes, NEW i \in Imports, NEW from, NEW to \in ImportStages, Turns(i, from, to)
    PROVE  /\ imports' \in [Imports -> [at : ImportStages, ok : BOOLEAN, name : Nat, profile : Profiling \cup {OldProfile, NoProfile}]]
           /\ At(i) = from /\ At(i)' = to /\ \A j \in Imports \ {i} : At(j)' = At(j)
           /\ \A j \in Imports : imports'[j].name = imports[j].name /\ imports'[j].profile = imports[j].profile
<1> DEFINE Record == [at : ImportStages, ok : BOOLEAN, name : Nat, profile : Profiling \cup {OldProfile, NoProfile}]
<1>1. imports \in [Imports -> Record]
  BY DEF ImportTypes
<1>2. imports' = [imports EXCEPT ![i] = [imports[i] EXCEPT !.at = to]] /\ imports[i].at = from
  BY <1>1 DEF Turns, At
<1>3. imports[i] \in Record
  BY <1>1
<1>4. /\ [imports[i] EXCEPT !.at = to] \in Record /\ [imports[i] EXCEPT !.at = to].at = to
      /\ [imports[i] EXCEPT !.at = to].name = imports[i].name /\ [imports[i] EXCEPT !.at = to].profile = imports[i].profile
  BY <1>3
<1>5. imports' \in [Imports -> Record] /\ imports'[i] = [imports[i] EXCEPT !.at = to] /\ \A j \in Imports \ {i} : imports'[j] = imports[j]
  BY <1>1, <1>2, <1>4
<1> QED
  BY <1>2, <1>4, <1>5 DEF At

(* Rows, storage and intents are kept while an import does not fill,        *)
(* publish or write a row.                                                  *)
LEMMA ImportMoves ==
    ASSUME ImportsInv, NEW i \in Imports, NEW from \in ImportStages, NEW to \in ImportStages \ {"filling", "published"},
           Turns(i, from, to), from \in Entered => to \in Entered, UNCHANGED <<owners, placed, journaled>>
    PROVE  ImportsInv'
<1>1. ImportTypes /\ ImportsAreInOrder /\ ImportsAreWhole
  BY DEF ImportsInv
<1>2. /\ imports' \in [Imports -> [at : ImportStages, ok : BOOLEAN, name : Nat, profile : Profiling \cup {OldProfile, NoProfile}]]
      /\ At(i) = from /\ At(i)' = to /\ \A j \in Imports \ {i} : At(j)' = At(j)
      /\ \A j \in Imports : imports'[j].name = imports[j].name /\ imports'[j].profile = imports[j].profile
  BY <1>1, TurnsFacts
<1>3. ImportTypes'
  BY <1>1, <1>2 DEF ImportTypes
<1>4. ImportsAreInOrder'
  BY <1>1, <1>2 DEF ImportsAreInOrder
<1>5. ImportsAreWhole'
  BY <1>1, <1>2, ImportConstants DEF ImportsAreWhole, ImportedProfiles, NameOf, ImportTypes
<1> QED
  BY <1>3, <1>4, <1>5 DEF ImportsInv

(* The rest of an import's own steps. *)
LEMMA QuietImportStep ==
    ASSUME ImportsInv, NEW i \in Imports, InspectImport(i) \/ RefuseImport(i) \/ AllocateImport(i) \/ CleanupImport(i)
    PROVE  ImportsInv'
<1>1. PICK from \in {"new", "inspected", "cleaning"}, to \in {"inspected", "working", "refused", "answered"} :
         Turns(i, from, to) /\ (from = "cleaning" => to \in {"refused", "answered"})
  BY DEF InspectImport, RefuseImport, AllocateImport, CleanupImport
<1>2. UNCHANGED <<owners, placed, journaled>>
  BY DEF InspectImport, RefuseImport, AllocateImport, CleanupImport
<1>3. from \in ImportStages /\ to \in ImportStages \ {"filling", "published"} /\ (from \in Entered => to \in Entered)
  BY <1>1 DEF ImportStages, Entered
<1> QED
  BY <1>1, <1>2, <1>3, ImportMoves

(* The name that is chosen is free and a number. *)
LEMMA UniqueNameIsFree ==
    ASSUME ImportTypes PROVE UniqueName \in Nat /\ UniqueName \notin Names
<1>1. IsFiniteSet(ImportedProfiles) /\ \A p \in ImportedProfiles : NameOf(p) \in Nat
  <2>1. IsFiniteSet(ImportedProfiles)
    BY FS_Subset DEF ImportTypes, ImportedProfiles
  <2>2. \A p \in ImportedProfiles : NameOf(p) \in Nat
    BY ImportConstants DEF ImportTypes, ImportedProfiles, NameOf
  <2> QED
    BY <2>1, <2>2
<1>2. IsFiniteSet(Names) /\ Names \in SUBSET Nat
  <2>1. PICK f : f = [p \in ImportedProfiles |-> NameOf(p)]
    OBVIOUS
  <2>2. Names = {f[p] : p \in ImportedProfiles}
    BY <2>1 DEF Names
  <2> QED
    BY <1>1, <2>1, <2>2, FiniteImage
<1>3. \E n \in 0..Cardinality(Names) : n \notin Names /\ \A k \in 0..n - 1 : k \in Names
  BY <1>2, LeastFree
<1>4. UniqueName \in 0..Cardinality(Names) /\ UniqueName \notin Names
  BY <1>3, Zenon DEF UniqueName
<1> QED
  BY <1>2, <1>4, FS_CardinalityType

LEMMA PrepareStep == ASSUME ImportsInv, NEW i \in Imports, Prepare(i) PROVE ImportsInv'
<1>1. ImportTypes /\ ImportsAreInOrder /\ ImportsAreWhole
  BY DEF ImportsInv
<1>2. CASE Turns(i, "working", "cleaning") /\ UNCHANGED <<placed, journaled>>
  <2>1. PICK from \in ImportStages, to \in ImportStages \ {"filling", "published"} : from = "working" /\ to = "cleaning"
    BY DEF ImportStages
  <2>2. Turns(i, from, to) /\ from \notin Entered /\ UNCHANGED owners
    BY <1>2, <2>1 DEF Entered, Prepare
  <2> QED
    BY <1>2, <2>2, ImportMoves
<1>3. ASSUME NEW p \in GivenTo(i),
             imports' = [imports EXCEPT ![i] = [at |-> "filling", ok |-> FALSE, profile |-> p,
                                                name |-> IF i \in Profiling THEN UniqueName ELSE 0]],
             placed' = placed \cup {<<i, "staged">>}, journaled' = journaled \cup {i}
      PROVE  ImportsInv'
  <2>1. At(i) = "working" /\ owners' = owners
    BY DEF Prepare
  <2>2. i \notin owners
    BY <1>1, <2>1 DEF ImportsAreInOrder, Entered
  <2>3. PICK n \in Nat : n = IF i \in Profiling THEN UniqueName ELSE 0
    BY <1>1, UniqueNameIsFree
  <2>4. p \in Profiling \cup {OldProfile, NoProfile}
    BY <1>1 DEF GivenTo, ImportedProfiles
  <2>5. /\ imports' \in [Imports -> [at : ImportStages, ok : BOOLEAN, name : Nat, profile : Profiling \cup {OldProfile, NoProfile}]]
        /\ imports'[i].at = "filling" /\ \A j \in Imports \ {i} : imports'[j] = imports[j]
    BY <1>1, <1>3, <2>3, <2>4 DEF ImportTypes, ImportStages
  <2>6. ImportTypes'
    BY <1>1, <1>3, <2>1, <2>5 DEF ImportTypes
  <2>7. ImportsAreInOrder'
    BY <1>1, <1>3, <2>1, <2>2, <2>5 DEF ImportsAreInOrder, At
  <2>8. ImportsAreWhole'
    <3>1. ImportedProfiles' = ImportedProfiles /\ ImportedProfiles \subseteq (Imports \ {i}) \cup {OldProfile}
      BY <1>1, <2>1, <2>2 DEF ImportedProfiles, ImportTypes
    <3>2. \A q \in ImportedProfiles : NameOf(q)' = NameOf(q)
      BY <2>5, <3>1 DEF NameOf
    <3>3. \A g \in owners \ ImportedProfiles : imports'[g].profile = imports[g].profile
      <4>1. \A g \in owners \ ImportedProfiles : g \in Imports \ {i}
        BY <1>1, <2>2, <3>1 DEF ImportTypes, ImportedProfiles
      <4> QED
        BY <2>5, <4>1
    <3>4. placed \subseteq placed' /\ \A f \in placed' : f \in placed \/ f = <<i, "staged">>
      BY <1>3
    <3> QED
      BY <1>1, <1>3, <2>1, <3>1, <3>2, <3>3, <3>4 DEF ImportsAreWhole
  <2> QED
    BY <2>6, <2>7, <2>8 DEF ImportsInv
<1> QED
  BY <1>2, <1>3 DEF Prepare

LEMMA PublishStep == ASSUME ImportsInv, NEW i \in Imports, PublishImport(i) PROVE ImportsInv'
<1>1. ImportTypes /\ ImportsAreInOrder /\ ImportsAreWhole
  BY DEF ImportsInv
<1>2. owners' = owners /\ journaled' = journaled
  BY DEF PublishImport, TakesName
<1>3. CASE Turns(i, "filling", "broken") /\ UNCHANGED placed
  <2>1. PICK from \in ImportStages, to \in ImportStages \ {"filling", "published"} : from = "filling" /\ to = "broken"
    BY DEF ImportStages
  <2>2. Turns(i, from, to) /\ from \notin Entered
    BY <1>3, <2>1 DEF Entered
  <2> QED
    BY <1>2, <1>3, <2>2, ImportMoves
<1>4. CASE /\ Turns(i, "filling", "published") /\ (i \in Profiling \/ imports[i].profile \in owners)
           /\ placed' = (placed \ {<<i, "staged">>}) \cup {<<i, "public">>}
  <2>1. PICK to \in ImportStages : to = "published"
    BY DEF ImportStages
  <2>2. Turns(i, "filling", to)
    BY <1>4, <2>1
  <2>3. /\ imports' \in [Imports -> [at : ImportStages, ok : BOOLEAN, name : Nat, profile : Profiling \cup {OldProfile, NoProfile}]]
        /\ At(i) = "filling" /\ At(i)' = "published" /\ \A j \in Imports \ {i} : At(j)' = At(j)
        /\ \A j \in Imports : imports'[j].name = imports[j].name /\ imports'[j].profile = imports[j].profile
    BY <1>1, <2>1, <2>2, TurnsFacts
  <2>4. i \in journaled /\ i \notin owners
    BY <1>1, <2>3 DEF ImportsAreInOrder, Entered
  <2>5. \A j \in Imports : <<j, "public">> \in placed => <<j, "public">> \in placed'
    BY <1>4
  <2>6. ImportTypes'
    BY <1>1, <1>2, <1>4, <2>3 DEF ImportTypes
  <2>7. ImportsAreInOrder'
    BY <1>1, <1>2, <1>4, <2>3, <2>4, <2>5 DEF ImportsAreInOrder
  <2>8. ImportsAreWhole'
    <3>1. ImportedProfiles' = ImportedProfiles /\ \A q \in ImportedProfiles : NameOf(q)' = NameOf(q)
      BY <1>1, <1>2, <2>3 DEF ImportedProfiles, NameOf, ImportTypes
    <3>2. \A g \in owners \ {OldProfile} : g \in Imports
      BY <1>1 DEF ImportTypes
    <3>3. \A g \in owners \ ImportedProfiles : imports'[g].profile = imports[g].profile
      BY <1>1, <2>3, <3>2 DEF ImportedProfiles
    <3>4. \A f \in placed' : f \in placed \/ f = <<i, "public">>
      BY <1>4
    <3> QED
      BY <1>1, <1>2, <2>4, <2>5, <3>1, <3>2, <3>3, <3>4 DEF ImportsAreWhole
  <2> QED
    BY <2>6, <2>7, <2>8 DEF ImportsInv
<1> QED
  BY <1>3, <1>4 DEF PublishImport, TakesName

LEMMA CommitStep == ASSUME ImportsInv, NEW i \in Imports, Commit(i) PROVE ImportsInv'
<1>1. ImportTypes /\ ImportsAreInOrder /\ ImportsAreWhole
  BY DEF ImportsInv
<1>2. PICK to \in {"committed", "broken"} : Turns(i, "published", to)
  BY DEF Commit
<1>3. /\ placed' = placed /\ journaled' = journaled
      /\ owners' = owners \/ (owners' = owners \cup {i} /\ (i \in Profiling => imports[i].name \notin Names))
  BY DEF Commit, NoMishap, Mishap
<1>4. to \in ImportStages \ {"filling", "published"} /\ to \in Entered
  BY DEF ImportStages, Entered
<1>5. /\ imports' \in [Imports -> [at : ImportStages, ok : BOOLEAN, name : Nat, profile : Profiling \cup {OldProfile, NoProfile}]]
      /\ At(i) = "published" /\ At(i)' = to /\ \A j \in Imports \ {i} : At(j)' = At(j)
      /\ \A j \in Imports : imports'[j].name = imports[j].name /\ imports'[j].profile = imports[j].profile
  BY <1>1, <1>2, <1>4, TurnsFacts
<1>6. CASE owners' = owners
  <2>1. PICK from \in ImportStages : from = "published"
    BY DEF ImportStages
  <2>2. Turns(i, from, to)
    BY <1>2, <2>1
  <2> QED
    BY <1>3, <1>4, <1>6, <2>2, ImportMoves
<1>7. CASE owners' = owners \cup {i} /\ (i \in Profiling => imports[i].name \notin Names)
  <2>1. <<i, "public">> \in placed /\ (i \notin Profiling => imports[i].profile \in owners)
    BY <1>1, <1>5 DEF ImportsAreInOrder
  <2>2. ImportTypes'
    BY <1>1, <1>3, <1>5, <1>7, FS_AddElement DEF ImportTypes
  <2>3. ImportsAreInOrder'
    BY <1>1, <1>3, <1>4, <1>5, <1>7 DEF ImportsAreInOrder
  <2>4. ImportsAreWhole'
    <3>1. i # OldProfile
      BY ImportConstants
    <3>2. \A q \in ImportedProfiles : NameOf(q)' = NameOf(q)
      BY <1>1, <1>5 DEF ImportedProfiles, NameOf, ImportTypes
    <3>3. NameOf(i)' = imports[i].name
      BY <1>5, <3>1 DEF NameOf
    <3>4. ImportedProfiles' = IF i \in Profiling THEN ImportedProfiles \cup {i} ELSE ImportedProfiles
      BY <1>7, <3>1 DEF ImportedProfiles
    <3>5. \A p, q \in ImportedProfiles' : NameOf(p)' = NameOf(q)' => p = q
      <4>1. CASE i \in Profiling
        <5>1. \A q \in ImportedProfiles : NameOf(q)' # imports[i].name
          BY <1>7, <3>2, <4>1 DEF Names
        <5> QED
          BY <1>1, <3>2, <3>3, <3>4, <5>1 DEF ImportsAreWhole
      <4>2. CASE i \notin Profiling
        BY <1>1, <3>2, <3>4, <4>2 DEF ImportsAreWhole
      <4> QED
        BY <4>1, <4>2
    <3>6. \A g \in owners' \ ImportedProfiles' : imports'[g].profile \in owners'
      <4> SUFFICES ASSUME NEW g \in owners' \ ImportedProfiles' PROVE imports'[g].profile \in owners'
        OBVIOUS
      <4>1. CASE g = i
        <5>1. i \notin Profiling
          BY <3>4, <4>1
        <5> QED
          BY <1>5, <1>7, <2>1, <4>1, <5>1
      <4>2. CASE g # i
        <5>1. g \in owners \ ImportedProfiles /\ g \in Imports
          BY <1>1, <1>7, <3>4, <4>2 DEF ImportTypes, ImportedProfiles
        <5> QED
          BY <1>1, <1>5, <1>7, <5>1 DEF ImportsAreWhole
      <4> QED
        BY <4>1, <4>2
    <3>7. \A j \in owners' \ {OldProfile} : <<j, "public">> \in placed'
      BY <1>1, <1>3, <1>7, <2>1 DEF ImportsAreWhole
    <3>8. \A f \in placed' : f[1] \in owners' \/ f[1] \in journaled'
      BY <1>1, <1>3, <1>7 DEF ImportsAreWhole
    <3> QED
      BY <3>5, <3>6, <3>7, <3>8 DEF ImportsAreWhole
  <2> QED
    BY <2>2, <2>3, <2>4 DEF ImportsInv
<1> QED
  BY <1>3, <1>6, <1>7

(* Reconciliation: no row loses its storage, and what is left without a row *)
(* has an intent.                                                           *)
LEMMA ReconciledFacts ==
    ASSUME ImportTypes, NEW is \in SUBSET Imports, Reconciled(is),
           \A i \in owners \ {OldProfile} : <<i, "public">> \in placed,
           \A f \in placed : f[1] \in owners \/ f[1] \in journaled
    PROVE  /\ placed' \subseteq Imports \X {"staged", "public"} /\ journaled' = journaled \ is
           /\ \A i \in owners \ {OldProfile} : <<i, "public">> \in placed'
           /\ \A f \in placed' : f[1] \in owners \/ f[1] \in journaled'
           /\ \A i \in Imports \ is : <<i, "public">> \in placed => <<i, "public">> \in placed'
<1>1. PICK kept : kept = {f \in placed : f[1] \notin is \ owners}
  OBVIOUS
<1>2. placed' = {IF f[1] \in is THEN <<f[1], "public">> ELSE f : f \in kept} /\ journaled' = journaled \ is
  BY <1>1 DEF Reconciled
<1>3. placed \subseteq Imports \X {"staged", "public"}
  BY DEF ImportTypes
<1>4. ASSUME NEW g \in placed'
      PROVE  g \in Imports \X {"staged", "public"} /\ (g[1] \in owners \/ g[1] \in journaled')
  <2>1. PICK f \in kept : g = IF f[1] \in is THEN <<f[1], "public">> ELSE f
    BY <1>2, <1>4
  <2>2. f \in placed /\ f[1] \in Imports /\ f[1] \notin is \ owners
    BY <1>1, <1>3, <2>1
  <2>3. g[1] = f[1] /\ g \in Imports \X {"staged", "public"}
    BY <1>3, <2>1, <2>2
  <2>4. f[1] \in owners \/ f[1] \in journaled \ is
    BY <2>2
  <2> QED
    BY <1>2, <2>3, <2>4
<1>5. ASSUME NEW i \in Imports, <<i, "public">> \in placed, i \notin is \ owners
      PROVE  <<i, "public">> \in placed'
  <2>1. <<i, "public">> \in kept
    BY <1>1, <1>5
  <2>2. (IF <<i, "public">>[1] \in is THEN <<<<i, "public">>[1], "public">> ELSE <<i, "public">>) = <<i, "public">>
    OBVIOUS
  <2> QED
    BY <1>2, <2>1, <2>2
<1>6. \A i \in owners \ {OldProfile} : <<i, "public">> \in placed'
  BY <1>5 DEF ImportTypes
<1> QED
  BY <1>2, <1>4, <1>5, <1>6

(* What only concerns the rows: their names and the profiles they go to. *)
RowsAreSound ==
    /\ \A g \in owners \ ImportedProfiles : imports[g].profile \in owners
    /\ \A p, q \in ImportedProfiles : NameOf(p) = NameOf(q) => p = q

LEMMA RowsStay ==
    ASSUME ImportTypes, RowsAreSound, owners' = owners,
           \A j \in Imports : imports'[j].name = imports[j].name /\ imports'[j].profile = imports[j].profile
    PROVE  RowsAreSound'
<1>1. ImportedProfiles' = ImportedProfiles /\ \A q \in ImportedProfiles : NameOf(q)' = NameOf(q)
  BY DEF ImportedProfiles, NameOf, ImportTypes
<1>2. \A g \in owners \ ImportedProfiles : imports'[g].profile = imports[g].profile
  BY DEF ImportedProfiles, ImportTypes
<1> QED
  BY <1>1, <1>2 DEF RowsAreSound

LEMMA SettleStep == ASSUME ImportsInv, NEW i \in Imports, SettleImport(i) PROVE ImportsInv'
<1>1. ImportTypes /\ ImportsAreInOrder /\ ImportsAreWhole /\ RowsAreSound
  BY DEF ImportsInv, ImportsAreWhole, RowsAreSound
<1>2. owners' = owners /\ At(i) \in {"committed", "broken"}
  BY DEF SettleImport
<1>3. CASE At(i) = "broken" /\ Turns(i, "broken", "cleaning") /\ UNCHANGED <<placed, journaled>>
  <2>1. PICK from \in ImportStages, to \in ImportStages \ {"filling", "published"} : from = "broken" /\ to = "cleaning"
    BY DEF ImportStages
  <2>2. Turns(i, from, to) /\ to \in Entered
    BY <1>3, <2>1 DEF Entered
  <2> QED
    BY <1>2, <1>3, <2>2, ImportMoves
<1>4. CASE /\ imports' = [imports EXCEPT ![i] = [at |-> "cleaning", ok |-> Proven(i), name |-> @.name, profile |-> @.profile]]
           /\ Reconciled({i}) \/ UNCHANGED <<placed, journaled>>
  <2>1. Proven(i) \in BOOLEAN
    BY DEF Proven
  <2>2. /\ imports' \in [Imports -> [at : ImportStages, ok : BOOLEAN, name : Nat, profile : Profiling \cup {OldProfile, NoProfile}]]
        /\ At(i)' = "cleaning" /\ \A j \in Imports \ {i} : At(j)' = At(j)
        /\ \A j \in Imports : imports'[j].name = imports[j].name /\ imports'[j].profile = imports[j].profile
    BY <1>1, <1>4, <2>1 DEF ImportTypes, ImportStages, At
  <2>3. /\ placed' \subseteq Imports \X {"staged", "public"} /\ journaled' \subseteq journaled /\ journaled \subseteq journaled' \cup {i}
        /\ \A j \in owners \ {OldProfile} : <<j, "public">> \in placed'
        /\ \A f \in placed' : f[1] \in owners \/ f[1] \in journaled'
        /\ \A j \in Imports \ {i} : <<j, "public">> \in placed => <<j, "public">> \in placed'
    <3>1. CASE UNCHANGED <<placed, journaled>>
      BY <1>1, <3>1 DEF ImportTypes, ImportsAreWhole
    <3>2. CASE Reconciled({i})
      <4>1. PICK is \in SUBSET Imports : is = {i}
        OBVIOUS
      <4>2. Reconciled(is)
        BY <3>2, <4>1
      <4>3. (\A j \in owners \ {OldProfile} : <<j, "public">> \in placed) /\ (\A f \in placed : f[1] \in owners \/ f[1] \in journaled)
        BY <1>1 DEF ImportsAreWhole
      <4>4. /\ placed' \subseteq Imports \X {"staged", "public"} /\ journaled' = journaled \ is
            /\ \A j \in owners \ {OldProfile} : <<j, "public">> \in placed'
            /\ \A f \in placed' : f[1] \in owners \/ f[1] \in journaled'
            /\ \A j \in Imports \ is : <<j, "public">> \in placed => <<j, "public">> \in placed'
        BY <1>1, <4>2, <4>3, ReconciledFacts
      <4> QED
        BY <4>1, <4>4
    <3> QED
      BY <1>4, <3>1, <3>2
  <2>4. ImportTypes'
    BY <1>1, <1>2, <2>2, <2>3 DEF ImportTypes
  <2>5. ImportsAreInOrder'
    BY <1>1, <1>2, <2>2, <2>3 DEF ImportsAreInOrder, Entered
  <2>6. ImportsAreWhole'
    BY <1>1, <1>2, <2>2, <2>3, RowsStay DEF ImportsAreWhole, RowsAreSound
  <2> QED
    BY <2>4, <2>5, <2>6 DEF ImportsInv
<1> QED
  BY <1>3, <1>4 DEF SettleImport

(* A profile goes with the generations that were given to it. *)
LEMMA DeleteStep == ASSUME ImportsInv, NEW p \in ImportedProfiles, DeleteProfile(p) PROVE ImportsInv'
<1>1. ImportTypes /\ ImportsAreInOrder /\ ImportsAreWhole
  BY DEF ImportsInv
<1>2. PICK gone : gone = {p} \cup {i \in Imports \ Profiling : imports[i].profile = p}
  OBVIOUS
<1>3. /\ TurnFree /\ owners' = owners \ gone /\ placed' = {f \in placed : ~(f[1] \in gone \cap owners)}
      /\ imports' = imports /\ journaled' = journaled
  BY <1>2 DEF DeleteProfile
<1>4. \A i \in Imports : At(i)' = At(i) /\ At(i) # "published"
  BY <1>3 DEF TurnFree, InTurn, At
<1>5. ImportTypes'
  BY <1>1, <1>3, FS_Subset DEF ImportTypes
<1>6. ImportsAreInOrder'
  BY <1>1, <1>3, <1>4 DEF ImportsAreInOrder
<1>7. ImportsAreWhole'
  <2>1. ImportedProfiles' \subseteq ImportedProfiles /\ \A q \in ImportedProfiles : NameOf(q)' = NameOf(q)
    BY <1>3 DEF ImportedProfiles, NameOf
  <2>2. \A i \in owners' \ {OldProfile} : <<i, "public">> \in placed'
    BY <1>1, <1>3 DEF ImportsAreWhole
  <2>3. \A f \in placed' : f[1] \in owners' \/ f[1] \in journaled'
    BY <1>1, <1>3 DEF ImportsAreWhole
  <2>4. \A g \in owners' \ ImportedProfiles' : imports'[g].profile \in owners'
    <3> SUFFICES ASSUME NEW g \in owners' \ ImportedProfiles' PROVE imports[g].profile \in owners'
      BY <1>3
    <3>1. g \in owners \ ImportedProfiles /\ g \notin gone /\ g \in Imports \ Profiling
      BY <1>1, <1>3 DEF ImportedProfiles, ImportTypes
    <3>2. imports[g].profile \in owners /\ imports[g].profile # p
      BY <1>1, <1>2, <3>1 DEF ImportsAreWhole
    <3>3. imports[g].profile \in Profiling \cup {OldProfile}
      BY <1>1, <3>1, <3>2, ArchivesAssumption DEF ImportTypes
    <3>4. imports[g].profile \notin gone
      BY <1>2, <3>2, <3>3, ImportConstants
    <3> QED
      BY <1>3, <3>2, <3>4
  <2> QED
    BY <1>1, <2>1, <2>2, <2>3, <2>4 DEF ImportsAreWhole
<1> QED
  BY <1>5, <1>6, <1>7 DEF ImportsInv

LEMMA KillImports == ASSUME ImportsInv, Kill PROVE ImportsInv'
<1>1. ImportTypes /\ ImportsAreInOrder /\ ImportsAreWhole /\ RowsAreSound
  BY DEF ImportsInv, ImportsAreWhole, RowsAreSound
<1>2. owners' = owners
  BY DEF Kill
<1>3. PICK is \in SUBSET journaled : Reconciled(is)
  BY DEF Kill
<1>4. /\ imports' \in [Imports -> [at : ImportStages, ok : BOOLEAN, name : Nat, profile : Profiling \cup {OldProfile, NoProfile}]]
      /\ \A j \in Imports : imports'[j].name = imports[j].name /\ imports'[j].profile = imports[j].profile
      /\ \A j \in Imports : At(j)' \in {"new", "refused", "answered"} /\ (At(j) \in Entered => At(j)' \in Entered)
  <2> DEFINE Record == [at : ImportStages, ok : BOOLEAN, name : Nat, profile : Profiling \cup {OldProfile, NoProfile}]
  <2>1. ASSUME NEW j \in Imports
        PROVE  /\ imports'[j] \in Record /\ imports'[j].name = imports[j].name /\ imports'[j].profile = imports[j].profile
               /\ imports'[j].at \in {"new", "refused", "answered"} /\ (imports[j].at \in Entered => imports'[j].at \in Entered)
    <3>1. imports[j] \in Record
      BY <1>1 DEF ImportTypes
    <3>2. CASE At(j) \in {"new", "refused", "answered"}
      <4>1. imports'[j] = imports[j]
        BY <3>2 DEF Kill
      <4> QED
        BY <3>1, <3>2, <4>1 DEF At
    <3>3. CASE At(j) \notin {"new", "refused", "answered"}
      <4>1. imports'[j] = [imports[j] EXCEPT !.at = "refused"]
        BY <3>3 DEF Kill
      <4>2. imports'[j] \in Record /\ imports'[j].at = "refused" /\ imports'[j].name = imports[j].name
            /\ imports'[j].profile = imports[j].profile
        BY <3>1, <4>1 DEF ImportStages
      <4> QED
        BY <4>2 DEF Entered
    <3> QED
      BY <3>2, <3>3
  <2>2. imports' = [j \in Imports |-> imports'[j]]
    BY DEF Kill
  <2>3. imports' \in [Imports -> Record]
    BY <2>1, <2>2
  <2> QED
    BY <2>1, <2>3 DEF At
<1>5. /\ placed' \subseteq Imports \X {"staged", "public"} /\ journaled' = journaled \ is
      /\ \A j \in owners \ {OldProfile} : <<j, "public">> \in placed'
      /\ \A f \in placed' : f[1] \in owners \/ f[1] \in journaled'
  <2>1. is \in SUBSET Imports
    BY <1>1 DEF ImportTypes
  <2>2. (\A j \in owners \ {OldProfile} : <<j, "public">> \in placed) /\ (\A f \in placed : f[1] \in owners \/ f[1] \in journaled)
    BY <1>1 DEF ImportsAreWhole
  <2> QED
    BY <1>1, <1>3, <2>1, <2>2, ReconciledFacts
<1>6. ImportTypes'
  BY <1>1, <1>2, <1>4, <1>5 DEF ImportTypes
<1>7. ImportsAreInOrder'
  BY <1>1, <1>2, <1>4 DEF ImportsAreInOrder
<1>8. ImportsAreWhole'
  BY <1>1, <1>2, <1>4, <1>5, RowsStay DEF ImportsAreWhole, RowsAreSound
<1> QED
  BY <1>6, <1>7, <1>8 DEF ImportsInv

(* Every step keeps the order of the imports. *)
THEOREM ImportsStep == ImportsInv /\ [ArchivesNext]_archiveVars => ImportsInv'
<1> SUFFICES ASSUME ImportsInv, [ArchivesNext]_archiveVars PROVE ImportsInv'
  OBVIOUS
<1>1. ASSUME NEW i \in Imports, InspectImport(i) \/ RefuseImport(i) \/ AllocateImport(i) \/ CleanupImport(i) PROVE ImportsInv'
  BY <1>1, QuietImportStep
<1>2. ASSUME NEW i \in Imports, Prepare(i) \/ PublishImport(i) \/ Commit(i) \/ SettleImport(i) PROVE ImportsInv'
  BY <1>2, PrepareStep, PublishStep, CommitStep, SettleStep
<1>3. ASSUME NEW p \in ImportedProfiles, DeleteProfile(p) PROVE ImportsInv'
  BY <1>3, DeleteStep
<1>4. CASE Kill
  BY <1>4, KillImports
<1>5. ASSUME UNCHANGED importVars PROVE ImportsInv'
  BY <1>5 DEF importVars, ImportsInv, ImportTypes, ImportsAreInOrder, ImportsAreWhole, ImportedProfiles, NameOf, At
<1>6. CASE ExportsNext
  <2>1. UNCHANGED importVars
    BY <1>6 DEF ExportsNext, ChangeSource, StartExport, Deliver, EndExport, CopyMember
  <2> QED
    BY <1>5, <2>1
<1>7. CASE UNCHANGED archiveVars
  BY <1>5, <1>7 DEF archiveVars, importVars
<1> QED
  BY <1>1, <1>2, <1>3, <1>4, <1>6, <1>7 DEF ArchivesNext, ImportsNext

(* Nothing is imported by half. *)
THEOREM ImportsAlwaysWhole == ArchivesSpec => []ImportsAreWhole
<1>1. ImportsInv => ImportsAreWhole
  BY DEF ImportsInv
<1> QED
  BY <1>1, ImportsInit, ImportsStep, PTL DEF ArchivesSpec

-----------------------------------------------------------------------------
(* Exports. *)
ExportRecords == [at : {"new", "copying", "sending", "ending", "sent", "refused"}, seen : [Exported -> Nat], has : [Exported -> Nat]]

(* A copy in the making has of each file what was taken down, or nothing    *)
(* yet; and what was taken down is of one moment.                           *)
CopiesAreFaithful ==
    \A e \in Exports : exports[e].at = "copying" =>
       /\ exports[e].seen \in past /\ \A m \in Exported : exports[e].has[m] = exports[e].seen[m] \/ (m \in Copies /\ exports[e].has[m] = 0)

ExportsInv ==
    /\ exports \in [Exports -> ExportRecords] /\ content \in [Exported -> Nat] /\ content \in past /\ changes \in Nat
    /\ CopiesAreFaithful /\ ExportsAreOfOneMoment

(* Workspaces and their leases. *)
DirectoriesAreClaimed == busy \subseteq claims /\ claims \subseteq workspaces /\ (kills = 0 => workspaces = claims)
FewAtWork ==
    /\ IsFiniteSet(busy) /\ Cardinality(busy \cap Imports) <= ImportsMost /\ Cardinality(busy \cap Exports) <= ExportsMost
    /\ \A e \in Exports : exports[e].at \in {"copying", "sending"} => e \in busy
WorkspacesInv == kills \in Nat /\ DirectoriesAreClaimed /\ FewAtWork

LEMMA ExportsInit == ArchivesInit => ExportsInv /\ WorkspacesInv
<1> SUFFICES ASSUME ArchivesInit PROVE ExportsInv /\ WorkspacesInv
  OBVIOUS
<1>1. ExportsInv
  <2>1. exports \in [Exports -> ExportRecords]
    BY DEF ArchivesInit, ExportRecords, Untouched
  <2>2. content \in [Exported -> Nat] /\ content \in past /\ changes \in Nat
    BY DEF ArchivesInit
  <2>3. \A e \in Exports : exports[e].at = "new"
    BY DEF ArchivesInit
  <2> QED
    BY <2>1, <2>2, <2>3 DEF ExportsInv, CopiesAreFaithful, ExportsAreOfOneMoment
<1>2. WorkspacesInv
  <2>1. IsFiniteSet(busy) /\ busy \cap Imports = {} /\ busy \cap Exports = {} /\ kills = 0 /\ claims = {} /\ workspaces = {} /\ busy = {}
    BY FS_EmptySet DEF ArchivesInit
  <2>2. \A e \in Exports : exports[e].at = "new"
    BY DEF ArchivesInit
  <2>3. Cardinality({}) = 0 /\ 0 <= ImportsMost /\ 0 <= ExportsMost
    BY FS_EmptySet, ImportConstants
  <2> QED
    BY <2>1, <2>2, <2>3 DEF WorkspacesInv, DirectoriesAreClaimed, FewAtWork
<1> QED
  BY <1>1, <1>2

(* Directories in the way of nobody go with their leases. *)
LEMMA RemovedFacts ==
    ASSUME DirectoriesAreClaimed, NEW ws, Removed(ws), NEW now, now \subseteq busy, now \cap ws = {}, kills' = kills, busy' = now
    PROVE  DirectoriesAreClaimed'
<1>1. PICK gone \in SUBSET ws : workspaces' = workspaces \ gone /\ claims' = claims \ gone
  BY DEF Removed
<1> QED
  BY <1>1 DEF DirectoriesAreClaimed

LEMMA FewerAtWork ==
    ASSUME NEW S, NEW T, IsFiniteSet(S), T \subseteq S
    PROVE  /\ IsFiniteSet(T) /\ Cardinality(T \cap Imports) <= Cardinality(S \cap Imports)
           /\ Cardinality(T \cap Exports) <= Cardinality(S \cap Exports)
           /\ Cardinality(T \cap Imports) \in Nat /\ Cardinality(S \cap Imports) \in Nat
           /\ Cardinality(T \cap Exports) \in Nat /\ Cardinality(S \cap Exports) \in Nat
<1>1. IsFiniteSet(S \cap Imports) /\ IsFiniteSet(S \cap Exports) /\ T \cap Imports \subseteq S \cap Imports /\ T \cap Exports \subseteq S \cap Exports
  BY FS_Subset
<1> QED
  BY <1>1, FS_Subset, FS_CardinalityType

(* No more are at work than before, and every export has its directory. *)
LEMMA FewStay ==
    ASSUME FewAtWork, busy' \subseteq busy, \A e \in Exports : exports'[e].at \in {"copying", "sending"} => e \in busy'
    PROVE  FewAtWork'
<1>1. PICK S, T : S = busy /\ T = busy'
  OBVIOUS
<1>2. IsFiniteSet(S) /\ T \subseteq S
  BY <1>1 DEF FewAtWork
<1>3. /\ IsFiniteSet(T) /\ Cardinality(T \cap Imports) <= Cardinality(S \cap Imports)
      /\ Cardinality(T \cap Exports) <= Cardinality(S \cap Exports)
      /\ Cardinality(T \cap Imports) \in Nat /\ Cardinality(S \cap Imports) \in Nat
      /\ Cardinality(T \cap Exports) \in Nat /\ Cardinality(S \cap Exports) \in Nat
  BY <1>2, FewerAtWork
<1>4. Cardinality(S \cap Imports) <= ImportsMost /\ Cardinality(S \cap Exports) <= ExportsMost
  BY <1>1 DEF FewAtWork
<1>5. Cardinality(T \cap Imports) <= ImportsMost /\ Cardinality(T \cap Exports) <= ExportsMost
  BY <1>3, <1>4, ImportConstants
<1> QED
  BY <1>1, <1>3, <1>5 DEF FewAtWork

(* One more begins. *)
LEMMA OneMoreAtWork ==
    ASSUME FewAtWork, NEW w \in Imports \cup Exports, busy' = busy \cup {w},
           w \in Imports => Cardinality(busy \cap Imports) < ImportsMost,
           w \in Exports => Cardinality(busy \cap Exports) < ExportsMost,
           \A e \in Exports : exports'[e].at \in {"copying", "sending"} => e \in busy'
    PROVE  FewAtWork'
<1>1. PICK S, T : S = busy /\ T = busy'
  OBVIOUS
<1>2. IsFiniteSet(S) /\ T = S \cup {w} /\ Cardinality(S \cap Imports) <= ImportsMost /\ Cardinality(S \cap Exports) <= ExportsMost
  BY <1>1 DEF FewAtWork
<1>3. IsFiniteSet(T) /\ IsFiniteSet(S \cap Imports) /\ IsFiniteSet(S \cap Exports)
  BY <1>2, FS_AddElement, FS_Subset
<1>4. ASSUME NEW A, NEW most \in Nat, IsFiniteSet(A), w \notin A, Cardinality(A) < most
      PROVE  Cardinality(A \cup {w}) <= most
  <2>1. PICK a \in Nat : a = Cardinality(A)
    BY <1>4, FS_CardinalityType
  <2>2. Cardinality(A \cup {w}) = a + 1
    BY <1>4, <2>1, FS_AddElement
  <2>3. a < most
    BY <1>4, <2>1
  <2> QED
    BY <2>1, <2>2, <2>3
<1>5. Cardinality(T \cap Imports) <= ImportsMost
  <2>1. CASE w \in S \cap Imports \/ w \notin Imports
    <3>1. T \cap Imports = S \cap Imports
      BY <1>2, <2>1
    <3> QED
      BY <1>2, <3>1
  <2>2. CASE w \in Imports \ S
    <3>1. T \cap Imports = (S \cap Imports) \cup {w}
      BY <1>2, <2>2
    <3>2. Cardinality(S \cap Imports) < ImportsMost
      BY <1>1, <2>2
    <3> QED
      BY <1>3, <1>4, <2>2, <3>1, <3>2, ImportConstants
  <2> QED
    BY <2>1, <2>2
<1>6. Cardinality(T \cap Exports) <= ExportsMost
  <2>1. CASE w \in S \cap Exports \/ w \notin Exports
    <3>1. T \cap Exports = S \cap Exports
      BY <1>2, <2>1
    <3> QED
      BY <1>2, <3>1
  <2>2. CASE w \in Exports \ S
    <3>1. T \cap Exports = (S \cap Exports) \cup {w}
      BY <1>2, <2>2
    <3>2. Cardinality(S \cap Exports) < ExportsMost
      BY <1>1, <2>2
    <3> QED
      BY <1>3, <1>4, <2>2, <3>1, <3>2, ImportConstants
  <2> QED
    BY <2>1, <2>2
<1> QED
  BY <1>1, <1>3, <1>5, <1>6 DEF FewAtWork

(* Imports, as the exports see them. *)
LEMMA ImportsBesideExports ==
    ASSUME WorkspacesInv, NEW i \in Imports,
           InspectImport(i) \/ RefuseImport(i) \/ AllocateImport(i) \/ Prepare(i) \/ PublishImport(i) \/ Commit(i)
           \/ SettleImport(i) \/ CleanupImport(i)
    PROVE  WorkspacesInv'
<1>1. kills' = kills /\ kills \in Nat /\ DirectoriesAreClaimed /\ FewAtWork /\ exports' = exports
  BY DEF WorkspacesInv, exportVars, InspectImport, RefuseImport, AllocateImport, Prepare, PublishImport, TakesName, Commit, SettleImport, CleanupImport
<1>2. CASE UNCHANGED <<workspaces, busy, claims>>
  BY <1>1, <1>2 DEF WorkspacesInv, DirectoriesAreClaimed, FewAtWork
<1>3. CASE InspectImport(i)
  <2>1. Removed(Stale(Imports)) /\ busy' = busy /\ busy \cap Stale(Imports) = {}
    BY <1>3 DEF InspectImport, Stale
  <2>2. DirectoriesAreClaimed'
    BY <1>1, <2>1, RemovedFacts
  <2>3. FewAtWork'
    BY <1>1, <2>1 DEF FewAtWork
  <2> QED
    BY <1>1, <2>2, <2>3 DEF WorkspacesInv
<1>4. CASE AllocateImport(i)
  <2>1. CASE /\ Cardinality(busy \cap Imports) < ImportsMost
             /\ workspaces' = workspaces \cup {i} /\ busy' = busy \cup {i} /\ claims' = claims \cup {i}
    <3>1. DirectoriesAreClaimed'
      BY <1>1, <2>1 DEF DirectoriesAreClaimed
    <3>2. i \notin Exports /\ \A e \in Exports : exports'[e].at \in {"copying", "sending"} => e \in busy'
      BY <1>1, <2>1, ImportConstants DEF FewAtWork
    <3>3. FewAtWork'
      BY <1>1, <2>1, <3>2, OneMoreAtWork
    <3> QED
      BY <1>1, <3>1, <3>3 DEF WorkspacesInv
  <2> QED
    BY <1>2, <1>4, <2>1 DEF AllocateImport
<1>5. CASE CleanupImport(i)
  <2>1. Removed({i}) /\ busy' = busy \ {i} /\ i \notin Exports
    BY <1>5, ImportConstants DEF CleanupImport, ClearWorkspace
  <2>2. DirectoriesAreClaimed'
    <3>1. (busy \ {i}) \subseteq busy /\ (busy \ {i}) \cap {i} = {}
      OBVIOUS
    <3> QED
      BY <1>1, <2>1, <3>1, RemovedFacts
  <2>3. FewAtWork'
    <3>1. busy' \subseteq busy /\ \A e \in Exports : exports'[e].at \in {"copying", "sending"} => e \in busy'
      BY <1>1, <2>1 DEF FewAtWork
    <3> QED
      BY <1>1, <3>1, FewStay
  <2> QED
    BY <1>1, <2>2, <2>3 DEF WorkspacesInv
<1> QED
  BY <1>2, <1>3, <1>4, <1>5 DEF RefuseImport, Prepare, PublishImport, TakesName, Commit, SettleImport

-----------------------------------------------------------------------------
LEMMA StartExportStep ==
    ASSUME ExportsInv, WorkspacesInv, NEW e \in Exports, StartExport(e)
    PROVE  ExportsInv' /\ WorkspacesInv'
<1>1. /\ exports \in [Exports -> ExportRecords] /\ content \in [Exported -> Nat] /\ content \in past /\ changes \in Nat
      /\ CopiesAreFaithful /\ ExportsAreOfOneMoment /\ kills \in Nat /\ DirectoriesAreClaimed /\ FewAtWork
  BY DEF ExportsInv, WorkspacesInv
<1>2. exports[e].at = "new" /\ UNCHANGED <<content, past, kills, changes>>
  BY DEF StartExport
<1>3. CASE exports' = [exports EXCEPT ![e].at = "refused"] /\ UNCHANGED <<workspaces, busy, claims>>
  <2>1. exports' = [exports EXCEPT ![e] = [exports[e] EXCEPT !.at = "refused"]]
    BY <1>3
  <2>2. [exports[e] EXCEPT !.at = "refused"] \in ExportRecords /\ [exports[e] EXCEPT !.at = "refused"].at = "refused"
    BY <1>1 DEF ExportRecords
  <2>3. exports' \in [Exports -> ExportRecords] /\ exports'[e].at = "refused" /\ \A d \in Exports \ {e} : exports'[d] = exports[d]
    BY <1>1, <2>1, <2>2
  <2>4. ExportsInv'
    BY <1>1, <1>2, <2>3 DEF ExportsInv, CopiesAreFaithful, ExportsAreOfOneMoment
  <2>5. WorkspacesInv'
    BY <1>1, <1>2, <1>3, <2>3 DEF WorkspacesInv, DirectoriesAreClaimed, FewAtWork
  <2> QED
    BY <2>4, <2>5
<1>4. CASE Cardinality(busy \cap Exports) < ExportsMost /\ AllocateExport(e)
  <2>1. PICK left \in SUBSET Stale(Exports), space \in BOOLEAN :
           /\ workspaces' = (workspaces \cap ((workspaces \ Exports) \cup busy \cup left)) \cup (IF space THEN {e} ELSE {})
           /\ claims' = (claims \cap ((workspaces \ Exports) \cup busy \cup left)) \cup (IF space THEN {e} ELSE {})
           /\ busy' = busy \cup (IF space THEN {e} ELSE {})
           /\ exports' = [exports EXCEPT ![e] = [at |-> IF space THEN "copying" ELSE "refused", seen |-> content, has |-> RowsRead]]
    BY <1>4 DEF AllocateExport
  <2>2. RowsRead \in [Exported -> Nat] /\ \A m \in Exported : RowsRead[m] = content[m] \/ (m \in Copies /\ RowsRead[m] = 0)
    BY <1>1 DEF RowsRead, Exported
  <2>3. PICK to \in {"copying", "refused"} : to = IF space THEN "copying" ELSE "refused"
    OBVIOUS
  <2>4. /\ exports' \in [Exports -> ExportRecords] /\ exports'[e].at = to /\ exports'[e].seen = content /\ exports'[e].has = RowsRead
        /\ \A d \in Exports \ {e} : exports'[d] = exports[d]
    BY <1>1, <2>1, <2>2, <2>3 DEF ExportRecords
  <2>5. ExportsInv'
    BY <1>1, <1>2, <2>2, <2>4 DEF ExportsInv, CopiesAreFaithful, ExportsAreOfOneMoment
  <2>6. DirectoriesAreClaimed'
    BY <1>1, <1>2, <2>1 DEF DirectoriesAreClaimed
  <2>7. FewAtWork'
    <3>1. CASE space
      <4>1. busy' = busy \cup {e} /\ e \notin Imports
        BY <2>1, <3>1, ImportConstants
      <4>2. \A d \in Exports : exports'[d].at \in {"copying", "sending"} => d \in busy'
        BY <1>1, <2>4, <4>1 DEF FewAtWork
      <4> QED
        BY <1>1, <1>4, <4>1, <4>2, OneMoreAtWork
    <3>2. CASE ~space
      <4>1. busy' = busy /\ to = "refused"
        BY <2>1, <2>3, <3>2
      <4>2. \A d \in Exports : exports'[d].at \in {"copying", "sending"} => d \in busy'
        BY <1>1, <2>4, <4>1 DEF FewAtWork
      <4> QED
        BY <1>1, <4>1, <4>2, FewStay
    <3> QED
      BY <3>1, <3>2
  <2> QED
    BY <1>1, <1>2, <2>5, <2>6, <2>7 DEF WorkspacesInv
<1> QED
  BY <1>3, <1>4 DEF StartExport

(* A member is the one that was taken down, or the copy ends. *)
LEMMA CopyMemberStep ==
    ASSUME ExportsInv, WorkspacesInv, NEW e \in Exports, NEW m \in Copies, CopyMember(e, m)
    PROVE  ExportsInv' /\ WorkspacesInv'
<1>1. /\ exports \in [Exports -> ExportRecords] /\ content \in [Exported -> Nat] /\ content \in past /\ changes \in Nat
      /\ CopiesAreFaithful /\ ExportsAreOfOneMoment /\ kills \in Nat /\ DirectoriesAreClaimed /\ FewAtWork
  BY DEF ExportsInv, WorkspacesInv
<1>2. /\ exports[e].at = "copying" /\ UNCHANGED <<content, past, workspaces, busy, claims, kills, changes>>
      /\ \/ content[m] = exports[e].seen[m] /\ exports' = [exports EXCEPT ![e].has[m] = content[m]]
         \/ exports' = [exports EXCEPT ![e].at = "ending"]
  BY DEF CopyMember
<1>3. m \in Exported /\ exports[e] \in ExportRecords
  BY <1>1 DEF Exported
<1>4. PICK x \in ExportRecords :
        /\ exports' = [exports EXCEPT ![e] = x]
        /\ \/ x.at = "ending"
           \/ x.at = "copying" /\ x.seen = exports[e].seen /\ x.has[m] = x.seen[m] /\ \A n \in Exported \ {m} : x.has[n] = exports[e].has[n]
  <2>1. CASE exports' = [exports EXCEPT ![e].at = "ending"]
    <3>1. exports' = [exports EXCEPT ![e] = [exports[e] EXCEPT !.at = "ending"]]
      BY <2>1
    <3>2. [exports[e] EXCEPT !.at = "ending"] \in ExportRecords /\ [exports[e] EXCEPT !.at = "ending"].at = "ending"
      BY <1>3 DEF ExportRecords
    <3> QED
      BY <3>1, <3>2
  <2>2. CASE content[m] = exports[e].seen[m] /\ exports' = [exports EXCEPT ![e].has[m] = content[m]]
    <3>1. PICK h \in [Exported -> Nat] : h = [exports[e].has EXCEPT ![m] = content[m]]
      BY <1>1, <1>3 DEF ExportRecords
    <3>2. h[m] = content[m] /\ \A n \in Exported \ {m} : h[n] = exports[e].has[n]
      BY <1>3, <3>1 DEF ExportRecords
    <3>3. exports' = [exports EXCEPT ![e] = [exports[e] EXCEPT !.has = h]]
      BY <2>2, <3>1
    <3>4. /\ [exports[e] EXCEPT !.has = h] \in ExportRecords /\ [exports[e] EXCEPT !.has = h].has = h
          /\ [exports[e] EXCEPT !.has = h].seen = exports[e].seen /\ [exports[e] EXCEPT !.has = h].at = exports[e].at
      BY <1>3, <3>1 DEF ExportRecords
    <3>5. PICK x \in ExportRecords : x = [exports[e] EXCEPT !.has = h]
      BY <3>4
    <3>6. x.at = "copying" /\ x.seen = exports[e].seen /\ x.has = h
      BY <1>2, <3>4, <3>5
    <3>7. exports' = [exports EXCEPT ![e] = x]
      BY <3>3, <3>5
    <3>8. x.has[m] = x.seen[m]
      BY <2>2, <3>2, <3>6
    <3>9. \A n \in Exported \ {m} : x.has[n] = exports[e].has[n]
      BY <3>2, <3>6
    <3>10. x \in ExportRecords
      BY <3>5
    <3> QED
      BY <3>6, <3>7, <3>8, <3>9, <3>10
  <2> QED
    BY <1>2, <2>1, <2>2
<1>5. exports' \in [Exports -> ExportRecords] /\ exports'[e] = x /\ \A d \in Exports \ {e} : exports'[d] = exports[d]
  BY <1>1, <1>4
<1>6. CopiesAreFaithful'
  <2> SUFFICES ASSUME NEW d \in Exports, exports'[d].at = "copying"
               PROVE  /\ exports'[d].seen \in past
                      /\ \A n \in Exported : exports'[d].has[n] = exports'[d].seen[n] \/ (n \in Copies /\ exports'[d].has[n] = 0)
    BY <1>2 DEF CopiesAreFaithful, Exported
  <2>1. CASE d # e
    BY <1>1, <1>5, <2>1 DEF CopiesAreFaithful
  <2>2. CASE d = e
    <3>1. x.seen = exports[e].seen /\ x.has[m] = x.seen[m] /\ \A n \in Exported \ {m} : x.has[n] = exports[e].has[n]
      BY <1>4, <1>5, <2>2
    <3>2. /\ exports[e].seen \in past
          /\ \A n \in Exported : exports[e].has[n] = exports[e].seen[n] \/ (n \in Copies /\ exports[e].has[n] = 0)
      BY <1>1, <1>2 DEF CopiesAreFaithful
    <3> QED
      BY <1>5, <2>2, <3>1, <3>2
  <2> QED
    BY <2>1, <2>2
<1>7. ExportsAreOfOneMoment'
  BY <1>1, <1>2, <1>4, <1>5 DEF ExportsAreOfOneMoment
<1>8. ExportsInv'
  BY <1>1, <1>2, <1>5, <1>6, <1>7 DEF ExportsInv
<1>9. FewAtWork'
  BY <1>1, <1>2, <1>5 DEF FewAtWork
<1> QED
  BY <1>1, <1>2, <1>8, <1>9 DEF WorkspacesInv, DirectoriesAreClaimed

(* What is delivered is all that was taken down. *)
LEMMA DeliverStep ==
    ASSUME ExportsInv, WorkspacesInv, NEW e \in Exports, Deliver(e)
    PROVE  ExportsInv' /\ WorkspacesInv'
<1>1. /\ exports \in [Exports -> ExportRecords] /\ content \in [Exported -> Nat] /\ content \in past /\ changes \in Nat
      /\ CopiesAreFaithful /\ ExportsAreOfOneMoment /\ kills \in Nat /\ DirectoriesAreClaimed /\ FewAtWork
  BY DEF ExportsInv, WorkspacesInv
<1>2. /\ exports[e].at = "copying" /\ UNCHANGED <<content, past, workspaces, busy, claims, kills, changes>>
      /\ \A m \in Copies : exports[e].has[m] # 0
  BY DEF Deliver
<1>3. PICK to \in {"sending", "ending"} : exports' = [exports EXCEPT ![e].at = to]
  BY DEF Deliver
<1>4. /\ exports' \in [Exports -> ExportRecords] /\ exports'[e].at = to /\ exports'[e].has = exports[e].has
      /\ \A d \in Exports \ {e} : exports'[d] = exports[d]
  <2>1. exports' = [exports EXCEPT ![e] = [exports[e] EXCEPT !.at = to]]
    BY <1>3
  <2>2. [exports[e] EXCEPT !.at = to] \in ExportRecords /\ [exports[e] EXCEPT !.at = to].at = to
        /\ [exports[e] EXCEPT !.at = to].has = exports[e].has
    BY <1>1 DEF ExportRecords
  <2> QED
    BY <1>1, <2>1, <2>2
<1>5. exports[e].has \in past
  <2>1. exports[e].seen \in past /\ \A m \in Exported : exports[e].has[m] = exports[e].seen[m]
    BY <1>1, <1>2 DEF CopiesAreFaithful
  <2>2. exports[e].seen \in [Exported -> Nat] /\ exports[e].has \in [Exported -> Nat]
    BY <1>1 DEF ExportRecords
  <2>3. exports[e].has = exports[e].seen
    BY <2>1, <2>2
  <2> QED
    BY <2>1, <2>3
<1>6. ExportsInv'
  BY <1>1, <1>2, <1>4, <1>5 DEF ExportsInv, CopiesAreFaithful, ExportsAreOfOneMoment
<1>7. FewAtWork'
  BY <1>1, <1>2, <1>4 DEF FewAtWork
<1> QED
  BY <1>1, <1>2, <1>6, <1>7 DEF WorkspacesInv, DirectoriesAreClaimed

LEMMA EndExportStep ==
    ASSUME ExportsInv, WorkspacesInv, NEW e \in Exports, EndExport(e)
    PROVE  ExportsInv' /\ WorkspacesInv'
<1>1. /\ exports \in [Exports -> ExportRecords] /\ content \in [Exported -> Nat] /\ content \in past /\ changes \in Nat
      /\ CopiesAreFaithful /\ ExportsAreOfOneMoment /\ kills \in Nat /\ DirectoriesAreClaimed /\ FewAtWork
  BY DEF ExportsInv, WorkspacesInv
<1>2. /\ exports[e].at \in {"sending", "ending"} /\ UNCHANGED <<content, past, kills, changes>>
      /\ Removed({e}) /\ busy' = busy \ {e}
  BY DEF EndExport, ClearWorkspace
<1>3. PICK to \in {"sent", "refused"} : to = IF exports[e].at = "sending" THEN "sent" ELSE "refused"
  OBVIOUS
<1>4. exports' = [exports EXCEPT ![e] = [exports[e] EXCEPT !.at = to]]
  BY <1>3 DEF EndExport
<1>5. /\ exports' \in [Exports -> ExportRecords] /\ exports'[e].at = to /\ exports'[e].has = exports[e].has
      /\ \A d \in Exports \ {e} : exports'[d] = exports[d]
  <2>1. [exports[e] EXCEPT !.at = to] \in ExportRecords /\ [exports[e] EXCEPT !.at = to].at = to
        /\ [exports[e] EXCEPT !.at = to].has = exports[e].has
    BY <1>1 DEF ExportRecords
  <2> QED
    BY <1>1, <1>4, <2>1
<1>6. ExportsInv'
  BY <1>1, <1>2, <1>3, <1>5 DEF ExportsInv, CopiesAreFaithful, ExportsAreOfOneMoment
<1>7. DirectoriesAreClaimed'
  <2>1. (busy \ {e}) \subseteq busy /\ (busy \ {e}) \cap {e} = {}
    OBVIOUS
  <2> QED
    BY <1>1, <1>2, <2>1, RemovedFacts
<1>8. FewAtWork'
  <2>1. busy' \subseteq busy /\ \A d \in Exports : exports'[d].at \in {"copying", "sending"} => d \in busy'
    BY <1>1, <1>2, <1>5 DEF FewAtWork
  <2> QED
    BY <1>1, <2>1, FewStay
<1> QED
  BY <1>1, <1>2, <1>6, <1>7, <1>8 DEF WorkspacesInv

LEMMA ChangeSourceStep ==
    ASSUME ExportsInv, NEW ms \in SUBSET Exported, ChangeSource(ms) PROVE ExportsInv'
<1>1. PICK gone \in SUBSET (ms \cap Copies) :
         content' = [m \in Exported |-> IF m \in gone THEN 0 ELSE IF m \in ms THEN changes + 1 ELSE content[m]]
  BY DEF ChangeSource
<1>2. changes' = changes + 1 /\ past' = past \cup {content'} /\ exports' = exports /\ changes \in Nat /\ content \in [Exported -> Nat]
  BY DEF ChangeSource, ExportsInv
<1>3. content' \in [Exported -> Nat]
  BY <1>1, <1>2
<1> QED
  BY <1>2, <1>3 DEF ExportsInv, CopiesAreFaithful, ExportsAreOfOneMoment, Exported

LEMMA KillExports == ASSUME ExportsInv, WorkspacesInv, Kill PROVE ExportsInv' /\ WorkspacesInv'
<1>1. /\ exports \in [Exports -> ExportRecords] /\ content \in [Exported -> Nat] /\ content \in past /\ changes \in Nat
      /\ CopiesAreFaithful /\ ExportsAreOfOneMoment /\ kills \in Nat
  BY DEF ExportsInv, WorkspacesInv
<1>2. /\ kills' = kills + 1 /\ busy' = {} /\ claims' = {} /\ UNCHANGED <<content, past, changes>>
      /\ exports' = [e \in Exports |-> IF exports[e].at \in {"new", "sent", "refused"} THEN exports[e]
                                       ELSE [exports[e] EXCEPT !.at = "refused"]]
  BY DEF Kill
<1>3. \A e \in Exports : /\ exports'[e] \in ExportRecords /\ exports'[e].at \in {"new", "sent", "refused"}
                         /\ exports'[e].at = "sent" => exports'[e] = exports[e]
  <2> SUFFICES ASSUME NEW e \in Exports
               PROVE  /\ exports'[e] \in ExportRecords /\ exports'[e].at \in {"new", "sent", "refused"}
                      /\ exports'[e].at = "sent" => exports'[e] = exports[e]
    OBVIOUS
  <2>1. CASE exports[e].at \in {"new", "sent", "refused"}
    BY <1>1, <1>2, <2>1
  <2>2. CASE exports[e].at \notin {"new", "sent", "refused"}
    <3>1. exports'[e] = [exports[e] EXCEPT !.at = "refused"]
      BY <1>2, <2>2
    <3> QED
      BY <1>1, <3>1 DEF ExportRecords
  <2> QED
    BY <2>1, <2>2
<1>4. exports' \in [Exports -> ExportRecords]
  BY <1>2, <1>3
<1>5. ExportsInv'
  BY <1>1, <1>2, <1>3, <1>4 DEF ExportsInv, CopiesAreFaithful, ExportsAreOfOneMoment
<1>6. DirectoriesAreClaimed' /\ kills' \in Nat
  BY <1>1, <1>2 DEF DirectoriesAreClaimed
<1>7. FewAtWork'
  <2>1. busy' \subseteq busy /\ \A d \in Exports : exports'[d].at \notin {"copying", "sending"}
    BY <1>2, <1>3
  <2> QED
    BY <2>1, FewStay DEF WorkspacesInv
<1> QED
  BY <1>5, <1>6, <1>7 DEF WorkspacesInv

(* Every step keeps copies faithful and directories claimed. *)
THEOREM ExportsStep == ExportsInv /\ WorkspacesInv /\ [ArchivesNext]_archiveVars => ExportsInv' /\ WorkspacesInv'
<1> SUFFICES ASSUME ExportsInv, WorkspacesInv, [ArchivesNext]_archiveVars PROVE ExportsInv' /\ WorkspacesInv'
  OBVIOUS
<1>1. ASSUME UNCHANGED exportVars PROVE ExportsInv'
  BY <1>1 DEF exportVars, ExportsInv, CopiesAreFaithful, ExportsAreOfOneMoment
<1>2. ASSUME UNCHANGED <<exports, workspaces, busy, claims, kills>> PROVE WorkspacesInv'
  BY <1>2 DEF WorkspacesInv, DirectoriesAreClaimed, FewAtWork
<1>3. ASSUME NEW i \in Imports,
             InspectImport(i) \/ RefuseImport(i) \/ AllocateImport(i) \/ Prepare(i) \/ PublishImport(i) \/ Commit(i)
             \/ SettleImport(i) \/ CleanupImport(i)
      PROVE  ExportsInv' /\ WorkspacesInv'
  <2>1. UNCHANGED exportVars
    BY <1>3 DEF InspectImport, RefuseImport, AllocateImport, Prepare, PublishImport, TakesName, Commit, SettleImport, CleanupImport
  <2> QED
    BY <1>1, <1>3, <2>1, ImportsBesideExports
<1>4. ASSUME NEW p \in ImportedProfiles, DeleteProfile(p) PROVE ExportsInv' /\ WorkspacesInv'
  BY <1>1, <1>2, <1>4 DEF DeleteProfile, exportVars
<1>5. ASSUME NEW ms \in SUBSET Exported, ChangeSource(ms) PROVE ExportsInv' /\ WorkspacesInv'
  BY <1>2, <1>5, ChangeSourceStep DEF ChangeSource
<1>6. ASSUME NEW e \in Exports, StartExport(e) \/ Deliver(e) \/ EndExport(e) PROVE ExportsInv' /\ WorkspacesInv'
  BY <1>6, StartExportStep, DeliverStep, EndExportStep
<1>7. ASSUME NEW e \in Exports, NEW m \in Copies, CopyMember(e, m) PROVE ExportsInv' /\ WorkspacesInv'
  BY <1>7, CopyMemberStep
<1>8. CASE Kill
  BY <1>8, KillExports
<1>9. CASE UNCHANGED archiveVars
  BY <1>1, <1>2, <1>9 DEF archiveVars, exportVars
<1> QED
  BY <1>3, <1>4, <1>5, <1>6, <1>7, <1>8, <1>9 DEF ArchivesNext, ImportsNext, ExportsNext

(* An archive that is sent is of one moment, from a directory whose lease   *)
(* is held.                                                                 *)
THEOREM ExportsAlwaysSound == ArchivesSpec => []ExportsAreSound
<1>1. ExportsInv /\ WorkspacesInv => ExportsAreSound
  BY DEF ExportsInv, WorkspacesInv, DirectoriesAreClaimed, FewAtWork, ExportsAreSound, WorkspacesAreClaimed
<1> QED
  BY <1>1, ExportsInit, ExportsStep, PTL DEF ArchivesSpec

-----------------------------------------------------------------------------
(* The install of a backend (backend_archive.py, cuda.py).                  *)

LiveDir == dirs["live"]
StagingDir == dirs["staging"]
BackupDir == dirs["backup"]

Unlink == <<"unlink">>
Fetches(needServer, needLibs) ==
    (IF needServer THEN << <<"server">> >> ELSE <<>>) \o (IF needLibs THEN << <<"libs">>, <<"mark">> >> ELSE <<>>)

(* What may become installed is whole, unless a deletion tore it: the live  *)
(* directory, or, where that one is not valid, the two that recovery looks  *)
(* at next.                                                                 *)
Trusted(d) == Valid(d) => cut \/ Whole(d)
SparesHold ==
    /\ Trusted(LiveDir)
    /\ ~Valid(LiveDir) => Trusted(BackupDir) /\ (journal => Trusted(StagingDir))

Clean == StagingDir = Absent /\ BackupDir = Absent /\ ~journal
Bare(d) == d \in {Absent, Empty}

(* Nothing to recover and nothing that says so. *)
NothingLeft == Bare(LiveDir) /\ ~Valid(BackupDir) /\ ~journal

(* For every call recover_backend_install has still to make, what there is. *)
FromLive(plan) ==
    \/ plan = <<Rm("staging"), Rm("backup"), Unlink>>
    \/ plan = <<Rm("backup"), Unlink>> /\ StagingDir = Absent
    \/ plan = <<Unlink>> /\ StagingDir = Absent /\ BackupDir = Absent
Recovering(plan) ==
    \/ FromLive(plan) /\ (Valid(LiveDir) \/ NothingLeft)
    \/ plan = <<>> /\ Clean /\ (Valid(LiveDir) \/ Bare(LiveDir))
    \/ /\ journal /\ Valid(StagingDir) /\ ~Valid(LiveDir)
       /\ \/ plan = <<Rm("live"), Move("staging", "live"), Rm("backup"), Unlink>>
          \/ plan = <<Move("staging", "live"), Rm("backup"), Unlink>> /\ Bare(LiveDir)
    \/ /\ Valid(BackupDir) /\ ~Valid(LiveDir) /\ ~(journal /\ Valid(StagingDir))
       /\ \/ plan = <<Rm("live"), Rm("staging"), Move("backup", "live"), Unlink>>
          \/ plan = <<Rm("staging"), Move("backup", "live"), Unlink>> /\ Bare(LiveDir)
          \/ plan = <<Move("backup", "live"), Unlink>> /\ Bare(LiveDir) /\ StagingDir = Absent
    \/ /\ ~Valid(LiveDir) /\ ~Valid(BackupDir) /\ ~journal
       /\ plan = <<Rm("live"), Rm("staging"), Rm("backup"), Unlink>>

(* ... a commit ...                                                         *)
Ready(d) == Valid(d) /\ Trusted(d) /\ d.exe = Current /\ d.mark = Current
Committing(plan) ==
    \/ plan = CommitPlan /\ BackupDir = Absent /\ ~journal /\ Ready(StagingDir) /\ LiveDir # Absent
    \/ /\ plan = <<Move("live", "backup"), Move("staging", "live"), Rm("backup"), Unlink>>
       /\ BackupDir = Absent /\ journal /\ Ready(StagingDir) /\ LiveDir # Absent
    \/ plan = <<Move("staging", "live"), Rm("backup"), Unlink>> /\ journal /\ Ready(StagingDir) /\ Bare(LiveDir)
    \/ plan = <<Rm("backup"), Unlink>> /\ Valid(LiveDir) /\ StagingDir = Absent
    \/ plan = <<Unlink>> /\ Valid(LiveDir) /\ StagingDir = Absent /\ BackupDir = Absent
    \/ plan = <<>> /\ Clean /\ Valid(LiveDir)

(* ... a staging copy ...                                                   *)
ServerIn(d) == d.exe = Current /\ (cut \/ d.body = Current)
LibsIn(d) == d.mark = Current /\ (cut \/ d.libs = Current)
Uncommitted == BackupDir = Absent /\ ~journal /\ (Valid(LiveDir) \/ LiveDir = Empty)
Copied(plan) ==
    \/ \E l \in BOOLEAN : plan = Fetches(TRUE, l) /\ (l \/ LibsIn(StagingDir))
    \/ plan = << <<"libs">>, <<"mark">> >> /\ ServerIn(StagingDir)
    \/ plan = << <<"mark">> >> /\ ServerIn(StagingDir) /\ StagingDir.libs = Current
    \/ plan = <<>> /\ ServerIn(StagingDir) /\ LibsIn(StagingDir)
Copying(plan) ==
    /\ Uncommitted
    /\ \/ \E s, l \in BOOLEAN :
             /\ plan = StagePlan(s, l) \/ plan = << <<"copy">> >> \o Fetches(s, l)
             /\ (s \/ LiveDir.exe = Current) /\ (l \/ LiveDir.mark = Current)
       \/ StagingDir # Absent /\ Copied(plan)

(* ... a deletion and the removal of a copy.                                *)
Removing(plan) ==
    \/ plan = DeletePlan
    \/ plan = <<Rm("backup"), Rm("live"), Unlink>> /\ StagingDir = Absent
    \/ plan = <<Rm("live"), Unlink>> /\ StagingDir = Absent /\ BackupDir = Absent
    \/ plan = <<Unlink>> /\ StagingDir = Absent /\ BackupDir = Absent /\ ~Valid(LiveDir)
    \/ plan = <<>> /\ Clean
Unstaging(plan) ==
    /\ leftover \/ (BackupDir = Absent /\ ~journal)
    /\ plan = Cleanup \/ (plan = <<>> /\ StagingDir = Absent)

PhaseHolds(phase, plan) ==
    /\ phase # "idle"
    /\ phase \in {"recovery", "check", "prepare", "undo"} => Recovering(plan)
    /\ phase \in {"check", "prepare", "finished"} => leftover \/ Clean
    /\ phase \in {"refused", "raised", "finished"} => plan = <<>>
    /\ phase \in {"recovery", "refused"} <=> server = "booting"
    /\ phase = "stage" => Copying(plan)
    /\ phase = "commit" => Committing(plan)
    /\ phase = "delete" => Removing(plan)
    /\ phase = "cleanup" => Unstaging(plan)
    /\ selfHosted => phase \in {"recovery", "refused"} /\ (plan = <<>> \/ FromLive(plan))

InstallInv ==
    /\ TypeOK
    /\ op = [o \in Ops |-> [phase |-> op[o].phase, plan |-> op[o].plan]]
    /\ SparesHold /\ QuietIsClean
    /\ selfHosted => Valid(LiveDir)
    /\ \A o \in Ops : op[o] # Idle => PhaseHolds(op[o].phase, op[o].plan)

Does(call) == dirs' = After(call) /\ journal' = JournalAfter(call)

(* Directories: valid, whole, bare, torn.                                   *)
LEMMA DirFacts ==
    /\ Empty \in Dir /\ Empty # Absent
    /\ ~Valid(Absent) /\ ~Valid(Empty)
    /\ \A d : (Bare(d) => ~Valid(d)) /\ (Whole(d) => Valid(d))
BY AbsentAssumption DEF Empty, Dir, Versions, Gone, Valid, Bare, Whole

LEMMA LoseFacts ==
    ASSUME NEW d \in Dir, NEW S \in SUBSET Parts
    PROVE  Lose(d, S) \in Dir /\ (Valid(Lose(d, S)) => Valid(d))
BY AbsentAssumption DEF Lose, Dir, Parts, Versions, Gone, Valid

LEMMA StoreIs ==
    ASSUME dirs \in [{"live", "staging", "backup"} -> Dir \cup {Absent}]
    PROVE  {LiveDir, StagingDir, BackupDir} \subseteq Dir \cup {Absent}
BY DEF LiveDir, StagingDir, BackupDir

LEMMA InstalledIs ==
    Installed = IF Valid(LiveDir) THEN LiveDir
                ELSE IF journal /\ Valid(StagingDir) THEN StagingDir
                ELSE IF Valid(BackupDir) THEN BackupDir ELSE Absent
BY DEF Installed, LiveDir, StagingDir, BackupDir

LEMMA InstalledNextIs ==
    Installed' = IF Valid(LiveDir') THEN LiveDir'
                 ELSE IF journal' /\ Valid(StagingDir') THEN StagingDir'
                 ELSE IF Valid(BackupDir') THEN BackupDir' ELSE Absent
BY DEF Installed, LiveDir, StagingDir, BackupDir

Dirs == [{"live", "staging", "backup"} -> Dir \cup {Absent}]

(* What each filesystem call does to the three directories and the journal. *)
LEMMA RmDoes ==
    ASSUME dirs \in Dirs
    PROVE  /\ Does(Rm("live")) =>
                /\ dirs' \in Dirs /\ journal' = journal
                /\ LiveDir' = Absent /\ StagingDir' = StagingDir /\ BackupDir' = BackupDir
           /\ Does(Rm("staging")) =>
                /\ dirs' \in Dirs /\ journal' = journal
                /\ LiveDir' = LiveDir /\ StagingDir' = Absent /\ BackupDir' = BackupDir
           /\ Does(Rm("backup")) =>
                /\ dirs' \in Dirs /\ journal' = journal
                /\ LiveDir' = LiveDir /\ StagingDir' = StagingDir /\ BackupDir' = Absent
BY DEF Does, Dirs, Rm, After, JournalAfter, LiveDir, StagingDir, BackupDir

LEMMA MoveDoes ==
    ASSUME dirs \in Dirs
    PROVE  /\ Does(Move("staging", "live")) =>
                /\ dirs' \in Dirs /\ journal' = journal /\ BackupDir' = BackupDir
                /\ StagingDir # Absent => LiveDir' = StagingDir /\ StagingDir' = Absent
                /\ StagingDir = Absent => LiveDir' = LiveDir /\ StagingDir' = Absent
           /\ Does(Move("backup", "live")) =>
                /\ dirs' \in Dirs /\ journal' = journal /\ StagingDir' = StagingDir
                /\ BackupDir # Absent => LiveDir' = BackupDir /\ BackupDir' = Absent
                /\ BackupDir = Absent => LiveDir' = LiveDir /\ BackupDir' = Absent
           /\ Does(Move("live", "backup")) =>
                /\ dirs' \in Dirs /\ journal' = journal /\ StagingDir' = StagingDir
                /\ LiveDir # Absent => BackupDir' = LiveDir /\ LiveDir' = Absent
BY DEF Does, Dirs, Move, After, JournalAfter, LiveDir, StagingDir, BackupDir

LEMMA JournalDoes ==
    ASSUME dirs \in Dirs
    PROVE  /\ Does(<<"journal">>) =>
                /\ dirs' \in Dirs /\ journal' = TRUE
                /\ LiveDir' = LiveDir /\ StagingDir' = StagingDir /\ BackupDir' = BackupDir
           /\ Does(Unlink) =>
                /\ dirs' \in Dirs /\ journal' = FALSE
                /\ LiveDir' = LiveDir /\ StagingDir' = StagingDir /\ BackupDir' = BackupDir
BY DEF Does, Dirs, Unlink, After, JournalAfter, LiveDir, StagingDir, BackupDir

LEMMA MadeIs ==
    ASSUME NEW d \in Dir \cup {Absent}
    PROVE  /\ Made(d) \in Dir /\ Made(d) # Absent /\ (Valid(Made(d)) <=> Valid(d))
           /\ d # Absent => Made(d) = d
           /\ d = Absent => Made(d) = Empty
BY DirFacts, AbsentAssumption DEF Made

LEMMA CopyDoes ==
    ASSUME dirs \in Dirs, Does(<<"copy">>)
    PROVE  /\ dirs' \in Dirs /\ journal' = journal
           /\ LiveDir' = LiveDir /\ StagingDir' = Made(LiveDir) /\ BackupDir' = BackupDir
<1>1. Made(LiveDir) \in Dir
  BY StoreIs, MadeIs DEF Dirs
<1> QED
  BY <1>1 DEF Does, Dirs, After, JournalAfter, LiveDir, StagingDir, BackupDir

LEMMA FetchDoes ==
    ASSUME dirs \in Dirs, StagingDir # Absent
    PROVE  /\ Does(<<"server">>) =>
                /\ dirs' \in Dirs /\ journal' = journal /\ LiveDir' = LiveDir /\ BackupDir' = BackupDir
                /\ StagingDir' = [StagingDir EXCEPT !.exe = Current, !.body = Current]
           /\ Does(<<"libs">>) =>
                /\ dirs' \in Dirs /\ journal' = journal /\ LiveDir' = LiveDir /\ BackupDir' = BackupDir
                /\ StagingDir' = [StagingDir EXCEPT !.libs = Current]
           /\ Does(<<"mark">>) =>
                /\ dirs' \in Dirs /\ journal' = journal /\ LiveDir' = LiveDir /\ BackupDir' = BackupDir
                /\ StagingDir' = [StagingDir EXCEPT !.mark = Current]
<1>1. StagingDir \in Dir
  BY StoreIs DEF Dirs
<1>2. /\ [StagingDir EXCEPT !.exe = Current, !.body = Current] \in Dir
      /\ [StagingDir EXCEPT !.libs = Current] \in Dir
      /\ [StagingDir EXCEPT !.mark = Current] \in Dir
  BY <1>1 DEF Dir, Versions
<1>3. Does(<<"server">>) =>
        /\ dirs' \in Dirs /\ journal' = journal /\ LiveDir' = LiveDir /\ BackupDir' = BackupDir
        /\ StagingDir' = [StagingDir EXCEPT !.exe = Current, !.body = Current]
  <2> SUFFICES ASSUME Does(<<"server">>)
               PROVE  /\ dirs' \in Dirs /\ journal' = journal /\ LiveDir' = LiveDir /\ BackupDir' = BackupDir
                      /\ StagingDir' = [StagingDir EXCEPT !.exe = Current, !.body = Current]
    OBVIOUS
  <2>1. dirs' = [dirs EXCEPT !["staging"] = [StagingDir EXCEPT !.exe = Current, !.body = Current]] /\ journal' = journal
    BY DEF Does, Dirs, After, JournalAfter, StagingDir
  <2> QED
    BY <1>2, <2>1 DEF Dirs, LiveDir, StagingDir, BackupDir
<1>4. Does(<<"libs">>) =>
        /\ dirs' \in Dirs /\ journal' = journal /\ LiveDir' = LiveDir /\ BackupDir' = BackupDir
        /\ StagingDir' = [StagingDir EXCEPT !.libs = Current]
  <2> SUFFICES ASSUME Does(<<"libs">>)
               PROVE  /\ dirs' \in Dirs /\ journal' = journal /\ LiveDir' = LiveDir /\ BackupDir' = BackupDir
                      /\ StagingDir' = [StagingDir EXCEPT !.libs = Current]
    OBVIOUS
  <2>1. dirs' = [dirs EXCEPT !["staging"] = [StagingDir EXCEPT !.libs = Current]] /\ journal' = journal
    BY DEF Does, Dirs, After, JournalAfter, StagingDir
  <2> QED
    BY <1>2, <2>1 DEF Dirs, LiveDir, StagingDir, BackupDir
<1>5. Does(<<"mark">>) =>
        /\ dirs' \in Dirs /\ journal' = journal /\ LiveDir' = LiveDir /\ BackupDir' = BackupDir
        /\ StagingDir' = [StagingDir EXCEPT !.mark = Current]
  <2> SUFFICES ASSUME Does(<<"mark">>)
               PROVE  /\ dirs' \in Dirs /\ journal' = journal /\ LiveDir' = LiveDir /\ BackupDir' = BackupDir
                      /\ StagingDir' = [StagingDir EXCEPT !.mark = Current]
    OBVIOUS
  <2>1. dirs' = [dirs EXCEPT !["staging"] = [StagingDir EXCEPT !.mark = Current]] /\ journal' = journal
    BY DEF Does, Dirs, After, JournalAfter, StagingDir
  <2> QED
    BY <1>2, <2>1 DEF Dirs, LiveDir, StagingDir, BackupDir
<1> QED
  BY <1>3, <1>4, <1>5

Tears(call) == dirs' \in Torn(call) \ {dirs} /\ journal' = journal

(* ... and what it leaves when it is cut short.                             *)
LEMMA RmTears ==
    ASSUME dirs \in Dirs
    PROVE  /\ Tears(Rm("live")) =>
                /\ dirs' \in Dirs /\ StagingDir' = StagingDir /\ BackupDir' = BackupDir
                /\ Valid(LiveDir') => Valid(LiveDir)
           /\ Tears(Rm("staging")) =>
                /\ dirs' \in Dirs /\ LiveDir' = LiveDir /\ BackupDir' = BackupDir
                /\ StagingDir # Absent /\ StagingDir' # StagingDir
                /\ Valid(StagingDir') => Valid(StagingDir)
           /\ Tears(Rm("backup")) =>
                /\ dirs' \in Dirs /\ LiveDir' = LiveDir /\ StagingDir' = StagingDir
                /\ BackupDir # Absent /\ BackupDir' # BackupDir
                /\ Valid(BackupDir') => Valid(BackupDir)
<1>1. ASSUME NEW d \in {"live", "staging", "backup"}, Tears(Rm(d))
      PROVE  /\ dirs[d] \in Dir /\ dirs'[d] # dirs[d]
             /\ \E S \in SUBSET Parts : dirs' = [dirs EXCEPT ![d] = Lose(dirs[d], S)]
  <2>1. Rm(d)[1] = "rm" /\ Rm(d)[2] = d
    BY DEF Rm
  <2>2. dirs[d] # Absent /\ dirs' # dirs /\ \E S \in SUBSET Parts : dirs' = [dirs EXCEPT ![d] = Lose(dirs[d], S)]
    <3>1. dirs' \in Torn(Rm(d)) /\ dirs' # dirs
      BY <1>1 DEF Tears
    <3>2. dirs[d] # Absent
      BY <2>1, <3>1 DEF Torn
    <3>3. dirs' \in {[dirs EXCEPT ![d] = Lose(@, S)] : S \in SUBSET Parts}
      BY <2>1, <3>1, <3>2 DEF Torn
    <3> QED
      BY <3>1, <3>2, <3>3
  <2>3. dirs[d] \in Dir
    BY <2>2 DEF Dirs
  <2>4. dirs'[d] # dirs[d]
    <3>1. PICK S \in SUBSET Parts : dirs' = [dirs EXCEPT ![d] = Lose(dirs[d], S)]
      BY <2>2
    <3>2. Lose(dirs[d], S) = dirs[d] => dirs' = dirs
      BY <3>1 DEF Dirs
    <3>3. dirs'[d] = Lose(dirs[d], S)
      BY <3>1 DEF Dirs
    <3> QED
      BY <2>2, <3>2, <3>3
  <2> QED
    BY <2>2, <2>3, <2>4
<1>2. ASSUME NEW d \in {"live", "staging", "backup"}, Tears(Rm(d))
      PROVE  /\ dirs' \in Dirs /\ dirs'[d] # dirs[d] /\ dirs[d] # Absent
             /\ \A e \in {"live", "staging", "backup"} \ {d} : dirs'[e] = dirs[e]
             /\ Valid(dirs'[d]) => Valid(dirs[d])
  <2>1. PICK S \in SUBSET Parts : dirs' = [dirs EXCEPT ![d] = Lose(dirs[d], S)]
    BY <1>1, <1>2
  <2>2. dirs[d] \in Dir /\ dirs'[d] # dirs[d]
    BY <1>1, <1>2
  <2>3. Lose(dirs[d], S) \in Dir /\ (Valid(Lose(dirs[d], S)) => Valid(dirs[d]))
    BY <2>2, LoseFacts
  <2> QED
    BY <2>1, <2>2, <2>3, AbsentAssumption DEF Dirs
<1> QED
  BY <1>2 DEF LiveDir, StagingDir, BackupDir

LEMMA CopyTears ==
    ASSUME dirs \in Dirs, Tears(<<"copy">>)
    PROVE  dirs' \in Dirs /\ LiveDir' = LiveDir /\ BackupDir' = BackupDir
<1>1. PICK S \in SUBSET Parts : dirs' = [dirs EXCEPT !["staging"] = Lose(Made(dirs["live"]), S)]
  BY DEF Tears, Torn
<1>2. Made(LiveDir) \in Dir
  BY StoreIs, MadeIs DEF Dirs
<1>3. Lose(Made(LiveDir), S) \in Dir
  BY <1>2, LoseFacts
<1> QED
  BY <1>1, <1>3 DEF Dirs, LiveDir, StagingDir, BackupDir

LEMMA FetchTears ==
    ASSUME dirs \in Dirs, StagingDir # Absent
    PROVE  /\ Tears(<<"server">>) =>
                /\ dirs' \in Dirs /\ LiveDir' = LiveDir /\ BackupDir' = BackupDir /\ StagingDir' # Absent
                /\ StagingDir'.libs = StagingDir.libs /\ StagingDir'.mark = StagingDir.mark
           /\ Tears(<<"libs">>) =>
                /\ dirs' \in Dirs /\ LiveDir' = LiveDir /\ BackupDir' = BackupDir /\ StagingDir' # Absent
                /\ StagingDir'.exe = StagingDir.exe /\ StagingDir'.body = StagingDir.body
<1>1. StagingDir \in Dir
  BY StoreIs DEF Dirs
<1>2. Tears(<<"server">>) =>
        /\ dirs' \in Dirs /\ LiveDir' = LiveDir /\ BackupDir' = BackupDir /\ StagingDir' # Absent
        /\ StagingDir'.libs = StagingDir.libs /\ StagingDir'.mark = StagingDir.mark
  <2> SUFFICES ASSUME Tears(<<"server">>)
               PROVE  /\ dirs' \in Dirs /\ LiveDir' = LiveDir /\ BackupDir' = BackupDir /\ StagingDir' # Absent
                      /\ StagingDir'.libs = StagingDir.libs /\ StagingDir'.mark = StagingDir.mark
    OBVIOUS
  <2>1. PICK v \in {Current, StagingDir.exe} :
          dirs' = [dirs EXCEPT !["staging"] = [StagingDir EXCEPT !.exe = v, !.body = Gone]]
    BY DEF Tears, Torn, Dirs, StagingDir
  <2>2. [StagingDir EXCEPT !.exe = v, !.body = Gone] \in Dir
    BY <1>1 DEF Dir, Versions
  <2>3. StagingDir' = [StagingDir EXCEPT !.exe = v, !.body = Gone]
    BY <2>1 DEF Dirs, StagingDir
  <2>4. StagingDir'.libs = StagingDir.libs /\ StagingDir'.mark = StagingDir.mark
    BY <1>1, <2>3 DEF Dir
  <2> QED
    BY <2>1, <2>2, <2>3, <2>4, AbsentAssumption DEF Dirs, LiveDir, BackupDir
<1>3. Tears(<<"libs">>) =>
        /\ dirs' \in Dirs /\ LiveDir' = LiveDir /\ BackupDir' = BackupDir /\ StagingDir' # Absent
        /\ StagingDir'.exe = StagingDir.exe /\ StagingDir'.body = StagingDir.body
  <2> SUFFICES ASSUME Tears(<<"libs">>)
               PROVE  /\ dirs' \in Dirs /\ LiveDir' = LiveDir /\ BackupDir' = BackupDir /\ StagingDir' # Absent
                      /\ StagingDir'.exe = StagingDir.exe /\ StagingDir'.body = StagingDir.body
    OBVIOUS
  <2>1. dirs' = [dirs EXCEPT !["staging"] = [StagingDir EXCEPT !.libs = Gone]]
    BY DEF Tears, Torn, Dirs, StagingDir
  <2>2. [StagingDir EXCEPT !.libs = Gone] \in Dir
    BY <1>1 DEF Dir, Versions
  <2>3. StagingDir' = [StagingDir EXCEPT !.libs = Gone]
    BY <2>1 DEF Dirs, StagingDir
  <2>4. StagingDir'.exe = StagingDir.exe /\ StagingDir'.body = StagingDir.body
    BY <1>1, <2>3 DEF Dir
  <2> QED
    BY <2>1, <2>2, <2>3, <2>4, AbsentAssumption DEF Dirs, LiveDir, BackupDir
<1> QED
  BY <1>2, <1>3

(* Nothing else is cut short.                                               *)
LEMMA OthersDoNotTear ==
    /\ ~Tears(Unlink) /\ ~Tears(<<"journal">>) /\ ~Tears(<<"mark">>)
    /\ ~Tears(Move("live", "backup")) /\ ~Tears(Move("staging", "live")) /\ ~Tears(Move("backup", "live"))
BY DEF Tears, Torn, Unlink, Move

LEMMA RecoveringPlanIs ==
    ASSUME ~Unrecoverable
    PROVE  Recovering(RecoverPlan) /\ (Valid(LiveDir) => FromLive(RecoverPlan))
BY DEF Unrecoverable, RecoverPlan, Recovering, FromLive, LiveDir, StagingDir, BackupDir, Unlink

(* What no call of a recovery changes: what is installed.                   *)
RecoveryKeeps(p) ==
    /\ dirs' \in Dirs /\ journal' \in BOOLEAN /\ SparesHold' /\ Installed' = Installed
    /\ Clean => Clean'
    /\ FromLive(p) => LiveDir' = LiveDir

LEMMA RecoveryStep ==
    ASSUME dirs \in Dirs, journal \in BOOLEAN, SparesHold, cut' = cut,
           NEW p, Recovering(p), p # <<>>, Does(Head(p))
    PROVE  /\ RecoveryKeeps(p) /\ Recovering(Tail(p))'
           /\ FromLive(p) => Tail(p) = <<>> \/ FromLive(Tail(p))'
<1> USE DirFacts
<1>1. CASE p = <<Rm("staging"), Rm("backup"), Unlink>> /\ (Valid(LiveDir) \/ NothingLeft)
  <2>1. Head(p) = Rm("staging") /\ Tail(p) = <<Rm("backup"), Unlink>>
    BY <1>1
  <2>2. Does(Rm("staging"))
    BY <2>1
  <2>3. RecoveryKeeps(p)
    BY <1>1, <2>2, RmDoes, InstalledIs, InstalledNextIs DEF RecoveryKeeps, SparesHold, Trusted, Clean, NothingLeft
  <2>4. Recovering(Tail(p))'
    BY <1>1, <2>1, <2>2, RmDoes DEF Recovering, FromLive, NothingLeft, Clean, Bare, Trusted
  <2>5. Tail(p) = <<>> \/ FromLive(Tail(p))'
    BY <1>1, <2>1, <2>2, RmDoes DEF FromLive
  <2> QED
    BY <2>3, <2>4, <2>5
<1>2. CASE p = <<Rm("backup"), Unlink>> /\ StagingDir = Absent /\ (Valid(LiveDir) \/ NothingLeft)
  <2>1. Head(p) = Rm("backup") /\ Tail(p) = <<Unlink>>
    BY <1>2
  <2>2. Does(Rm("backup"))
    BY <2>1
  <2>3. RecoveryKeeps(p)
    BY <1>2, <2>2, RmDoes, InstalledIs, InstalledNextIs DEF RecoveryKeeps, SparesHold, Trusted, Clean, NothingLeft
  <2>4. Recovering(Tail(p))'
    BY <1>2, <2>1, <2>2, RmDoes DEF Recovering, FromLive, NothingLeft, Clean, Bare, Trusted
  <2>5. Tail(p) = <<>> \/ FromLive(Tail(p))'
    BY <1>2, <2>1, <2>2, RmDoes DEF FromLive
  <2> QED
    BY <2>3, <2>4, <2>5
<1>3. CASE p = <<Unlink>> /\ StagingDir = Absent /\ BackupDir = Absent /\ (Valid(LiveDir) \/ NothingLeft)
  <2>1. Head(p) = Unlink /\ Tail(p) = <<>>
    BY <1>3
  <2>2. Does(Unlink)
    BY <2>1
  <2>3. RecoveryKeeps(p)
    BY <1>3, <2>2, JournalDoes, InstalledIs, InstalledNextIs DEF RecoveryKeeps, SparesHold, Trusted, Clean, NothingLeft
  <2>4. Recovering(Tail(p))'
    BY <1>3, <2>1, <2>2, JournalDoes DEF Recovering, FromLive, NothingLeft, Clean, Bare, Trusted
  <2>5. Tail(p) = <<>> \/ FromLive(Tail(p))'
    BY <1>3, <2>1, <2>2, JournalDoes DEF FromLive
  <2> QED
    BY <2>3, <2>4, <2>5
<1>4. CASE p = <<Rm("live"), Move("staging", "live"), Rm("backup"), Unlink>> /\ journal /\ Valid(StagingDir) /\ ~Valid(LiveDir)
  <2>1. Head(p) = Rm("live") /\ Tail(p) = <<Move("staging", "live"), Rm("backup"), Unlink>>
    BY <1>4
  <2>2. Does(Rm("live"))
    BY <2>1
  <2>3. ~FromLive(p)
    BY <1>4 DEF FromLive, Rm, Move, Unlink
  <2>4. RecoveryKeeps(p)
    BY <1>4, <2>2, RmDoes, InstalledIs, InstalledNextIs, <2>3 DEF RecoveryKeeps, SparesHold, Trusted, Clean, NothingLeft
  <2>5. Recovering(Tail(p))'
    BY <1>4, <2>1, <2>2, RmDoes DEF Recovering, FromLive, NothingLeft, Clean, Bare, Trusted
  <2> QED
    BY <2>4, <2>5, <2>3
<1>5. CASE p = <<Move("staging", "live"), Rm("backup"), Unlink>> /\ Bare(LiveDir) /\ journal /\ Valid(StagingDir) /\ ~Valid(LiveDir)
  <2>1. Head(p) = Move("staging", "live") /\ Tail(p) = <<Rm("backup"), Unlink>>
    BY <1>5
  <2>2. Does(Move("staging", "live"))
    BY <2>1
  <2>3. ~FromLive(p)
    BY <1>5 DEF FromLive, Rm, Move, Unlink
  <2>4. RecoveryKeeps(p)
    BY <1>5, <2>2, MoveDoes, InstalledIs, InstalledNextIs, <2>3 DEF RecoveryKeeps, SparesHold, Trusted, Clean, NothingLeft
  <2>5. Recovering(Tail(p))'
    BY <1>5, <2>1, <2>2, MoveDoes DEF Recovering, FromLive, NothingLeft, Clean, Bare, Trusted
  <2> QED
    BY <2>4, <2>5, <2>3
<1>6. CASE p = <<Rm("live"), Rm("staging"), Move("backup", "live"), Unlink>> /\ Valid(BackupDir) /\ ~Valid(LiveDir) /\ ~(journal /\ Valid(StagingDir))
  <2>1. Head(p) = Rm("live") /\ Tail(p) = <<Rm("staging"), Move("backup", "live"), Unlink>>
    BY <1>6
  <2>2. Does(Rm("live"))
    BY <2>1
  <2>3. ~FromLive(p)
    BY <1>6 DEF FromLive, Rm, Move, Unlink
  <2>4. RecoveryKeeps(p)
    BY <1>6, <2>2, RmDoes, InstalledIs, InstalledNextIs, <2>3 DEF RecoveryKeeps, SparesHold, Trusted, Clean, NothingLeft
  <2>5. Recovering(Tail(p))'
    BY <1>6, <2>1, <2>2, RmDoes DEF Recovering, FromLive, NothingLeft, Clean, Bare, Trusted
  <2> QED
    BY <2>4, <2>5, <2>3
<1>7. CASE p = <<Rm("staging"), Move("backup", "live"), Unlink>> /\ Bare(LiveDir) /\ Valid(BackupDir) /\ ~Valid(LiveDir) /\ ~(journal /\ Valid(StagingDir))
  <2>1. Head(p) = Rm("staging") /\ Tail(p) = <<Move("backup", "live"), Unlink>>
    BY <1>7
  <2>2. Does(Rm("staging"))
    BY <2>1
  <2>3. ~FromLive(p)
    BY <1>7 DEF FromLive, Rm, Move, Unlink
  <2>4. RecoveryKeeps(p)
    BY <1>7, <2>2, RmDoes, InstalledIs, InstalledNextIs, <2>3 DEF RecoveryKeeps, SparesHold, Trusted, Clean, NothingLeft
  <2>5. Recovering(Tail(p))'
    BY <1>7, <2>1, <2>2, RmDoes DEF Recovering, FromLive, NothingLeft, Clean, Bare, Trusted
  <2> QED
    BY <2>4, <2>5, <2>3
<1>8. CASE p = <<Move("backup", "live"), Unlink>> /\ Bare(LiveDir) /\ StagingDir = Absent /\ Valid(BackupDir) /\ ~Valid(LiveDir) /\ ~(journal /\ Valid(StagingDir))
  <2>1. Head(p) = Move("backup", "live") /\ Tail(p) = <<Unlink>>
    BY <1>8
  <2>2. Does(Move("backup", "live"))
    BY <2>1
  <2>3. ~FromLive(p)
    BY <1>8 DEF FromLive, Rm, Move, Unlink
  <2>4. RecoveryKeeps(p)
    BY <1>8, <2>2, MoveDoes, InstalledIs, InstalledNextIs, <2>3 DEF RecoveryKeeps, SparesHold, Trusted, Clean, NothingLeft
  <2>5. Recovering(Tail(p))'
    BY <1>8, <2>1, <2>2, MoveDoes DEF Recovering, FromLive, NothingLeft, Clean, Bare, Trusted
  <2> QED
    BY <2>4, <2>5, <2>3
<1>9. CASE p = <<Rm("live"), Rm("staging"), Rm("backup"), Unlink>> /\ ~Valid(LiveDir) /\ ~Valid(BackupDir) /\ ~journal
  <2>1. Head(p) = Rm("live") /\ Tail(p) = <<Rm("staging"), Rm("backup"), Unlink>>
    BY <1>9
  <2>2. Does(Rm("live"))
    BY <2>1
  <2>3. ~FromLive(p)
    BY <1>9 DEF FromLive, Rm, Move, Unlink
  <2>4. RecoveryKeeps(p)
    BY <1>9, <2>2, RmDoes, InstalledIs, InstalledNextIs, <2>3 DEF RecoveryKeeps, SparesHold, Trusted, Clean, NothingLeft
  <2>5. Recovering(Tail(p))'
    BY <1>9, <2>1, <2>2, RmDoes DEF Recovering, FromLive, NothingLeft, Clean, Bare, Trusted
  <2> QED
    BY <2>4, <2>5, <2>3
<1> QED
  BY <1>1, <1>2, <1>3, <1>4, <1>5, <1>6, <1>7, <1>8, <1>9 DEF Recovering, FromLive

LEMMA RecoveryTear ==
    ASSUME dirs \in Dirs, journal \in BOOLEAN, SparesHold, cut' = cut,
           NEW p, Recovering(p), p # <<>>, Tears(Head(p))
    PROVE  RecoveryKeeps(p) /\ Recovering(p)'
<1> USE DirFacts
<1>0. journal' = journal
  BY DEF Tears
<1>1. CASE p = <<Rm("staging"), Rm("backup"), Unlink>> /\ (Valid(LiveDir) \/ NothingLeft)
  <2>1. Tears(Rm("staging"))
    BY <1>1
  <2>2. RecoveryKeeps(p)
    BY <1>0, <1>1, <2>1, RmTears, InstalledIs, InstalledNextIs DEF RecoveryKeeps, SparesHold, Trusted, Clean, NothingLeft
  <2>3. Recovering(p)'
    BY <1>0, <1>1, <2>1, RmTears DEF Recovering, FromLive, NothingLeft, Clean, Bare, Trusted
  <2> QED
    BY <2>2, <2>3
<1>2. CASE p = <<Rm("backup"), Unlink>> /\ StagingDir = Absent /\ (Valid(LiveDir) \/ NothingLeft)
  <2>1. Tears(Rm("backup"))
    BY <1>2
  <2>2. RecoveryKeeps(p)
    BY <1>0, <1>2, <2>1, RmTears, InstalledIs, InstalledNextIs DEF RecoveryKeeps, SparesHold, Trusted, Clean, NothingLeft
  <2>3. Recovering(p)'
    BY <1>0, <1>2, <2>1, RmTears DEF Recovering, FromLive, NothingLeft, Clean, Bare, Trusted
  <2> QED
    BY <2>2, <2>3
<1>3. CASE p = <<Unlink>> /\ StagingDir = Absent /\ BackupDir = Absent /\ (Valid(LiveDir) \/ NothingLeft)
  <2>1. Tears(Unlink)
    BY <1>3
  <2> QED
    BY <2>1, OthersDoNotTear
<1>4. CASE p = <<Rm("live"), Move("staging", "live"), Rm("backup"), Unlink>> /\ journal /\ Valid(StagingDir) /\ ~Valid(LiveDir)
  <2>1. Tears(Rm("live"))
    BY <1>4
  <2>2. RecoveryKeeps(p)
    <3>1. ~FromLive(p)
      BY <1>4 DEF FromLive, Rm, Move, Unlink
    <3> QED
      BY <1>0, <1>4, <2>1, <3>1, RmTears, InstalledIs, InstalledNextIs DEF RecoveryKeeps, SparesHold, Trusted, Clean, NothingLeft
  <2>3. Recovering(p)'
    BY <1>0, <1>4, <2>1, RmTears DEF Recovering, FromLive, NothingLeft, Clean, Bare, Trusted
  <2> QED
    BY <2>2, <2>3
<1>5. CASE p = <<Move("staging", "live"), Rm("backup"), Unlink>> /\ Bare(LiveDir) /\ journal /\ Valid(StagingDir) /\ ~Valid(LiveDir)
  <2>1. Tears(Move("staging", "live"))
    BY <1>5
  <2> QED
    BY <2>1, OthersDoNotTear
<1>6. CASE p = <<Rm("live"), Rm("staging"), Move("backup", "live"), Unlink>> /\ Valid(BackupDir) /\ ~Valid(LiveDir) /\ ~(journal /\ Valid(StagingDir))
  <2>1. Tears(Rm("live"))
    BY <1>6
  <2>2. RecoveryKeeps(p)
    <3>1. ~FromLive(p)
      BY <1>6 DEF FromLive, Rm, Move, Unlink
    <3> QED
      BY <1>0, <1>6, <2>1, <3>1, RmTears, InstalledIs, InstalledNextIs DEF RecoveryKeeps, SparesHold, Trusted, Clean, NothingLeft
  <2>3. Recovering(p)'
    BY <1>0, <1>6, <2>1, RmTears DEF Recovering, FromLive, NothingLeft, Clean, Bare, Trusted
  <2> QED
    BY <2>2, <2>3
<1>7. CASE p = <<Rm("staging"), Move("backup", "live"), Unlink>> /\ Bare(LiveDir) /\ Valid(BackupDir) /\ ~Valid(LiveDir) /\ ~(journal /\ Valid(StagingDir))
  <2>1. Tears(Rm("staging"))
    BY <1>7
  <2>2. RecoveryKeeps(p)
    <3>1. ~FromLive(p)
      BY <1>7 DEF FromLive, Rm, Move, Unlink
    <3> QED
      BY <1>0, <1>7, <2>1, <3>1, RmTears, InstalledIs, InstalledNextIs DEF RecoveryKeeps, SparesHold, Trusted, Clean, NothingLeft
  <2>3. Recovering(p)'
    BY <1>0, <1>7, <2>1, RmTears DEF Recovering, FromLive, NothingLeft, Clean, Bare, Trusted
  <2> QED
    BY <2>2, <2>3
<1>8. CASE p = <<Move("backup", "live"), Unlink>> /\ Bare(LiveDir) /\ StagingDir = Absent /\ Valid(BackupDir) /\ ~Valid(LiveDir) /\ ~(journal /\ Valid(StagingDir))
  <2>1. Tears(Move("backup", "live"))
    BY <1>8
  <2> QED
    BY <2>1, OthersDoNotTear
<1>9. CASE p = <<Rm("live"), Rm("staging"), Rm("backup"), Unlink>> /\ ~Valid(LiveDir) /\ ~Valid(BackupDir) /\ ~journal
  <2>1. Tears(Rm("live"))
    BY <1>9
  <2>2. RecoveryKeeps(p)
    <3>1. ~FromLive(p)
      BY <1>9 DEF FromLive, Rm, Move, Unlink
    <3> QED
      BY <1>0, <1>9, <2>1, <3>1, RmTears, InstalledIs, InstalledNextIs DEF RecoveryKeeps, SparesHold, Trusted, Clean, NothingLeft
  <2>3. Recovering(p)'
    BY <1>0, <1>9, <2>1, RmTears DEF Recovering, FromLive, NothingLeft, Clean, Bare, Trusted
  <2> QED
    BY <2>2, <2>3
<1> QED
  BY <1>1, <1>2, <1>3, <1>4, <1>5, <1>6, <1>7, <1>8, <1>9 DEF Recovering, FromLive

(* A status request, or a download, makes the live directory.               *)
LEMMA LiveMadeIs ==
    ASSUME dirs \in Dirs, dirs' = LiveMade
    PROVE  /\ dirs' \in Dirs /\ LiveDir' = Made(LiveDir) /\ StagingDir' = StagingDir /\ BackupDir' = BackupDir
           /\ LiveDir' \in Dir /\ LiveDir' # Absent /\ (Valid(LiveDir') <=> Valid(LiveDir))
           /\ LiveDir # Absent => LiveDir' = LiveDir
           /\ LiveDir = Absent => LiveDir' = Empty
           /\ Bare(LiveDir) => Bare(LiveDir')
<1>1. LiveDir \in Dir \cup {Absent}
  BY StoreIs DEF Dirs
<1>2. /\ Made(LiveDir) \in Dir /\ Made(LiveDir) # Absent /\ (Valid(Made(LiveDir)) <=> Valid(LiveDir))
      /\ LiveDir # Absent => Made(LiveDir) = LiveDir
      /\ LiveDir = Absent => Made(LiveDir) = Empty
  BY <1>1, MadeIs
<1>3. LiveDir' = Made(LiveDir) /\ StagingDir' = StagingDir /\ BackupDir' = BackupDir /\ dirs' \in Dirs
  BY <1>2 DEF LiveMade, Dirs, LiveDir, StagingDir, BackupDir
<1> QED
  BY <1>2, <1>3 DEF Bare

LEMMA MadeKeeps ==
    ASSUME dirs \in Dirs, dirs' = LiveMade, UNCHANGED <<journal, cut>>, SparesHold
    PROVE  SparesHold' /\ Installed' = Installed /\ (Clean' <=> Clean)
<1> QED
  BY LiveMadeIs, InstalledIs, InstalledNextIs, DirFacts DEF SparesHold, Trusted, Clean

LEMMA RecoveryMade ==
    ASSUME dirs \in Dirs, dirs' = LiveMade, UNCHANGED <<journal, cut>>,
           NEW p, Recovering(p)
    PROVE  Recovering(p)'
<1>1. FromLive(p) => FromLive(p)'
  BY LiveMadeIs DEF FromLive
<1>2. NothingLeft => NothingLeft'
  BY LiveMadeIs DEF NothingLeft
<1>3. Clean => Clean'
  BY LiveMadeIs DEF Clean
<1> QED
  BY <1>1, <1>2, <1>3, LiveMadeIs DEF Recovering

(* A commit changes what is installed to what is up to date.                *)
UpToDate == Installed # Absent /\ Installed.exe = Current /\ Installed.mark = Current
SwapKeeps ==
    /\ dirs' \in Dirs /\ journal' \in BOOLEAN /\ SparesHold'
    /\ Installed' = Installed \/ Installed = Absent \/ UpToDate'

LEMMA SwapStep ==
    ASSUME dirs \in Dirs, journal \in BOOLEAN, SparesHold, cut' = cut,
           NEW p, Committing(p), p # <<>>, Does(Head(p))
    PROVE  SwapKeeps /\ Committing(Tail(p))'
<1> USE DirFacts
<1>1. CASE p = CommitPlan /\ BackupDir = Absent /\ ~journal /\ Ready(StagingDir) /\ LiveDir # Absent
  <2>1. Head(p) = <<"journal">> /\ Tail(p) = <<Move("live", "backup"), Move("staging", "live"), Rm("backup"), Unlink>>
    BY <1>1 DEF CommitPlan, Unlink
  <2>2. Does(<<"journal">>)
    BY <2>1
  <2>3. SwapKeeps
    BY <1>1, <2>2, JournalDoes, InstalledIs, InstalledNextIs DEF SwapKeeps, UpToDate, SparesHold, Trusted, Ready
  <2>4. Committing(Tail(p))'
    BY <1>1, <2>1, <2>2, JournalDoes DEF Committing, Clean, Bare, Ready, Trusted
  <2> QED
    BY <2>3, <2>4
<1>2. CASE p = <<Move("live", "backup"), Move("staging", "live"), Rm("backup"), Unlink>> /\ BackupDir = Absent /\ journal /\ Ready(StagingDir) /\ LiveDir # Absent
  <2>1. Head(p) = Move("live", "backup") /\ Tail(p) = <<Move("staging", "live"), Rm("backup"), Unlink>>
    BY <1>2
  <2>2. Does(Move("live", "backup"))
    BY <2>1
  <2>3. SwapKeeps
    BY <1>2, <2>2, MoveDoes, InstalledIs, InstalledNextIs DEF SwapKeeps, UpToDate, SparesHold, Trusted, Ready
  <2>4. Committing(Tail(p))'
    BY <1>2, <2>1, <2>2, MoveDoes DEF Committing, Clean, Bare, Ready, Trusted
  <2> QED
    BY <2>3, <2>4
<1>3. CASE p = <<Move("staging", "live"), Rm("backup"), Unlink>> /\ journal /\ Ready(StagingDir) /\ Bare(LiveDir)
  <2>1. Head(p) = Move("staging", "live") /\ Tail(p) = <<Rm("backup"), Unlink>>
    BY <1>3
  <2>2. Does(Move("staging", "live"))
    BY <2>1
  <2>3. SwapKeeps
    BY <1>3, <2>2, MoveDoes, InstalledIs, InstalledNextIs DEF SwapKeeps, UpToDate, SparesHold, Trusted, Ready
  <2>4. Committing(Tail(p))'
    BY <1>3, <2>1, <2>2, MoveDoes DEF Committing, Clean, Bare, Ready, Trusted
  <2> QED
    BY <2>3, <2>4
<1>4. CASE p = <<Rm("backup"), Unlink>> /\ Valid(LiveDir) /\ StagingDir = Absent
  <2>1. Head(p) = Rm("backup") /\ Tail(p) = <<Unlink>>
    BY <1>4
  <2>2. Does(Rm("backup"))
    BY <2>1
  <2>3. SwapKeeps
    BY <1>4, <2>2, RmDoes, InstalledIs, InstalledNextIs DEF SwapKeeps, UpToDate, SparesHold, Trusted, Ready
  <2>4. Committing(Tail(p))'
    BY <1>4, <2>1, <2>2, RmDoes DEF Committing, Clean, Bare, Ready, Trusted
  <2> QED
    BY <2>3, <2>4
<1>5. CASE p = <<Unlink>> /\ Valid(LiveDir) /\ StagingDir = Absent /\ BackupDir = Absent
  <2>1. Head(p) = Unlink /\ Tail(p) = <<>>
    BY <1>5
  <2>2. Does(Unlink)
    BY <2>1
  <2>3. SwapKeeps
    BY <1>5, <2>2, JournalDoes, InstalledIs, InstalledNextIs DEF SwapKeeps, UpToDate, SparesHold, Trusted, Ready
  <2>4. Committing(Tail(p))'
    BY <1>5, <2>1, <2>2, JournalDoes DEF Committing, Clean, Bare, Ready, Trusted
  <2> QED
    BY <2>3, <2>4
<1> QED
  BY <1>1, <1>2, <1>3, <1>4, <1>5 DEF Committing

LEMMA SwapTear ==
    ASSUME dirs \in Dirs, journal \in BOOLEAN, SparesHold, cut' = cut,
           NEW p, Committing(p), p # <<>>, Tears(Head(p))
    PROVE  SwapKeeps /\ Committing(p)'
<1> USE DirFacts
<1>0. journal' = journal
  BY DEF Tears
<1>1. p = <<Rm("backup"), Unlink>> /\ Valid(LiveDir) /\ StagingDir = Absent
  BY OthersDoNotTear DEF Committing, CommitPlan
<1>2. Tears(Rm("backup"))
  BY <1>1
<1>3. SwapKeeps
  BY <1>0, <1>1, <1>2, RmTears, InstalledIs, InstalledNextIs DEF SwapKeeps, SparesHold, Trusted
<1>4. Committing(p)'
  BY <1>1, <1>2, RmTears DEF Committing
<1> QED
  BY <1>3, <1>4

LEMMA SwapMade ==
    ASSUME dirs \in Dirs, dirs' = LiveMade, UNCHANGED <<journal, cut>>,
           NEW p, Committing(p)
    PROVE  Committing(p)'
<1>1. Ready(StagingDir) => Ready(StagingDir)'
  BY LiveMadeIs DEF Ready, Trusted
<1>2. Clean => Clean'
  BY LiveMadeIs DEF Clean
<1> QED
  BY <1>1, <1>2, LiveMadeIs DEF Committing

(* A staging copy, with what is fetched into it.                            *)
LEMMA FetchesAre ==
    /\ Fetches(TRUE, TRUE) = << <<"server">>, <<"libs">>, <<"mark">> >>
    /\ Fetches(TRUE, FALSE) = << <<"server">> >>
    /\ Fetches(FALSE, TRUE) = << <<"libs">>, <<"mark">> >>
    /\ Fetches(FALSE, FALSE) = <<>>
<1>1. Fetches(TRUE, TRUE) = << <<"server">>, <<"libs">>, <<"mark">> >>
  <2>1. \A a, b, c : <<a>> \o <<b, c>> = <<a, b, c>>
    <3> SUFFICES ASSUME NEW a, NEW b, NEW c PROVE <<a>> \o <<b, c>> = <<a, b, c>>
      OBVIOUS
    <3>1. PICK S : S = {a, b, c}
      OBVIOUS
    <3>2. <<a>> \in Seq(S) /\ <<b, c>> \in Seq(S) /\ <<a, b, c>> \in Seq(S) /\ Len(<<a, b, c>>) = 3
      BY <3>1
    <3>3. <<a>> \o <<b, c>> \in Seq(S) /\ Len(<<a>> \o <<b, c>>) = 3
      BY <3>2
    <3>4. \A i \in 1..3 : (<<a>> \o <<b, c>>)[i] = <<a, b, c>>[i]
      BY <3>2
    <3> QED
      BY <3>2, <3>3, <3>4, SeqEqual
  <2>2. Fetches(TRUE, TRUE) = << <<"server">> >> \o << <<"libs">>, <<"mark">> >>
    BY DEF Fetches
  <2> HIDE DEF Fetches
  <2> QED
    BY ONLY <2>1, <2>2
<1>2. Fetches(TRUE, FALSE) = << <<"server">> >>
  BY DEF Fetches
<1>3. Fetches(FALSE, TRUE) = << <<"libs">>, <<"mark">> >>
  BY DEF Fetches
<1>4. Fetches(FALSE, FALSE) = <<>>
  BY DEF Fetches
<1> QED
  BY <1>1, <1>2, <1>3, <1>4

LEMMA CopiesAre ==
    ASSUME NEW s \in BOOLEAN, NEW l \in BOOLEAN
    PROVE  LET copy == << <<"copy">> >> \o Fetches(s, l)
           IN  /\ StagePlan(s, l) # <<>> /\ Head(StagePlan(s, l)) = Rm("staging") /\ Tail(StagePlan(s, l)) = copy
               /\ copy # <<>> /\ Head(copy) = <<"copy">> /\ Tail(copy) = Fetches(s, l)
BY FetchesAre DEF StagePlan, Fetches

(* While a copy is made what is installed stays.                            *)
CopyKeeps == dirs' \in Dirs /\ journal' = journal /\ SparesHold' /\ Installed' = Installed /\ Uncommitted'

LEMMA CopyKeepsIf ==
    ASSUME Uncommitted, SparesHold, cut' = cut,
           dirs' \in Dirs, journal' = journal, LiveDir' = LiveDir, BackupDir' = BackupDir
    PROVE  CopyKeeps
BY InstalledIs, InstalledNextIs, DirFacts DEF CopyKeeps, Uncommitted, SparesHold, Trusted

LEMMA CopyingIs ==
    ASSUME NEW p, Copying(p), p # <<>>
    PROVE  \/ \E s, l \in BOOLEAN : p = StagePlan(s, l) /\ (s \/ LiveDir.exe = Current) /\ (l \/ LiveDir.mark = Current)
           \/ \E s, l \in BOOLEAN : p = << <<"copy">> >> \o Fetches(s, l) /\ (s \/ LiveDir.exe = Current) /\ (l \/ LiveDir.mark = Current)
           \/ /\ StagingDir # Absent
              /\ \/ \E l \in BOOLEAN : p = Fetches(TRUE, l) /\ (l \/ LibsIn(StagingDir))
                 \/ p = << <<"libs">>, <<"mark">> >> /\ ServerIn(StagingDir)
                 \/ p = << <<"mark">> >> /\ ServerIn(StagingDir) /\ StagingDir.libs = Current
BY DEF Copying, Copied

LEMMA CopyStep ==
    ASSUME dirs \in Dirs, SparesHold, cut' = cut,
           NEW p, Copying(p), p # <<>>, Does(Head(p))
    PROVE  CopyKeeps /\ Copying(Tail(p))'
<1>0. Uncommitted
  BY DEF Copying
<1>1. CASE \E s, l \in BOOLEAN : p = StagePlan(s, l) /\ (s \/ LiveDir.exe = Current) /\ (l \/ LiveDir.mark = Current)
  <2>1. PICK s \in BOOLEAN, l \in BOOLEAN : p = StagePlan(s, l) /\ (s \/ LiveDir.exe = Current) /\ (l \/ LiveDir.mark = Current)
    BY <1>1
  <2>2. Does(Rm("staging")) /\ Tail(p) = << <<"copy">> >> \o Fetches(s, l)
    BY <2>1, CopiesAre
  <2>3. dirs' \in Dirs /\ journal' = journal /\ LiveDir' = LiveDir /\ BackupDir' = BackupDir
    BY <2>2, RmDoes
  <2>4. CopyKeeps
    BY <1>0, <2>3, CopyKeepsIf
  <2>5. (s \/ LiveDir.exe = Current)' /\ (l \/ LiveDir.mark = Current)'
    BY <2>1, <2>3
  <2>6. Copying(Tail(p))'
    BY <2>2, <2>4, <2>5 DEF Copying, CopyKeeps
  <2> QED
    BY <2>4, <2>6
<1>2. CASE \E s, l \in BOOLEAN : p = << <<"copy">> >> \o Fetches(s, l) /\ (s \/ LiveDir.exe = Current) /\ (l \/ LiveDir.mark = Current)
  <2>1. PICK s \in BOOLEAN, l \in BOOLEAN : p = << <<"copy">> >> \o Fetches(s, l) /\ (s \/ LiveDir.exe = Current) /\ (l \/ LiveDir.mark = Current)
    BY <1>2
  <2>2. Does(<<"copy">>) /\ Tail(p) = Fetches(s, l)
    BY <2>1, CopiesAre
  <2>3. dirs' \in Dirs /\ journal' = journal /\ LiveDir' = LiveDir /\ BackupDir' = BackupDir /\ StagingDir' = Made(LiveDir)
    BY <2>2, CopyDoes
  <2>4. CopyKeeps
    BY <1>0, <2>3, CopyKeepsIf
  <2>5. StagingDir' = LiveDir /\ StagingDir' # Absent
    BY <1>0, <2>3, DirFacts DEF Made, Uncommitted
  <2>6. /\ LiveDir.exe = Current => ServerIn(LiveDir)
        /\ LiveDir.mark = Current => LibsIn(LiveDir)
    <3>1. Valid(LiveDir) => cut \/ Whole(LiveDir)
      BY DEF SparesHold, Trusted
    <3>2. LiveDir = Empty => LiveDir.exe # Current /\ LiveDir.mark # Current
      BY DEF Empty, Gone, Current
    <3> QED
      BY <1>0, <3>1, <3>2 DEF Uncommitted, Whole, ServerIn, LibsIn
  <2>7. (s \/ ServerIn(StagingDir)') /\ (l \/ LibsIn(StagingDir)')
    BY <2>1, <2>5, <2>6 DEF ServerIn, LibsIn
  <2>8. Copied(Tail(p))'
    <3>1. CASE s = TRUE
      BY <2>2, <2>7, <3>1 DEF Copied
    <3>2. CASE s = FALSE /\ l = TRUE
      BY <2>2, <2>7, <3>2, FetchesAre DEF Copied
    <3>3. CASE s = FALSE /\ l = FALSE
      BY <2>2, <2>7, <3>3, FetchesAre DEF Copied
    <3> QED
      BY <2>1, <3>1, <3>2, <3>3
  <2> QED
    BY <2>4, <2>5, <2>8 DEF Copying, CopyKeeps
<1>3. CASE StagingDir # Absent /\ \E l \in BOOLEAN : p = Fetches(TRUE, l) /\ (l \/ LibsIn(StagingDir))
  <2>1. PICK l \in BOOLEAN : p = Fetches(TRUE, l) /\ (l \/ LibsIn(StagingDir))
    BY <1>3
  <2>2. Head(p) = <<"server">> /\ Tail(p) = IF l THEN << <<"libs">>, <<"mark">> >> ELSE <<>>
    <3>1. CASE l = TRUE
      <4>1. p = Fetches(TRUE, TRUE)
        BY <2>1, <3>1
      <4>2. p = << <<"server">>, <<"libs">>, <<"mark">> >>
        BY <4>1, FetchesAre
      <4> QED
        BY <3>1, <4>2
    <3>2. CASE l = FALSE
      <4>1. p = Fetches(TRUE, FALSE)
        BY <2>1, <3>2
      <4>2. p = << <<"server">> >>
        BY <4>1, FetchesAre
      <4> QED
        BY <3>2, <4>2
    <3> QED
      BY <3>1, <3>2
  <2>3. Does(<<"server">>)
    BY <2>2
  <2>4. /\ dirs' \in Dirs /\ journal' = journal /\ LiveDir' = LiveDir /\ BackupDir' = BackupDir
        /\ StagingDir' = [StagingDir EXCEPT !.exe = Current, !.body = Current]
    BY <1>3, <2>3, FetchDoes
  <2>5. CopyKeeps
    BY <1>0, <2>4, CopyKeepsIf
  <2>6. StagingDir \in Dir
    BY <1>3, StoreIs DEF Dirs
  <2>7. /\ StagingDir' # Absent /\ StagingDir'.exe = Current /\ StagingDir'.body = Current
        /\ StagingDir'.libs = StagingDir.libs /\ StagingDir'.mark = StagingDir.mark
    <3>1. [StagingDir EXCEPT !.exe = Current, !.body = Current] \in Dir
      BY <2>6 DEF Dir, Versions
    <3> QED
      BY <2>4, <2>6, <3>1, AbsentAssumption DEF Dir
  <2>8. ServerIn(StagingDir)' /\ (l \/ LibsIn(StagingDir)')
    BY <2>1, <2>7 DEF ServerIn, LibsIn
  <2>9. Copied(Tail(p))'
    BY <2>2, <2>8 DEF Copied
  <2> QED
    BY <2>5, <2>7, <2>9 DEF Copying, CopyKeeps
<1>4. CASE StagingDir # Absent /\ p = << <<"libs">>, <<"mark">> >> /\ ServerIn(StagingDir)
  <2>1. Does(<<"libs">>) /\ Tail(p) = << <<"mark">> >>
    BY <1>4
  <2>2. /\ dirs' \in Dirs /\ journal' = journal /\ LiveDir' = LiveDir /\ BackupDir' = BackupDir
        /\ StagingDir' = [StagingDir EXCEPT !.libs = Current]
    BY <1>4, <2>1, FetchDoes
  <2>3. CopyKeeps
    BY <1>0, <2>2, CopyKeepsIf
  <2>4. StagingDir \in Dir
    BY <1>4, StoreIs DEF Dirs
  <2>5. StagingDir' # Absent /\ StagingDir'.libs = Current /\ StagingDir'.exe = StagingDir.exe /\ StagingDir'.body = StagingDir.body
    <3>1. [StagingDir EXCEPT !.libs = Current] \in Dir
      BY <2>4 DEF Dir, Versions
    <3> QED
      BY <2>2, <2>4, <3>1, AbsentAssumption DEF Dir
  <2>6. Copied(Tail(p))'
    BY <1>4, <2>1, <2>5 DEF Copied, ServerIn
  <2> QED
    BY <2>3, <2>5, <2>6 DEF Copying, CopyKeeps
<1>5. CASE StagingDir # Absent /\ p = << <<"mark">> >> /\ ServerIn(StagingDir) /\ StagingDir.libs = Current
  <2>1. Does(<<"mark">>) /\ Tail(p) = <<>>
    BY <1>5
  <2>2. /\ dirs' \in Dirs /\ journal' = journal /\ LiveDir' = LiveDir /\ BackupDir' = BackupDir
        /\ StagingDir' = [StagingDir EXCEPT !.mark = Current]
    BY <1>5, <2>1, FetchDoes
  <2>3. CopyKeeps
    BY <1>0, <2>2, CopyKeepsIf
  <2>4. StagingDir \in Dir
    BY <1>5, StoreIs DEF Dirs
  <2>5. /\ StagingDir' # Absent /\ StagingDir'.mark = Current /\ StagingDir'.libs = Current
        /\ StagingDir'.exe = StagingDir.exe /\ StagingDir'.body = StagingDir.body
    <3>1. [StagingDir EXCEPT !.mark = Current] \in Dir
      BY <2>4 DEF Dir, Versions
    <3> QED
      BY <1>5, <2>2, <2>4, <3>1, AbsentAssumption DEF Dir
  <2>6. Copied(Tail(p))'
    BY <1>5, <2>1, <2>5 DEF Copied, ServerIn, LibsIn
  <2> QED
    BY <2>3, <2>5, <2>6 DEF Copying, CopyKeeps
<1> QED
  BY CopyingIs, <1>1, <1>2, <1>3, <1>4, <1>5

LEMMA CopyTear ==
    ASSUME dirs \in Dirs, SparesHold, cut' = cut,
           NEW p, Copying(p), p # <<>>, Tears(Head(p))
    PROVE  CopyKeeps /\ Copying(p)'
<1>0. Uncommitted /\ journal' = journal
  BY DEF Copying, Tears
<1>1. CASE \E s, l \in BOOLEAN : p = StagePlan(s, l) /\ (s \/ LiveDir.exe = Current) /\ (l \/ LiveDir.mark = Current)
  <2>1. PICK s \in BOOLEAN, l \in BOOLEAN : p = StagePlan(s, l) /\ (s \/ LiveDir.exe = Current) /\ (l \/ LiveDir.mark = Current)
    BY <1>1
  <2>2. Tears(Rm("staging"))
    BY <2>1, CopiesAre
  <2>3. dirs' \in Dirs /\ LiveDir' = LiveDir /\ BackupDir' = BackupDir
    BY <2>2, RmTears
  <2>4. CopyKeeps
    BY <1>0, <2>3, CopyKeepsIf
  <2>5. (s \/ LiveDir.exe = Current)' /\ (l \/ LiveDir.mark = Current)'
    BY <2>1, <2>3
  <2> QED
    BY <2>1, <2>4, <2>5 DEF Copying, CopyKeeps
<1>2. CASE \E s, l \in BOOLEAN : p = << <<"copy">> >> \o Fetches(s, l) /\ (s \/ LiveDir.exe = Current) /\ (l \/ LiveDir.mark = Current)
  <2>1. PICK s \in BOOLEAN, l \in BOOLEAN : p = << <<"copy">> >> \o Fetches(s, l) /\ (s \/ LiveDir.exe = Current) /\ (l \/ LiveDir.mark = Current)
    BY <1>2
  <2>2. Tears(<<"copy">>)
    BY <2>1, CopiesAre
  <2>3. dirs' \in Dirs /\ LiveDir' = LiveDir /\ BackupDir' = BackupDir
    BY <2>2, CopyTears
  <2>4. CopyKeeps
    BY <1>0, <2>3, CopyKeepsIf
  <2>5. (s \/ LiveDir.exe = Current)' /\ (l \/ LiveDir.mark = Current)'
    BY <2>1, <2>3
  <2> QED
    BY <2>1, <2>4, <2>5 DEF Copying, CopyKeeps
<1>3. CASE StagingDir # Absent /\ \E l \in BOOLEAN : p = Fetches(TRUE, l) /\ (l \/ LibsIn(StagingDir))
  <2>1. PICK l \in BOOLEAN : p = Fetches(TRUE, l) /\ (l \/ LibsIn(StagingDir))
    BY <1>3
  <2>2. Head(p) = <<"server">>
    <3>1. CASE l = TRUE
      <4>1. p = Fetches(TRUE, TRUE)
        BY <2>1, <3>1
      <4>2. p = << <<"server">>, <<"libs">>, <<"mark">> >>
        BY <4>1, FetchesAre
      <4> QED
        BY <4>2
    <3>2. CASE l = FALSE
      <4>1. p = Fetches(TRUE, FALSE)
        BY <2>1, <3>2
      <4>2. p = << <<"server">> >>
        BY <4>1, FetchesAre
      <4> QED
        BY <4>2
    <3> QED
      BY <3>1, <3>2
  <2>3. Tears(<<"server">>)
    BY <2>2
  <2>4. /\ dirs' \in Dirs /\ LiveDir' = LiveDir /\ BackupDir' = BackupDir /\ StagingDir' # Absent
        /\ StagingDir'.libs = StagingDir.libs /\ StagingDir'.mark = StagingDir.mark
    BY <1>3, <2>3, FetchTears
  <2>5. CopyKeeps
    BY <1>0, <2>4, CopyKeepsIf
  <2>6. l \/ LibsIn(StagingDir)'
    BY <2>1, <2>4 DEF LibsIn
  <2>7. Copied(p)'
    BY <2>1, <2>6 DEF Copied
  <2> QED
    BY <2>4, <2>5, <2>7 DEF Copying, CopyKeeps
<1>4. CASE StagingDir # Absent /\ p = << <<"libs">>, <<"mark">> >> /\ ServerIn(StagingDir)
  <2>1. Tears(<<"libs">>)
    BY <1>4
  <2>2. /\ dirs' \in Dirs /\ LiveDir' = LiveDir /\ BackupDir' = BackupDir /\ StagingDir' # Absent
        /\ StagingDir'.exe = StagingDir.exe /\ StagingDir'.body = StagingDir.body
    BY <1>4, <2>1, FetchTears
  <2>3. CopyKeeps
    BY <1>0, <2>2, CopyKeepsIf
  <2>4. Copied(p)'
    BY <1>4, <2>2 DEF Copied, ServerIn
  <2> QED
    BY <2>2, <2>3, <2>4 DEF Copying, CopyKeeps
<1>5. CASE StagingDir # Absent /\ p = << <<"mark">> >> /\ ServerIn(StagingDir) /\ StagingDir.libs = Current
  <2>1. Tears(<<"mark">>)
    BY <1>5
  <2> QED
    BY <2>1, OthersDoNotTear
<1> QED
  BY CopyingIs, <1>1, <1>2, <1>3, <1>4, <1>5

(* A deletion, and the removal of a copy.                                   *)
RemovalKeeps == dirs' \in Dirs /\ journal' \in BOOLEAN /\ SparesHold'

LEMMA RemovalStep ==
    ASSUME dirs \in Dirs, journal \in BOOLEAN, SparesHold, cut' = cut,
           NEW p, Removing(p), p # <<>>, Does(Head(p))
    PROVE  RemovalKeeps /\ Removing(Tail(p))'
<1> USE DirFacts
<1>1. CASE p = DeletePlan
  <2>1. Head(p) = Rm("staging") /\ Tail(p) = <<Rm("backup"), Rm("live"), Unlink>>
    BY <1>1 DEF DeletePlan, Unlink
  <2> QED
    BY <2>1, RmDoes DEF RemovalKeeps, SparesHold, Trusted, Removing
<1>2. CASE p = <<Rm("backup"), Rm("live"), Unlink>> /\ StagingDir = Absent
  <2>1. Head(p) = Rm("backup") /\ Tail(p) = <<Rm("live"), Unlink>>
    BY <1>2
  <2> QED
    BY <1>2, <2>1, RmDoes DEF RemovalKeeps, SparesHold, Trusted, Removing
<1>3. CASE p = <<Rm("live"), Unlink>> /\ StagingDir = Absent /\ BackupDir = Absent
  <2>1. Head(p) = Rm("live") /\ Tail(p) = <<Unlink>>
    BY <1>3
  <2> QED
    BY <1>3, <2>1, RmDoes DEF RemovalKeeps, SparesHold, Trusted, Removing
<1>4. CASE p = <<Unlink>> /\ StagingDir = Absent /\ BackupDir = Absent /\ ~Valid(LiveDir)
  <2>1. Head(p) = Unlink /\ Tail(p) = <<>>
    BY <1>4
  <2> QED
    BY <1>4, <2>1, JournalDoes DEF RemovalKeeps, SparesHold, Trusted, Removing, Clean
<1> QED
  BY <1>1, <1>2, <1>3, <1>4 DEF Removing

LEMMA RemovalTear ==
    ASSUME dirs \in Dirs, journal \in BOOLEAN, SparesHold, cut' = (cut \/ Installed' # Installed),
           NEW p, Removing(p), p # <<>>, Tears(Head(p))
    PROVE  RemovalKeeps /\ Removing(p)'
<1> USE DirFacts
<1>0. journal' = journal
  BY DEF Tears
<1>1. CASE p = DeletePlan
  <2>1. Head(p) = Rm("staging")
    BY <1>1 DEF DeletePlan
  <2> QED
    BY <1>0, <1>1, <2>1, RmTears, InstalledIs, InstalledNextIs DEF RemovalKeeps, SparesHold, Trusted, Removing
<1>2. CASE p = <<Rm("backup"), Rm("live"), Unlink>> /\ StagingDir = Absent
  <2>1. Head(p) = Rm("backup")
    BY <1>2
  <2> QED
    BY <1>0, <1>2, <2>1, RmTears, InstalledIs, InstalledNextIs DEF RemovalKeeps, SparesHold, Trusted, Removing
<1>3. CASE p = <<Rm("live"), Unlink>> /\ StagingDir = Absent /\ BackupDir = Absent
  <2>1. Head(p) = Rm("live")
    BY <1>3
  <2>2. dirs' \in Dirs /\ StagingDir' = Absent /\ BackupDir' = Absent /\ (Valid(LiveDir') => Valid(LiveDir)) /\ dirs' # dirs
    BY <1>3, <2>1, RmTears DEF Tears
  <2>3. LiveDir' # LiveDir
    BY <1>3, <2>2 DEF Dirs, LiveDir, StagingDir, BackupDir
  <2> QED
    BY <1>0, <1>3, <2>2, <2>3, InstalledIs, InstalledNextIs DEF RemovalKeeps, SparesHold, Trusted, Removing
<1>4. CASE p = <<Unlink>> /\ StagingDir = Absent /\ BackupDir = Absent /\ ~Valid(LiveDir)
  <2>1. Head(p) = Unlink
    BY <1>4
  <2> QED
    BY <2>1, OthersDoNotTear
<1> QED
  BY <1>1, <1>2, <1>3, <1>4 DEF Removing

LEMMA CleanupStep ==
    ASSUME dirs \in Dirs, journal \in BOOLEAN, SparesHold, cut' = cut, leftover => leftover',
           NEW p, Unstaging(p), p # <<>>, Does(Head(p))
    PROVE  /\ RemovalKeeps /\ Unstaging(Tail(p))' /\ LiveDir' = LiveDir
           /\ Installed' = Installed \/ (leftover /\ Installed = StagingDir)
<1> USE DirFacts
<1>1. Head(p) = Rm("staging") /\ Tail(p) = <<>>
  <2>1. p = <<Rm("staging")>>
    BY DEF Unstaging, Cleanup
  <2> QED
    BY ONLY <2>1
<1>2. dirs' \in Dirs /\ journal' = journal /\ LiveDir' = LiveDir /\ StagingDir' = Absent /\ BackupDir' = BackupDir
  BY <1>1, RmDoes
<1>3. RemovalKeeps
  BY <1>2 DEF RemovalKeeps, SparesHold, Trusted
<1>4. Unstaging(Tail(p))'
  BY <1>1, <1>2 DEF Unstaging
<1>5. Installed' = Installed \/ (leftover /\ Installed = StagingDir)
  BY <1>2, InstalledIs, InstalledNextIs DEF Unstaging
<1> QED
  BY <1>2, <1>3, <1>4, <1>5

LEMMA CleanupTear ==
    ASSUME dirs \in Dirs, journal \in BOOLEAN, SparesHold, leftover => leftover',
           cut' = (cut \/ Installed' # Installed),
           NEW p, Unstaging(p), p # <<>>, Tears(Head(p))
    PROVE  /\ RemovalKeeps /\ Unstaging(p)' /\ LiveDir' = LiveDir
           /\ Installed' = Installed \/ (leftover /\ Installed = StagingDir)
<1> USE DirFacts
<1>1. Head(p) = Rm("staging") /\ p = Cleanup
  BY DEF Unstaging, Cleanup
<1>2. /\ dirs' \in Dirs /\ journal' = journal /\ LiveDir' = LiveDir /\ BackupDir' = BackupDir
      /\ StagingDir' # StagingDir /\ (Valid(StagingDir') => Valid(StagingDir))
  BY <1>1, RmTears DEF Tears
<1>3. RemovalKeeps
  BY <1>2, InstalledIs, InstalledNextIs DEF RemovalKeeps, SparesHold, Trusted
<1>4. Unstaging(p)'
  BY <1>1, <1>2 DEF Unstaging
<1>5. Installed' = Installed \/ (leftover /\ Installed = StagingDir)
  BY <1>2, InstalledIs, InstalledNextIs DEF Unstaging
<1> QED
  BY <1>2, <1>3, <1>4, <1>5

-----------------------------------------------------------------------------
(* The slot that holds the guard, and what it keeps at a call.              *)

Survives ==
    (Installed # Absent /\ ~Deleting /\ Installed' # Installed)
        => UpToDate' \/ (leftover' /\ Installed = StagingDir)
StaysPut == selfHosted /\ selfHosted' => LiveDir' = LiveDir

LEMMA SlotIs ==
    ASSUME InstallInv, NEW o \in Ops, op[o] # Idle
    PROVE  /\ active = o /\ op[o] = [phase |-> op[o].phase, plan |-> op[o].plan]
           /\ op[o].phase \in Phases \ {"idle"} /\ PhaseHolds(op[o].phase, op[o].plan)
<1>1. op = [q \in Ops |-> [phase |-> op[q].phase, plan |-> op[q].plan]]
  BY DEF InstallInv
<1>2. op[o] = [phase |-> op[o].phase, plan |-> op[o].plan]
  BY <1>1
<1>3. active = o /\ op[o].phase \in Phases
  BY DEF InstallInv, TypeOK
<1>4. PhaseHolds(op[o].phase, op[o].plan)
  BY DEF InstallInv
<1> QED
  BY <1>2, <1>3, <1>4 DEF PhaseHolds

LEMMA StoreHolds ==
    ASSUME InstallInv
    PROVE  /\ dirs \in Dirs /\ journal \in BOOLEAN /\ SparesHold
           /\ selfHosted \in BOOLEAN /\ windows \in BOOLEAN /\ cut \in BOOLEAN /\ leftover \in BOOLEAN
           /\ server \in {"down", "booting", "fresh", "up", "stopping"} /\ faults \in 0..MaxFaults
           /\ selfHosted => Valid(LiveDir)
BY DEF InstallInv, TypeOK, Dirs

WorkKeeps(phase, plan) ==
    /\ dirs' \in Dirs /\ journal' \in BOOLEAN /\ SparesHold'
    /\ Survives
    /\ selfHosted => LiveDir' = LiveDir
    /\ phase = "stage" => BackupDir' = Absent /\ ~journal'

LEMMA WorkStep ==
    ASSUME InstallInv, NEW o \in Ops, op[o] # Idle, op[o].plan # <<>>,
           NEW phase, NEW plan, phase = op[o].phase, plan = op[o].plan,
           Does(Head(plan)), UNCHANGED <<cut, server, selfHosted>>, leftover => leftover'
    PROVE  WorkKeeps(phase, plan) /\ PhaseHolds(phase, Tail(plan))'
<1>1. /\ phase \in Phases \ {"idle"} /\ PhaseHolds(phase, plan) /\ plan # <<>>
      /\ dirs \in Dirs /\ journal \in BOOLEAN /\ SparesHold
  BY SlotIs, StoreHolds
<1>2. phase \notin {"refused", "raised", "finished"}
  BY <1>1 DEF PhaseHolds
<1>3. CASE phase \in {"recovery", "check", "prepare", "undo"}
  <2>1. Recovering(plan) /\ (selfHosted => FromLive(plan))
    BY <1>1, <1>3 DEF PhaseHolds
  <2>2. /\ RecoveryKeeps(plan) /\ Recovering(Tail(plan))'
        /\ FromLive(plan) => Tail(plan) = <<>> \/ FromLive(Tail(plan))'
    BY <1>1, <2>1, RecoveryStep
  <2>3. WorkKeeps(phase, plan)
    BY <1>3, <2>1, <2>2 DEF WorkKeeps, RecoveryKeeps, Survives
  <2>4. PhaseHolds(phase, Tail(plan))'
    BY <1>1, <1>3, <2>1, <2>2 DEF PhaseHolds, RecoveryKeeps
  <2> QED
    BY <2>3, <2>4
<1>4. CASE phase = "stage"
  <2>1. Copying(plan) /\ ~selfHosted
    BY <1>1, <1>4 DEF PhaseHolds
  <2>2. CopyKeeps /\ Copying(Tail(plan))'
    BY <1>1, <2>1, CopyStep
  <2>3. WorkKeeps(phase, plan)
    BY <1>1, <1>4, <2>1, <2>2 DEF WorkKeeps, CopyKeeps, Survives, Uncommitted
  <2>4. PhaseHolds(phase, Tail(plan))'
    BY <1>1, <1>4, <2>1, <2>2 DEF PhaseHolds
  <2> QED
    BY <2>3, <2>4
<1>5. CASE phase = "commit"
  <2>1. Committing(plan) /\ ~selfHosted
    BY <1>1, <1>5 DEF PhaseHolds
  <2>2. SwapKeeps /\ Committing(Tail(plan))'
    BY <1>1, <2>1, SwapStep
  <2>3. WorkKeeps(phase, plan)
    BY <1>1, <1>5, <2>1, <2>2 DEF WorkKeeps, SwapKeeps, Survives
  <2>4. PhaseHolds(phase, Tail(plan))'
    BY <1>1, <1>5, <2>1, <2>2 DEF PhaseHolds
  <2> QED
    BY <2>3, <2>4
<1>6. CASE phase = "delete"
  <2>1. Removing(plan) /\ ~selfHosted /\ Deleting
    BY <1>1, <1>6 DEF PhaseHolds, Deleting
  <2>2. RemovalKeeps /\ Removing(Tail(plan))'
    BY <1>1, <2>1, RemovalStep
  <2>3. WorkKeeps(phase, plan)
    BY <1>1, <1>6, <2>1, <2>2 DEF WorkKeeps, RemovalKeeps, Survives
  <2>4. PhaseHolds(phase, Tail(plan))'
    BY <1>1, <1>6, <2>1, <2>2 DEF PhaseHolds
  <2> QED
    BY <2>3, <2>4
<1>7. CASE phase = "cleanup"
  <2>1. Unstaging(plan) /\ ~selfHosted
    BY <1>1, <1>7 DEF PhaseHolds
  <2>2. /\ RemovalKeeps /\ Unstaging(Tail(plan))'
        /\ Installed' = Installed \/ (leftover /\ Installed = StagingDir)
    BY <1>1, <2>1, CleanupStep
  <2>3. WorkKeeps(phase, plan)
    BY <1>1, <1>7, <2>1, <2>2 DEF WorkKeeps, RemovalKeeps, Survives
  <2>4. PhaseHolds(phase, Tail(plan))'
    BY <1>1, <1>7, <2>1, <2>2 DEF PhaseHolds
  <2> QED
    BY <2>3, <2>4
<1> QED
  BY <1>1, <1>2, <1>3, <1>4, <1>5, <1>6, <1>7 DEF Phases

LEMMA WorkTear ==
    ASSUME InstallInv, NEW o \in Ops, op[o] # Idle, op[o].plan # <<>>,
           NEW phase, NEW plan, phase = op[o].phase, plan = op[o].plan,
           Tears(Head(plan)), UNCHANGED <<server, selfHosted, leftover>>,
           cut' = (cut \/ (phase \in {"delete", "cleanup"} /\ Installed' # Installed))
    PROVE  WorkKeeps(phase, plan) /\ PhaseHolds(phase, plan)'
<1>1. /\ phase \in Phases \ {"idle"} /\ PhaseHolds(phase, plan) /\ plan # <<>>
      /\ dirs \in Dirs /\ journal \in BOOLEAN /\ SparesHold /\ cut \in BOOLEAN
  BY SlotIs, StoreHolds
<1>2. phase \notin {"refused", "raised", "finished"}
  BY <1>1 DEF PhaseHolds
<1>3. CASE phase \in {"recovery", "check", "prepare", "undo"}
  <2>0. cut' = cut
    BY <1>1, <1>3
  <2>1. Recovering(plan) /\ (selfHosted => FromLive(plan))
    BY <1>1, <1>3 DEF PhaseHolds
  <2>2. RecoveryKeeps(plan) /\ Recovering(plan)'
    BY <1>1, <2>0, <2>1, RecoveryTear
  <2>3. FromLive(plan) => FromLive(plan)'
    BY <1>1, <2>1, OthersDoNotTear, RmTears DEF FromLive
  <2>4. WorkKeeps(phase, plan)
    BY <1>3, <2>1, <2>2 DEF WorkKeeps, RecoveryKeeps, Survives
  <2>5. PhaseHolds(phase, plan)'
    BY <1>1, <1>3, <2>1, <2>2, <2>3 DEF PhaseHolds, RecoveryKeeps
  <2> QED
    BY <2>4, <2>5
<1>4. CASE phase = "stage"
  <2>0. cut' = cut
    BY <1>1, <1>4
  <2>1. Copying(plan) /\ ~selfHosted
    BY <1>1, <1>4 DEF PhaseHolds
  <2>2. CopyKeeps /\ Copying(plan)'
    BY <1>1, <2>0, <2>1, CopyTear
  <2>3. WorkKeeps(phase, plan)
    BY <1>1, <1>4, <2>1, <2>2 DEF WorkKeeps, CopyKeeps, Survives, Uncommitted
  <2>4. PhaseHolds(phase, plan)'
    BY <1>1, <1>4, <2>1, <2>2 DEF PhaseHolds
  <2> QED
    BY <2>3, <2>4
<1>5. CASE phase = "commit"
  <2>0. cut' = cut
    BY <1>1, <1>5
  <2>1. Committing(plan) /\ ~selfHosted
    BY <1>1, <1>5 DEF PhaseHolds
  <2>2. SwapKeeps /\ Committing(plan)'
    BY <1>1, <2>0, <2>1, SwapTear
  <2>3. WorkKeeps(phase, plan)
    BY <1>1, <1>5, <2>1, <2>2 DEF WorkKeeps, SwapKeeps, Survives
  <2>4. PhaseHolds(phase, plan)'
    BY <1>1, <1>5, <2>1, <2>2 DEF PhaseHolds
  <2> QED
    BY <2>3, <2>4
<1>6. CASE phase = "delete"
  <2>0. cut' = (cut \/ Installed' # Installed)
    BY <1>1, <1>6
  <2>1. Removing(plan) /\ ~selfHosted /\ Deleting
    BY <1>1, <1>6 DEF PhaseHolds, Deleting
  <2>2. RemovalKeeps /\ Removing(plan)'
    BY <1>1, <2>0, <2>1, RemovalTear
  <2>3. WorkKeeps(phase, plan)
    BY <1>1, <1>6, <2>1, <2>2 DEF WorkKeeps, RemovalKeeps, Survives
  <2>4. PhaseHolds(phase, plan)'
    BY <1>1, <1>6, <2>1, <2>2 DEF PhaseHolds
  <2> QED
    BY <2>3, <2>4
<1>7. CASE phase = "cleanup"
  <2>0. cut' = (cut \/ Installed' # Installed)
    BY <1>1, <1>7
  <2>1. Unstaging(plan) /\ ~selfHosted
    BY <1>1, <1>7 DEF PhaseHolds
  <2>2. /\ RemovalKeeps /\ Unstaging(plan)'
        /\ Installed' = Installed \/ (leftover /\ Installed = StagingDir)
    BY <1>1, <2>0, <2>1, CleanupTear
  <2>3. WorkKeeps(phase, plan)
    BY <1>1, <1>7, <2>1, <2>2 DEF WorkKeeps, RemovalKeeps, Survives
  <2>4. PhaseHolds(phase, plan)'
    BY <1>1, <1>7, <2>1, <2>2 DEF PhaseHolds
  <2> QED
    BY <2>3, <2>4
<1> QED
  BY <1>1, <1>2, <1>3, <1>4, <1>5, <1>6, <1>7 DEF Phases

-----------------------------------------------------------------------------
(* From one phase to the next.                                              *)

Servers == {"down", "booting", "fresh", "up", "stopping"}

LEMMA PhaseEntered ==
    ASSUME InstallInv, NEW o \in Ops, active \in {NoOp, o}, active' = o,
           NEW phase \in Phases \ {"idle"}, NEW plan, Enter(o, phase, plan),
           dirs' \in Dirs, journal' \in BOOLEAN, SparesHold',
           selfHosted' \in BOOLEAN, windows' \in BOOLEAN, cut' \in BOOLEAN, leftover' \in BOOLEAN,
           server' \in Servers, faults' \in 0..MaxFaults,
           selfHosted' => Valid(LiveDir'), PhaseHolds(phase, plan)'
    PROVE  InstallInv'
<1>1. /\ op = [q \in Ops |-> [phase |-> op[q].phase, plan |-> op[q].plan]]
      /\ \A q \in Ops : op[q].phase \in Phases /\ (op[q] # Idle <=> active = q)
  BY DEF InstallInv, TypeOK
<1>2. \A q \in Ops : op'[q] = IF q = o THEN [phase |-> phase, plan |-> plan] ELSE op[q]
  BY <1>1 DEF Enter
<1>3. \A q \in Ops \ {o} : op[q] = Idle
  BY <1>1, OpsAssumption
<1>4. [phase |-> phase, plan |-> plan] # Idle
  BY DEF Idle
<1>5. op' = [q \in Ops |-> [phase |-> op'[q].phase, plan |-> op'[q].plan]]
  <2>1. op' = [q \in Ops |-> op'[q]]
    BY <1>1 DEF Enter
  <2>2. \A q \in Ops : op'[q] = [phase |-> op'[q].phase, plan |-> op'[q].plan]
    BY <1>1, <1>2
  <2> QED
    BY <2>1, <2>2
<1>6. \A q \in Ops : op'[q].phase \in Phases /\ (op'[q] # Idle <=> active' = q)
  BY <1>1, <1>2, <1>3, <1>4
<1>7. \A q \in Ops : op'[q] # Idle => q = o /\ op'[q].phase = phase /\ op'[q].plan = plan
  BY <1>2, <1>3
<1>8. \A q \in Ops : (op[q] # Idle => PhaseHolds(op[q].phase, op[q].plan))'
  BY <1>7
<1>9. TypeOK'
  BY <1>6 DEF TypeOK, Dirs, Servers
<1>10. QuietIsClean'
  BY OpsAssumption DEF QuietIsClean
<1> QED
  BY <1>5, <1>8, <1>9, <1>10 DEF InstallInv

LEMMA GoesOn ==
    ASSUME InstallInv, NEW o \in Ops, op[o] # Idle,
           NEW phase \in Phases \ {"idle"}, NEW plan, Enter(o, phase, plan),
           UNCHANGED <<active, server, selfHosted, windows>>,
           dirs' \in Dirs, journal' \in BOOLEAN, SparesHold', cut' \in BOOLEAN, leftover' \in BOOLEAN,
           faults' \in 0..MaxFaults, selfHosted => LiveDir' = LiveDir, PhaseHolds(phase, plan)'
    PROVE  InstallInv' /\ StaysPut
<1>1. active = o
  BY SlotIs
<1>2. selfHosted' => Valid(LiveDir')
  BY StoreHolds
<1>3. selfHosted' \in BOOLEAN /\ windows' \in BOOLEAN /\ server' \in Servers /\ active' = o
  BY <1>1, StoreHolds DEF Servers
<1>4. InstallInv'
  BY <1>1, <1>2, <1>3, PhaseEntered
<1> QED
  BY <1>4 DEF StaysPut

LEMMA Freed ==
    ASSUME InstallInv, op' = [q \in Ops |-> Idle], active' = NoOp,
           dirs' \in Dirs, journal' \in BOOLEAN, SparesHold',
           selfHosted' \in BOOLEAN, windows' \in BOOLEAN, cut' \in BOOLEAN, leftover' \in BOOLEAN,
           server' \in Servers, faults' \in 0..MaxFaults,
           selfHosted' => Valid(LiveDir'), QuietIsClean'
    PROVE  InstallInv'
<1>1. \A q \in Ops : op'[q] = Idle
  OBVIOUS
<1>2. op' = [q \in Ops |-> [phase |-> op'[q].phase, plan |-> op'[q].plan]]
  <2>1. \A q \in Ops : op'[q] = [phase |-> op'[q].phase, plan |-> op'[q].plan]
    BY <1>1 DEF Idle
  <2> QED
    BY <2>1
<1>3. \A q \in Ops : op'[q].phase \in Phases /\ (op'[q] # Idle <=> active' = q)
  BY <1>1, OpsAssumption DEF Idle, Phases
<1>4. TypeOK'
  BY <1>3 DEF TypeOK, Dirs, Servers
<1>5. \A q \in Ops : (op[q] # Idle => PhaseHolds(op[q].phase, op[q].plan))'
  BY <1>1
<1> QED
  BY <1>2, <1>4, <1>5 DEF InstallInv

(* When a slot gives back the guard nobody holds it.                        *)
LEMMA AllIdle ==
    ASSUME InstallInv, NEW o \in Ops, op[o] # Idle
    PROVE  [op EXCEPT ![o] = Idle] = [q \in Ops |-> Idle]
<1>1. /\ op = [q \in Ops |-> [phase |-> op[q].phase, plan |-> op[q].plan]]
      /\ \A q \in Ops : (op[q] # Idle <=> active = q)
  BY DEF InstallInv, TypeOK
<1>2. \A q \in Ops \ {o} : op[q] = Idle
  BY <1>1
<1> QED
  BY <1>1, <1>2

LEMMA NobodyWorks ==
    ASSUME InstallInv, active = NoOp
    PROVE  op = [q \in Ops |-> Idle]
<1>1. /\ op = [q \in Ops |-> [phase |-> op[q].phase, plan |-> op[q].plan]]
      /\ \A q \in Ops : (op[q] # Idle <=> active = q)
  BY DEF InstallInv, TypeOK
<1>2. \A q \in Ops : op[q] = Idle
  BY <1>1, OpsAssumption
<1> QED
  BY <1>1, <1>2

(* The end of each phase.                                                   *)
LEMMA EndsAre ==
    /\ Recovering(<<>>) => Clean /\ (Valid(LiveDir) \/ Bare(LiveDir))
    /\ Committing(<<>>) => Clean /\ Valid(LiveDir)
    /\ Copying(<<>>) => Uncommitted /\ StagingDir # Absent /\ ServerIn(StagingDir) /\ LibsIn(StagingDir)
    /\ Removing(<<>>) => Clean
    /\ Unstaging(<<>>) => StagingDir = Absent /\ (leftover \/ (BackupDir = Absent /\ ~journal))
<1>1. Recovering(<<>>) => Clean /\ (Valid(LiveDir) \/ Bare(LiveDir))
  BY DEF Recovering, FromLive
<1>2. Committing(<<>>) => Clean /\ Valid(LiveDir)
  BY DEF Committing, CommitPlan
<1>3. Copying(<<>>) => Uncommitted /\ StagingDir # Absent /\ ServerIn(StagingDir) /\ LibsIn(StagingDir)
  <2>1. \A l \in BOOLEAN : Fetches(TRUE, l) # <<>>
    <3>1. \A a, b, c : <<a>> # <<>> /\ <<a, b, c>> # <<>>
      OBVIOUS
    <3>2. Fetches(TRUE, TRUE) # <<>>
      BY <3>1, FetchesAre, Zenon
    <3>3. Fetches(TRUE, FALSE) # <<>>
      BY <3>1, FetchesAre, Zenon
    <3> QED
      BY <3>2, <3>3
  <2>2. \A s, l \in BOOLEAN : StagePlan(s, l) # <<>> /\ << <<"copy">> >> \o Fetches(s, l) # <<>>
    BY CopiesAre
  <2> QED
    BY <2>1, <2>2 DEF Copying, Copied
<1>4. Removing(<<>>) => Clean
  BY DEF Removing, DeletePlan
<1>5. Unstaging(<<>>) => StagingDir = Absent /\ (leftover \/ (BackupDir = Absent /\ ~journal))
  BY DEF Unstaging, Cleanup
<1> QED
  BY <1>1, <1>2, <1>3, <1>4, <1>5

LEMMA EndedIs ==
    ASSUME InstallInv, NEW o \in Ops, NEW phase \in Phases \ {"idle"}, Ended(o, phase)
    PROVE  op[o] # Idle /\ op[o].phase = phase /\ op[o].plan = <<>> /\ PhaseHolds(phase, <<>>)
<1>1. op[o] # Idle /\ op[o].phase = phase /\ op[o].plan = <<>>
  BY DEF Ended, Idle
<1> QED
  BY <1>1, SlotIs

LEMMA ForgetsSoundly ==
    ASSUME dirs \in Dirs, SparesHold, StagingDir = Absent, cut' = StillCut, journal' = journal,
           dirs' = dirs \/ dirs' = LiveMade
    PROVE  SparesHold' /\ Installed' = Installed
<1> USE DirFacts
<1>1. /\ StagingDir' = StagingDir /\ BackupDir' = BackupDir /\ (Valid(LiveDir') <=> Valid(LiveDir))
      /\ Valid(LiveDir) => LiveDir' = LiveDir
  <2>1. CASE dirs' = dirs
    BY <2>1 DEF LiveDir, StagingDir, BackupDir
  <2>2. CASE dirs' = LiveMade
    BY <2>2, LiveMadeIs
  <2> QED
    BY <2>1, <2>2
<1> QED
  BY <1>1, InstalledIs, InstalledNextIs DEF SparesHold, Trusted, StillCut

-----------------------------------------------------------------------------
(* The steps of the slot that works.                                        *)

LEMMA TearKeeps ==
    ASSUME InstallInv, NEW o \in Ops, Tear(o)
    PROVE  InstallInv' /\ Survives /\ StaysPut
<1>1. op[o] # Idle /\ op[o].plan # <<>>
  BY DEF Tear, Pending, Idle
<1>2. PICK phase, plan : phase = op[o].phase /\ plan = op[o].plan
  OBVIOUS
<1>3. /\ Tears(Head(plan)) /\ UNCHANGED <<active, op, server, selfHosted, windows, faults, leftover>>
      /\ cut' = (cut \/ (phase \in {"delete", "cleanup"} /\ Installed' # Installed))
  BY <1>2 DEF Tear, Tears, Call
<1>4. WorkKeeps(phase, plan) /\ PhaseHolds(phase, plan)'
  BY <1>1, <1>2, <1>3, WorkTear
<1>5. phase \in Phases \ {"idle"}
  BY <1>1, <1>2, SlotIs
<1>6. Enter(o, phase, plan)
  <2>1. op[o] = [phase |-> phase, plan |-> plan]
    BY <1>1, <1>2, SlotIs
  <2>2. op = [q \in Ops |-> [phase |-> op[q].phase, plan |-> op[q].plan]]
    BY DEF InstallInv
  <2> QED
    BY <1>3, <2>1, <2>2 DEF Enter
<1>7. cut' \in BOOLEAN /\ leftover' \in BOOLEAN /\ faults' \in 0..MaxFaults
  BY <1>3, StoreHolds
<1>8. InstallInv' /\ StaysPut
  BY <1>1, <1>3, <1>4, <1>5, <1>6, <1>7, GoesOn DEF WorkKeeps
<1> QED
  BY <1>4, <1>8 DEF WorkKeeps

LEMMA StepKeeps ==
    ASSUME InstallInv, NEW o \in Ops, Step(o)
    PROVE  InstallInv' /\ Survives /\ StaysPut
<1>1. op[o] # Idle /\ op[o].plan # <<>>
  BY DEF Step, Pending, Idle
<1>2. PICK phase, plan : phase = op[o].phase /\ plan = op[o].plan
  OBVIOUS
<1>3. Does(Head(plan)) /\ UNCHANGED <<active, server, selfHosted, windows, faults, cut, leftover>>
  BY <1>2 DEF Step, Does, Call
<1>4. WorkKeeps(phase, plan) /\ PhaseHolds(phase, Tail(plan))'
  BY <1>1, <1>2, <1>3, WorkStep
<1>5. phase \in Phases \ {"idle"}
  BY <1>1, <1>2, SlotIs
<1>6. PICK rest : rest = Tail(plan)
  OBVIOUS
<1>7. Enter(o, phase, rest)
  <2>1. op[o] = [phase |-> phase, plan |-> plan]
    BY <1>1, <1>2, SlotIs
  <2>2. op' = [op EXCEPT ![o] = [op[o] EXCEPT !.plan = rest]]
    BY <1>2, <1>6 DEF Step
  <2>3. [op[o] EXCEPT !.plan = rest] = [phase |-> phase, plan |-> rest]
    BY <2>1
  <2> QED
    BY <2>2, <2>3 DEF Enter
<1>8. cut' \in BOOLEAN /\ leftover' \in BOOLEAN /\ faults' \in 0..MaxFaults
  BY <1>3, StoreHolds
<1>9. PhaseHolds(phase, rest)'
  BY <1>4, <1>6
<1>10. InstallInv' /\ StaysPut
  BY <1>1, <1>3, <1>4, <1>5, <1>7, <1>8, <1>9, GoesOn DEF WorkKeeps
<1> QED
  BY <1>4, <1>10 DEF WorkKeeps

(* Where an exception leads there is what that phase starts from.           *)
LEMMA ErrorKeeps ==
    ASSUME InstallInv, NEW o \in Ops, op[o] # Idle, op[o].plan # <<>>,
           NEW phase, NEW plan, phase = op[o].phase, plan = op[o].plan,
           WorkKeeps(phase, plan), phase \in {"check", "prepare"} => leftover' \/ Clean',
           OnError(o), Untidy(o),
           UNCHANGED <<active, server, selfHosted, windows, cut>>, faults' \in 0..MaxFaults
    PROVE  InstallInv' /\ Survives /\ StaysPut
<1>1. phase \in Phases \ {"idle"} /\ PhaseHolds(phase, plan) /\ plan # <<>>
  BY SlotIs
<1>2. phase \notin {"refused", "raised", "finished"}
  BY <1>1 DEF PhaseHolds
<1>3. leftover' = (leftover \/ phase \in {"undo", "cleanup", "delete"})
  BY DEF Untidy
<1>4. \E next, rest : next \in Phases \ {"idle"} /\ Enter(o, next, rest) /\ PhaseHolds(next, rest)'
  <2>1. CASE phase = "recovery"
    <3>1. Enter(o, "refused", <<>>)
      BY <2>1 DEF OnError
    <3>2. server' = "booting"
      BY <1>1, <2>1 DEF PhaseHolds
    <3>3. PhaseHolds("refused", <<>>)'
      BY <3>2 DEF PhaseHolds
    <3> QED
      BY <3>1, <3>3 DEF Phases
  <2>2. CASE phase \in {"stage", "undo"}
    <3>1. Enter(o, "cleanup", Cleanup)
      BY <2>2 DEF OnError
    <3>2. server' # "booting" /\ ~selfHosted'
      BY <1>1, <2>2 DEF PhaseHolds
    <3>3. leftover' \/ (BackupDir' = Absent /\ ~journal')
      BY <1>3, <2>2 DEF WorkKeeps
    <3>4. PhaseHolds("cleanup", Cleanup)'
      BY <3>2, <3>3 DEF PhaseHolds, Unstaging, Cleanup
    <3> QED
      BY <3>1, <3>4 DEF Phases
  <2>3. CASE phase = "commit"
    <3>1. Enter(o, "raised", <<>>)
      BY <2>3 DEF OnError
    <3>2. server' # "booting" /\ ~selfHosted'
      BY <1>1, <2>3 DEF PhaseHolds
    <3>3. PhaseHolds("raised", <<>>)'
      BY <3>2 DEF PhaseHolds
    <3> QED
      BY <3>1, <3>3 DEF Phases
  <2>4. CASE phase \in {"check", "prepare", "delete", "cleanup"}
    <3>1. Enter(o, "finished", <<>>)
      BY <2>4 DEF OnError
    <3>2. server' # "booting" /\ ~selfHosted'
      BY <1>1, <2>4 DEF PhaseHolds
    <3>3. leftover' \/ Clean'
      BY <1>3, <2>4
    <3>4. PhaseHolds("finished", <<>>)'
      BY <3>2, <3>3 DEF PhaseHolds
    <3> QED
      BY <3>1, <3>4 DEF Phases
  <2> QED
    BY <1>1, <1>2, <2>1, <2>2, <2>3, <2>4 DEF Phases
<1>5. PICK next, rest : next \in Phases \ {"idle"} /\ Enter(o, next, rest) /\ PhaseHolds(next, rest)'
  BY <1>4
<1>6. cut' \in BOOLEAN /\ leftover' \in BOOLEAN
  BY <1>3, StoreHolds
<1>7. InstallInv' /\ StaysPut
  BY <1>5, <1>6, GoesOn DEF WorkKeeps
<1> QED
  BY <1>7 DEF WorkKeeps

(* Where nothing moves what a phase has to keep is kept.                    *)
LEMMA StillKeeps ==
    ASSUME InstallInv, NEW o \in Ops, op[o] # Idle,
           NEW phase, NEW plan, phase = op[o].phase, plan = op[o].plan,
           UNCHANGED <<dirs, journal, cut>>, leftover => leftover'
    PROVE  WorkKeeps(phase, plan) /\ (phase \in {"check", "prepare"} => leftover' \/ Clean')
<1>1. PhaseHolds(phase, plan) /\ dirs \in Dirs /\ journal \in BOOLEAN /\ SparesHold
  BY SlotIs, StoreHolds
<1>2. LiveDir' = LiveDir /\ StagingDir' = StagingDir /\ BackupDir' = BackupDir
  BY DEF LiveDir, StagingDir, BackupDir
<1>3. SparesHold' /\ Installed' = Installed
  BY <1>1, <1>2, InstalledIs, InstalledNextIs DEF SparesHold, Trusted
<1>4. phase = "stage" => BackupDir = Absent /\ ~journal
  BY <1>1 DEF PhaseHolds, Copying, Uncommitted
<1>5. phase \in {"check", "prepare"} => leftover \/ Clean
  BY <1>1 DEF PhaseHolds
<1> QED
  BY <1>1, <1>2, <1>3, <1>4, <1>5 DEF WorkKeeps, Survives, Clean

LEMMA FaultKeeps ==
    ASSUME InstallInv, NEW o \in Ops, Fault(o) \/ Collide(o)
    PROVE  InstallInv' /\ Survives /\ StaysPut
<1>1. /\ op[o] # Idle /\ op[o].plan # <<>> /\ OnError(o) /\ Untidy(o)
      /\ UNCHANGED <<active, server, selfHosted, windows, cut>>
  BY DEF Fault, Collide, Pending, Idle
<1>2. PICK phase, plan : phase = op[o].phase /\ plan = op[o].plan
  OBVIOUS
<1>3. faults' \in 0..MaxFaults
  <2>1. faults \in 0..MaxFaults /\ MaxFaults \in Nat
    BY StoreHolds, FaultsAssumption
  <2>2. faults' = faults \/ (faults < MaxFaults /\ faults' = faults + 1)
    BY DEF Fault, Collide
  <2> QED
    BY <2>1, <2>2
<1>4. leftover => leftover'
  BY <1>1 DEF Untidy
<1>5. UNCHANGED <<dirs, journal>> \/ Does(Head(plan))
  BY <1>2 DEF Fault, Collide, Does, Call
<1>6. WorkKeeps(phase, plan) /\ (phase \in {"check", "prepare"} => leftover' \/ Clean')
  <2>1. CASE UNCHANGED <<dirs, journal>>
    BY <1>1, <1>2, <1>4, <2>1, StillKeeps
  <2>2. CASE Does(Head(plan))
    <3>1. WorkKeeps(phase, plan) /\ PhaseHolds(phase, Tail(plan))'
      BY <1>1, <1>2, <1>4, <2>2, WorkStep
    <3> QED
      BY <3>1 DEF PhaseHolds
  <2> QED
    BY <1>5, <2>1, <2>2
<1> QED
  BY <1>1, <1>2, <1>3, <1>6, ErrorKeeps

(* A recovery that begins, in the phase that is for it.                     *)
LEMMA Begun ==
    ASSUME InstallInv, NEW o \in Ops,
           NEW phase \in {"recovery", "check", "prepare"}, NEW onError \in {"refused", "finished"},
           EnterRecovery(o, phase, onError),
           onError = "refused" <=> phase = "recovery",
           dirs' = dirs \/ dirs' = LiveMade, UNCHANGED journal,
           server' = "booting" <=> phase = "recovery",
           phase # "recovery" => leftover' \/ Clean,
           selfHosted' => Valid(LiveDir) /\ phase = "recovery" /\ dirs' = dirs
    PROVE  \E next, plan : next \in Phases \ {"idle"} /\ Enter(o, next, plan) /\ PhaseHolds(next, plan)'
<1>1. dirs \in Dirs /\ journal \in BOOLEAN
  BY StoreHolds
<1>2. Clean => Clean'
  BY <1>1, LiveMadeIs DEF Clean, LiveDir, StagingDir, BackupDir
<1>3. CASE Unrecoverable
  <2>1. Enter(o, onError, <<>>)
    BY <1>3 DEF EnterRecovery
  <2>2. PhaseHolds(onError, <<>>)'
    BY <1>2 DEF PhaseHolds
  <2>3. onError \in Phases \ {"idle"}
    BY DEF Phases
  <2> QED
    BY <2>1, <2>2, <2>3
<1>4. CASE ~Unrecoverable
  <2>1. PICK plan : plan = RecoverPlan
    OBVIOUS
  <2>2. Enter(o, phase, plan)
    BY <1>4, <2>1 DEF EnterRecovery
  <2>3. Recovering(plan) /\ (Valid(LiveDir) => FromLive(plan))
    BY <1>4, <2>1, RecoveringPlanIs
  <2>4. Recovering(plan)'
    <3>1. CASE dirs' = dirs
      BY <2>3, <3>1 DEF Recovering, FromLive, NothingLeft, Clean, LiveDir, StagingDir, BackupDir
    <3>2. CASE dirs' = LiveMade
      <4>1. (FromLive(plan) => FromLive(plan)') /\ (NothingLeft => NothingLeft')
        BY <1>1, <3>2, LiveMadeIs DEF FromLive, NothingLeft
      <4> QED
        BY <1>1, <1>2, <2>3, <3>2, <4>1, LiveMadeIs DEF Recovering
    <3> QED
      BY <3>1, <3>2
  <2>5. selfHosted' => FromLive(plan)'
    BY <2>3 DEF FromLive, LiveDir, StagingDir, BackupDir
  <2>6. PhaseHolds(phase, plan)'
    BY <1>2, <2>4, <2>5 DEF PhaseHolds
  <2>7. phase \in Phases \ {"idle"}
    BY DEF Phases
  <2> QED
    BY <2>2, <2>6, <2>7
<1> QED
  BY <1>3, <1>4

LEMMA BootKeeps ==
    ASSUME InstallInv, NEW o \in Ops, Boot(o)
    PROVE  InstallInv' /\ Survives /\ StaysPut
<1>1. /\ active = NoOp /\ active' = o /\ server' = "booting" /\ selfHosted' \in {FALSE, Valid(LiveDir)}
      /\ EnterRecovery(o, "recovery", "refused")
      /\ UNCHANGED <<dirs, journal, windows, faults, cut, leftover>>
  BY DEF Boot, LiveDir
<1>2. PICK next, plan : next \in Phases \ {"idle"} /\ Enter(o, next, plan) /\ PhaseHolds(next, plan)'
  BY <1>1, Begun
<1>3. LiveDir' = LiveDir /\ SparesHold' /\ Installed' = Installed
  BY <1>1, StoreHolds, InstalledIs, InstalledNextIs DEF SparesHold, Trusted, LiveDir, StagingDir, BackupDir
<1>4. selfHosted' \in BOOLEAN /\ (selfHosted' => Valid(LiveDir'))
  BY <1>1, <1>3 DEF Valid
<1>5. InstallInv'
  BY <1>1, <1>2, <1>3, <1>4, StoreHolds, PhaseEntered DEF Servers
<1> QED
  BY <1>3, <1>5 DEF Survives, StaysPut

(* A server that comes up or stops leaves its operations as they are.       *)
LEMMA ServerMoves ==
    ASSUME InstallInv, server \in {"fresh", "up"}, server' \in {"up", "stopping"},
           UNCHANGED <<dirs, journal, active, op, selfHosted, windows, faults, cut, leftover>>
    PROVE  InstallInv' /\ Survives /\ StaysPut
<1>1. /\ LiveDir' = LiveDir /\ StagingDir' = StagingDir /\ BackupDir' = BackupDir
      /\ SparesHold' /\ Installed' = Installed /\ Survives /\ StaysPut
  BY StoreHolds, InstalledIs, InstalledNextIs DEF SparesHold, Trusted, LiveDir, StagingDir, BackupDir, Survives, StaysPut
<1>2. TypeOK' /\ QuietIsClean'
  BY DEF InstallInv, TypeOK, QuietIsClean
<1>3. \A q \in Ops : op[q] # Idle => PhaseHolds(op[q].phase, op[q].plan)'
  <2> SUFFICES ASSUME NEW q \in Ops, op[q] # Idle PROVE PhaseHolds(op[q].phase, op[q].plan)'
    OBVIOUS
  <2>1. PICK phase, plan : phase = op[q].phase /\ plan = op[q].plan
    OBVIOUS
  <2>2. PhaseHolds(phase, plan)
    BY <2>1, SlotIs
  <2>3. /\ Recovering(plan) => Recovering(plan)'
        /\ FromLive(plan) => FromLive(plan)'
        /\ Copying(plan) => Copying(plan)'
        /\ Committing(plan) => Committing(plan)'
        /\ Removing(plan) => Removing(plan)'
        /\ Unstaging(plan) => Unstaging(plan)'
        /\ Clean => Clean'
    BY <1>1 DEF Recovering, FromLive, NothingLeft, Copying, Copied, Uncommitted, ServerIn, LibsIn, Committing, Ready, Trusted, Removing, Unstaging, Clean
  <2>4. PhaseHolds(phase, plan)'
    BY <2>2, <2>3 DEF PhaseHolds
  <2> QED
    BY <2>1, <2>4
<1>4. InstallInv'
  BY <1>1, <1>2, <1>3 DEF InstallInv
<1> QED
  BY <1>1, <1>4

LEMMA UpdateKeeps ==
    ASSUME InstallInv, NEW o \in Ops, Update(o)
    PROVE  InstallInv' /\ Survives /\ StaysPut
<1>1. server = "fresh" /\ server' = "up" /\ UNCHANGED <<dirs, journal, selfHosted, windows, faults, cut, leftover>>
  BY DEF Update
<1>2. SparesHold' /\ Installed' = Installed /\ Survives /\ StaysPut /\ LiveDir' = LiveDir
  BY <1>1, StoreHolds, InstalledIs, InstalledNextIs DEF SparesHold, Trusted, LiveDir, StagingDir, BackupDir, Survives, StaysPut
<1>3. CASE selfHosted \/ active # NoOp
  <2>1. UNCHANGED <<active, op>>
    BY <1>3 DEF Update
  <2> QED
    BY <1>1, <2>1, ServerMoves
<1>4. CASE ~(selfHosted \/ active # NoOp)
  <2>1. active = NoOp /\ active' = o /\ ~selfHosted /\ EnterRecovery(o, "check", "finished")
    BY <1>4 DEF Update, Reserve
  <2>2. leftover' \/ Clean
    BY <1>1, <2>1 DEF InstallInv, QuietIsClean, Clean, StagingDir, BackupDir
  <2>3. PICK next, plan : next \in Phases \ {"idle"} /\ Enter(o, next, plan) /\ PhaseHolds(next, plan)'
    BY <1>1, <2>1, <2>2, Begun
  <2>4. InstallInv'
    BY <1>1, <1>2, <2>1, <2>3, StoreHolds, PhaseEntered DEF Servers
  <2> QED
    BY <1>2, <2>4
<1> QED
  BY <1>3, <1>4

LEMMA DownloadKeeps ==
    ASSUME InstallInv, NEW o \in Ops, Download(o)
    PROVE  InstallInv' /\ Survives /\ StaysPut
<1>1. /\ server \in {"fresh", "up"} /\ ~Valid(LiveDir) /\ dirs' = LiveMade
      /\ active = NoOp /\ active' = o /\ EnterRecovery(o, "prepare", "finished")
      /\ UNCHANGED <<journal, server, selfHosted, windows, faults, cut, leftover>>
  BY DEF Download, Reserve, LiveDir
<1>2. ~selfHosted
  BY <1>1, StoreHolds
<1>3. dirs' \in Dirs /\ SparesHold' /\ Installed' = Installed
  BY <1>1, StoreHolds, LiveMadeIs, MadeKeeps
<1>4. leftover' \/ Clean
  BY <1>1 DEF InstallInv, QuietIsClean, Clean, StagingDir, BackupDir
<1>5. PICK next, plan : next \in Phases \ {"idle"} /\ Enter(o, next, plan) /\ PhaseHolds(next, plan)'
  BY <1>1, <1>2, <1>3, <1>4, Begun
<1>6. InstallInv'
  BY <1>1, <1>2, <1>3, <1>5, StoreHolds, PhaseEntered DEF Servers
<1> QED
  BY <1>2, <1>3, <1>6 DEF Survives, StaysPut

LEMMA DeleteKeeps ==
    ASSUME InstallInv, NEW o \in Ops, Delete(o)
    PROVE  InstallInv' /\ Survives /\ StaysPut
<1>1. /\ server \in {"fresh", "up"} /\ ~selfHosted /\ active = NoOp /\ active' = o
      /\ UNCHANGED <<dirs, journal, server, selfHosted, windows, faults, cut, leftover>>
  BY DEF Delete, Reserve
<1>2. PICK plan : plan = DeletePlan
  OBVIOUS
<1>3. Enter(o, "delete", plan)
  BY <1>2 DEF Delete
<1>4. LiveDir' = LiveDir /\ SparesHold' /\ Installed' = Installed
  BY <1>1, StoreHolds, InstalledIs, InstalledNextIs DEF SparesHold, Trusted, LiveDir, StagingDir, BackupDir
<1>5. PhaseHolds("delete", plan)'
  BY <1>1, <1>2 DEF PhaseHolds, Removing, DeletePlan
<1>6. "delete" \in Phases \ {"idle"}
  BY DEF Phases
<1>7. InstallInv'
  BY <1>1, <1>3, <1>4, <1>5, <1>6, StoreHolds, PhaseEntered DEF Servers
<1> QED
  BY <1>4, <1>7 DEF Survives, StaysPut

LEMMA RecoveredKeeps ==
    ASSUME InstallInv, NEW o \in Ops, Recovered(o)
    PROVE  InstallInv' /\ Survives /\ StaysPut
<1>1. /\ Ended(o, "recovery") /\ server' = "fresh" /\ active' = NoOp /\ op' = [op EXCEPT ![o] = Idle]
      /\ cut' = StillCut /\ leftover' = FALSE /\ UNCHANGED <<dirs, journal, selfHosted, windows, faults>>
  BY DEF Recovered
<1>2. op[o] # Idle /\ PhaseHolds("recovery", <<>>)
  BY <1>1, EndedIs DEF Phases
<1>3. Clean
  BY <1>2, EndsAre DEF PhaseHolds
<1>4. SparesHold' /\ Installed' = Installed
  BY <1>1, <1>3, StoreHolds, ForgetsSoundly DEF Clean
<1>5. LiveDir' = LiveDir /\ QuietIsClean'
  BY <1>1, <1>3 DEF QuietIsClean, Clean, LiveDir, StagingDir, BackupDir
<1>6. cut' \in BOOLEAN
  BY <1>1, StoreHolds DEF StillCut
<1>7. op' = [q \in Ops |-> Idle]
  BY <1>1, <1>2, AllIdle
<1>8. InstallInv'
  BY <1>1, <1>4, <1>5, <1>6, <1>7, StoreHolds, Freed DEF Servers
<1> QED
  BY <1>4, <1>5, <1>8 DEF Survives, StaysPut

LEMMA CheckedKeeps ==
    ASSUME InstallInv, NEW o \in Ops, Checked(o)
    PROVE  InstallInv' /\ Survives /\ StaysPut
<1>1. /\ Ended(o, "check") /\ dirs' = LiveMade /\ cut' = StillCut /\ leftover' = FALSE
      /\ UNCHANGED <<journal, active, server, selfHosted, windows, faults>>
  BY DEF Checked
<1>2. op[o] # Idle /\ PhaseHolds("check", <<>>)
  BY <1>1, EndedIs DEF Phases
<1>3. Clean /\ server # "booting" /\ ~selfHosted
  BY <1>2, EndsAre DEF PhaseHolds
<1>4. dirs' \in Dirs /\ SparesHold' /\ Installed' = Installed
  BY <1>1, <1>3, StoreHolds, ForgetsSoundly, LiveMadeIs DEF Clean
<1>5. Clean'
  BY <1>1, <1>3, StoreHolds, LiveMadeIs DEF Clean
<1>6. \E next, plan : next \in Phases \ {"idle"} /\ Enter(o, next, plan) /\ PhaseHolds(next, plan)'
  <2>1. CASE EnterRecovery(o, "prepare", "finished")
    BY <1>1, <1>3, <2>1, Begun
  <2>2. CASE Enter(o, "finished", <<>>)
    <3>1. PhaseHolds("finished", <<>>)'
      BY <1>1, <1>3, <1>5 DEF PhaseHolds
    <3> QED
      BY <2>2, <3>1 DEF Phases
  <2> QED
    BY <2>1, <2>2 DEF Checked
<1>7. PICK next, plan : next \in Phases \ {"idle"} /\ Enter(o, next, plan) /\ PhaseHolds(next, plan)'
  BY <1>6
<1>8. cut' \in BOOLEAN
  BY <1>1, StoreHolds DEF StillCut
<1>9. InstallInv' /\ StaysPut
  BY <1>1, <1>2, <1>3, <1>4, <1>7, <1>8, StoreHolds, GoesOn
<1> QED
  BY <1>4, <1>9 DEF Survives

LEMMA PreparedKeeps ==
    ASSUME InstallInv, NEW o \in Ops, Prepared(o)
    PROVE  InstallInv' /\ Survives /\ StaysPut
<1>1. /\ Ended(o, "prepare") /\ dirs' = LiveMade /\ cut' = StillCut /\ leftover' = FALSE
      /\ UNCHANGED <<journal, active, server, selfHosted, windows, faults>>
  BY DEF Prepared
<1>2. op[o] # Idle /\ PhaseHolds("prepare", <<>>)
  BY <1>1, EndedIs DEF Phases
<1>3. Clean /\ (Valid(LiveDir) \/ Bare(LiveDir)) /\ server # "booting" /\ ~selfHosted
  BY <1>2, EndsAre DEF PhaseHolds
<1>4. dirs' \in Dirs /\ SparesHold' /\ Installed' = Installed
  BY <1>1, <1>3, StoreHolds, ForgetsSoundly, LiveMadeIs DEF Clean
<1>5. Clean'
  BY <1>1, <1>3, StoreHolds, LiveMadeIs DEF Clean
<1>6. LiveMade["live"] = LiveDir' /\ (Valid(LiveDir') \/ LiveDir' = Empty)
  <2>1. LiveMade["live"] = LiveDir'
    BY <1>1 DEF LiveDir
  <2>2. Valid(LiveDir') \/ LiveDir' = Empty
    BY <1>1, <1>3, StoreHolds, LiveMadeIs DEF Bare
  <2> QED
    BY <2>1, <2>2
<1>7. PICK s \in NeedServer(LiveMade["live"]), l \in NeedLibs(LiveMade["live"]) :
        IF s \/ l THEN Enter(o, "stage", StagePlan(s, l)) ELSE Enter(o, "finished", <<>>)
  BY DEF Prepared
<1>8. s \in BOOLEAN /\ l \in BOOLEAN /\ (s \/ LiveDir'.exe = Current) /\ (l \/ LiveDir'.mark = Current)
  <2>1. s \in {TRUE, LiveDir'.exe # Current} /\ l \in {TRUE, LiveDir'.mark # Current}
    BY <1>6, <1>7 DEF NeedServer, NeedLibs
  <2> QED
    BY <2>1
<1>9. \E next, plan : next \in Phases \ {"idle"} /\ Enter(o, next, plan) /\ PhaseHolds(next, plan)'
  <2>1. CASE s \/ l
    <3>1. PICK plan : plan = StagePlan(s, l)
      OBVIOUS
    <3>2. Enter(o, "stage", plan)
      BY <1>7, <2>1, <3>1
    <3>3. Uncommitted'
      BY <1>5, <1>6 DEF Uncommitted, Clean
    <3>4. Copying(plan)'
      BY <1>8, <3>1, <3>3 DEF Copying
    <3>5. PhaseHolds("stage", plan)'
      BY <1>1, <1>3, <3>4 DEF PhaseHolds
    <3> QED
      BY <3>2, <3>5 DEF Phases
  <2>2. CASE ~(s \/ l)
    <3>1. Enter(o, "finished", <<>>)
      BY <1>7, <2>2
    <3>2. PhaseHolds("finished", <<>>)'
      BY <1>1, <1>3, <1>5 DEF PhaseHolds
    <3> QED
      BY <3>1, <3>2 DEF Phases
  <2> QED
    BY <2>1, <2>2
<1>10. PICK next, plan : next \in Phases \ {"idle"} /\ Enter(o, next, plan) /\ PhaseHolds(next, plan)'
  BY <1>9
<1>11. cut' \in BOOLEAN
  BY <1>1, StoreHolds DEF StillCut
<1>12. InstallInv' /\ StaysPut
  BY <1>1, <1>2, <1>3, <1>4, <1>10, <1>11, StoreHolds, GoesOn
<1> QED
  BY <1>4, <1>12 DEF Survives

(* What was staged is up to date, and whole unless a deletion tore what it  *)
(* was copied from.                                                         *)
LEMMA StagedKeeps ==
    ASSUME InstallInv, NEW o \in Ops, Staged(o)
    PROVE  InstallInv' /\ Survives /\ StaysPut
<1>1. Ended(o, "stage") /\ UNCHANGED <<dirs, journal, active, server, selfHosted, windows, faults, cut, leftover>>
  BY DEF Staged
<1>2. op[o] # Idle /\ PhaseHolds("stage", <<>>)
  BY <1>1, EndedIs DEF Phases
<1>3. /\ Uncommitted /\ StagingDir # Absent /\ ServerIn(StagingDir) /\ LibsIn(StagingDir)
      /\ server # "booting" /\ ~selfHosted
  BY <1>2, EndsAre DEF PhaseHolds
<1>4. LiveDir' = LiveDir /\ StagingDir' = StagingDir /\ BackupDir' = BackupDir /\ SparesHold' /\ Installed' = Installed
  BY <1>1, StoreHolds, InstalledIs, InstalledNextIs DEF SparesHold, Trusted, LiveDir, StagingDir, BackupDir
<1>5. \E next, plan : next \in Phases \ {"idle"} /\ Enter(o, next, plan) /\ PhaseHolds(next, plan)'
  <2>1. CASE Enter(o, "commit", CommitPlan) /\ Valid(StagingDir)
    <3>1. Ready(StagingDir)
      BY <1>3, <2>1 DEF Ready, Trusted, Whole, ServerIn, LibsIn, Current, Gone
    <3>2. LiveDir # Absent
      BY <1>3, DirFacts DEF Uncommitted
    <3>3. PICK plan : plan = CommitPlan
      OBVIOUS
    <3>4. Committing(plan)'
      BY <1>1, <1>3, <1>4, <3>1, <3>2, <3>3 DEF Committing, Uncommitted, Ready, Trusted
    <3>5. PhaseHolds("commit", plan)'
      BY <1>1, <1>3, <3>4 DEF PhaseHolds
    <3> QED
      BY <2>1, <3>3, <3>5 DEF Phases
  <2>2. CASE Enter(o, "cleanup", Cleanup)
    <3>1. PICK plan : plan = Cleanup
      OBVIOUS
    <3>2. Unstaging(plan)'
      BY <1>1, <1>3, <1>4, <3>1 DEF Unstaging, Uncommitted, Cleanup
    <3>3. PhaseHolds("cleanup", plan)'
      BY <1>1, <1>3, <3>2 DEF PhaseHolds
    <3> QED
      BY <2>2, <3>1, <3>3 DEF Phases
  <2> QED
    BY <2>1, <2>2 DEF Staged, StagingDir
<1>6. PICK next, plan : next \in Phases \ {"idle"} /\ Enter(o, next, plan) /\ PhaseHolds(next, plan)'
  BY <1>5
<1>7. InstallInv' /\ StaysPut
  BY <1>1, <1>2, <1>4, <1>6, StoreHolds, GoesOn
<1> QED
  BY <1>4, <1>7 DEF Survives

LEMMA UndoKeeps ==
    ASSUME InstallInv, NEW o \in Ops, Undo(o)
    PROVE  InstallInv' /\ Survives /\ StaysPut
<1>1. /\ Ended(o, "raised") /\ UNCHANGED <<dirs, journal, active, server, selfHosted, windows, faults, cut>>
      /\ \/ Unrecoverable /\ Enter(o, "cleanup", Cleanup) /\ leftover' = TRUE
         \/ ~Unrecoverable /\ Enter(o, "undo", RecoverPlan) /\ leftover' = leftover
  BY DEF Undo
<1>2. op[o] # Idle /\ PhaseHolds("raised", <<>>)
  BY <1>1, EndedIs DEF Phases
<1>3. server # "booting" /\ ~selfHosted
  BY <1>2 DEF PhaseHolds
<1>4. LiveDir' = LiveDir /\ StagingDir' = StagingDir /\ BackupDir' = BackupDir /\ SparesHold' /\ Installed' = Installed
  BY <1>1, StoreHolds, InstalledIs, InstalledNextIs DEF SparesHold, Trusted, LiveDir, StagingDir, BackupDir
<1>5. \E next, plan : next \in Phases \ {"idle"} /\ Enter(o, next, plan) /\ PhaseHolds(next, plan)'
  <2>1. CASE Enter(o, "cleanup", Cleanup) /\ leftover' = TRUE
    <3>1. PICK plan : plan = Cleanup
      OBVIOUS
    <3>2. PhaseHolds("cleanup", plan)'
      BY <1>1, <1>3, <2>1, <3>1 DEF PhaseHolds, Unstaging, Cleanup
    <3> QED
      BY <2>1, <3>1, <3>2 DEF Phases
  <2>2. CASE ~Unrecoverable /\ Enter(o, "undo", RecoverPlan)
    <3>1. PICK plan : plan = RecoverPlan
      OBVIOUS
    <3>2. Recovering(plan)
      BY <2>2, <3>1, RecoveringPlanIs
    <3>3. Recovering(plan)'
      BY <1>1, <1>4, <3>2 DEF Recovering, FromLive, NothingLeft, Clean
    <3>4. PhaseHolds("undo", plan)'
      BY <1>1, <1>3, <3>3 DEF PhaseHolds
    <3> QED
      BY <2>2, <3>1, <3>4 DEF Phases
  <2> QED
    BY <1>1, <2>1, <2>2
<1>6. PICK next, plan : next \in Phases \ {"idle"} /\ Enter(o, next, plan) /\ PhaseHolds(next, plan)'
  BY <1>5
<1>7. leftover' \in BOOLEAN
  BY <1>1, StoreHolds
<1>8. InstallInv' /\ StaysPut
  BY <1>1, <1>2, <1>4, <1>6, <1>7, StoreHolds, GoesOn
<1> QED
  BY <1>4, <1>8 DEF Survives

(* The steps that only give up a phase.                                     *)
LEMMA GivenUpKeeps ==
    ASSUME InstallInv, NEW o \in Ops, Undone(o) \/ Abandon(o) \/ Cancel(o)
    PROVE  InstallInv' /\ Survives /\ StaysPut
<1>1. UNCHANGED <<dirs, journal, active, server, selfHosted, windows, faults, cut, leftover>>
  BY DEF Undone, Abandon, Cancel
<1>2. LiveDir' = LiveDir /\ StagingDir' = StagingDir /\ BackupDir' = BackupDir /\ SparesHold' /\ Installed' = Installed
  BY <1>1, StoreHolds, InstalledIs, InstalledNextIs DEF SparesHold, Trusted, LiveDir, StagingDir, BackupDir
<1>3. \/ Enter(o, "cleanup", Cleanup) /\ op[o] # Idle /\ BackupDir = Absent /\ ~journal /\ server # "booting" /\ ~selfHosted
      \/ Enter(o, "finished", <<>>) /\ op[o] # Idle /\ (leftover \/ Clean) /\ server # "booting" /\ ~selfHosted
  <2>1. CASE Undone(o)
    <3>1. Ended(o, "undo") /\ Enter(o, "cleanup", Cleanup)
      BY <2>1 DEF Undone
    <3>2. op[o] # Idle /\ PhaseHolds("undo", <<>>)
      BY <3>1, EndedIs DEF Phases
    <3> QED
      BY <3>1, <3>2, EndsAre DEF PhaseHolds, Clean
  <2>2. CASE Abandon(o)
    <3>1. op[o].phase = "stage" /\ op[o] # Idle /\ Enter(o, "cleanup", Cleanup)
      BY <2>2 DEF Abandon, Idle
    <3>2. PhaseHolds("stage", op[o].plan)
      BY <3>1, SlotIs
    <3> QED
      BY <3>1, <3>2 DEF PhaseHolds, Copying, Uncommitted
  <2>3. CASE Cancel(o)
    <3>1. PICK phase \in {"check", "prepare"} : Ended(o, phase)
      BY <2>3 DEF Cancel
    <3>2. op[o] # Idle /\ PhaseHolds(phase, <<>>)
      BY <3>1, EndedIs DEF Phases
    <3> QED
      BY <2>3, <3>2 DEF Cancel, PhaseHolds
  <2> QED
    BY <2>1, <2>2, <2>3
<1>4. \E next, plan : next \in Phases \ {"idle"} /\ Enter(o, next, plan) /\ PhaseHolds(next, plan)'
  <2>1. CASE Enter(o, "cleanup", Cleanup) /\ BackupDir = Absent /\ ~journal /\ server # "booting" /\ ~selfHosted
    <3>1. PICK plan : plan = Cleanup
      OBVIOUS
    <3>2. PhaseHolds("cleanup", plan)'
      BY <1>1, <1>2, <2>1, <3>1 DEF PhaseHolds, Unstaging, Cleanup
    <3> QED
      BY <2>1, <3>1, <3>2 DEF Phases
  <2>2. CASE Enter(o, "finished", <<>>) /\ (leftover \/ Clean) /\ server # "booting" /\ ~selfHosted
    <3>1. PhaseHolds("finished", <<>>)'
      BY <1>1, <1>2, <2>2 DEF PhaseHolds, Clean
    <3> QED
      BY <2>2, <3>1 DEF Phases
  <2> QED
    BY <1>3, <2>1, <2>2
<1>5. PICK next, plan : next \in Phases \ {"idle"} /\ Enter(o, next, plan) /\ PhaseHolds(next, plan)'
  BY <1>4
<1>6. op[o] # Idle
  BY <1>3
<1>7. InstallInv' /\ StaysPut
  BY <1>1, <1>2, <1>5, <1>6, StoreHolds, GoesOn
<1> QED
  BY <1>2, <1>7 DEF Survives

LEMMA FinishedKeeps ==
    ASSUME InstallInv, NEW o \in Ops, Finished(o)
    PROVE  InstallInv' /\ Survives /\ StaysPut
<1>1. PICK phase \in {"commit", "cleanup", "delete"} : Ended(o, phase)
  BY DEF Finished
<1>2. op[o] # Idle /\ op[o].phase = phase /\ PhaseHolds(phase, <<>>)
  BY <1>1, EndedIs DEF Phases
<1>3. /\ Enter(o, "finished", <<>>) /\ cut' = StillCut /\ leftover' = (leftover /\ phase # "delete")
      /\ UNCHANGED <<dirs, journal, active, server, selfHosted, windows, faults>>
  BY <1>2 DEF Finished
<1>4. StagingDir = Absent /\ (leftover' \/ Clean) /\ server # "booting" /\ ~selfHosted
  BY <1>2, <1>3, EndsAre, StoreHolds DEF PhaseHolds, Clean
<1>5. LiveDir' = LiveDir /\ StagingDir' = StagingDir /\ BackupDir' = BackupDir
  BY <1>3 DEF LiveDir, StagingDir, BackupDir
<1>6. SparesHold' /\ Installed' = Installed
  BY <1>3, <1>4, StoreHolds, ForgetsSoundly
<1>7. PhaseHolds("finished", <<>>)'
  BY <1>3, <1>4, <1>5 DEF PhaseHolds, Clean
<1>8. cut' \in BOOLEAN /\ leftover' \in BOOLEAN /\ "finished" \in Phases \ {"idle"}
  BY <1>3, StoreHolds DEF StillCut, Phases
<1>9. InstallInv' /\ StaysPut
  BY <1>2, <1>3, <1>5, <1>6, <1>7, <1>8, StoreHolds, GoesOn
<1> QED
  BY <1>6, <1>9 DEF Survives

LEMMA ReleaseKeeps ==
    ASSUME InstallInv, NEW o \in Ops, ReleaseGuard(o) \/ Refuse(o)
    PROVE  InstallInv' /\ Survives /\ StaysPut
<1>1. /\ op[o].phase \in {"finished", "refused"} /\ op' = [op EXCEPT ![o] = Idle]
      /\ UNCHANGED <<dirs, journal, windows, faults, cut, leftover>>
  BY DEF ReleaseGuard, Refuse
<1>2. op[o] # Idle
  BY <1>1 DEF Idle
<1>3. active = o /\ PhaseHolds(op[o].phase, op[o].plan)
  BY <1>2, SlotIs
<1>4. active' = NoOp
  BY <1>3 DEF ReleaseGuard, Refuse
<1>5. LiveDir' = LiveDir /\ StagingDir' = StagingDir /\ BackupDir' = BackupDir /\ SparesHold' /\ Installed' = Installed
  BY <1>1, StoreHolds, InstalledIs, InstalledNextIs DEF SparesHold, Trusted, LiveDir, StagingDir, BackupDir
<1>6. /\ QuietIsClean' /\ selfHosted' \in BOOLEAN /\ server' \in Servers
      /\ selfHosted' => Valid(LiveDir')
  <2>1. CASE ReleaseGuard(o)
    <3>1. leftover \/ Clean
      BY <1>3, <2>1 DEF ReleaseGuard, PhaseHolds
    <3>2. server' = server /\ selfHosted' = selfHosted
      BY <2>1 DEF ReleaseGuard
    <3> QED
      BY <1>1, <1>5, <3>1, <3>2, StoreHolds DEF QuietIsClean, Clean, StagingDir, BackupDir, Servers
  <2>2. CASE Refuse(o)
    BY <2>2 DEF Refuse, QuietIsClean, Servers
  <2> QED
    BY <2>1, <2>2
<1>7. op' = [q \in Ops |-> Idle]
  BY <1>1, <1>2, AllIdle
<1>8. InstallInv'
  BY <1>1, <1>4, <1>5, <1>6, <1>7, StoreHolds, Freed
<1> QED
  BY <1>5, <1>8 DEF Survives, StaysPut

LEMMA EndKeeps ==
    ASSUME InstallInv, Exit \/ Crash
    PROVE  InstallInv' /\ Survives /\ StaysPut
<1>1. /\ server' = "down" /\ selfHosted' = FALSE /\ active' = NoOp
      /\ UNCHANGED <<dirs, journal, windows, faults, cut, leftover>>
  BY DEF Exit, Crash
<1>2. op' = [q \in Ops |-> Idle]
  BY NobodyWorks DEF Exit, Crash
<1>3. LiveDir' = LiveDir /\ SparesHold' /\ Installed' = Installed
  BY <1>1, StoreHolds, InstalledIs, InstalledNextIs DEF SparesHold, Trusted, LiveDir, StagingDir, BackupDir
<1>4. QuietIsClean'
  BY <1>1 DEF QuietIsClean
<1>5. InstallInv'
  BY <1>1, <1>2, <1>3, <1>4, StoreHolds, Freed DEF Servers
<1> QED
  BY <1>3, <1>5 DEF Survives, StaysPut

LEMMA StatusKeeps ==
    ASSUME InstallInv, Status
    PROVE  InstallInv' /\ Survives /\ StaysPut
<1>1. /\ LiveDir = Absent /\ dirs' = LiveMade
      /\ UNCHANGED <<journal, active, op, server, selfHosted, windows, faults, cut, leftover>>
  BY DEF Status, LiveDir
<1>2. ~selfHosted
  BY <1>1, StoreHolds, DirFacts
<1>3. dirs' \in Dirs /\ SparesHold' /\ Installed' = Installed /\ (Clean' <=> Clean)
  BY <1>1, StoreHolds, LiveMadeIs, MadeKeeps
<1>4. StagingDir' = StagingDir /\ BackupDir' = BackupDir /\ LiveDir' = Empty
  BY <1>1, StoreHolds, LiveMadeIs
<1>5. TypeOK' /\ QuietIsClean'
  BY <1>1, <1>3, <1>4 DEF InstallInv, TypeOK, QuietIsClean, Dirs, StagingDir, BackupDir
<1>6. \A q \in Ops : op[q] # Idle => PhaseHolds(op[q].phase, op[q].plan)'
  <2> SUFFICES ASSUME NEW q \in Ops, op[q] # Idle PROVE PhaseHolds(op[q].phase, op[q].plan)'
    OBVIOUS
  <2>1. PICK phase, plan : phase = op[q].phase /\ plan = op[q].plan
    OBVIOUS
  <2>2. PhaseHolds(phase, plan)
    BY <2>1, SlotIs
  <2>3. /\ Recovering(plan) => Recovering(plan)'
        /\ Committing(plan) => Committing(plan)'
    BY <1>1, StoreHolds, RecoveryMade, SwapMade
  <2>4. ~Copying(plan)
    BY <1>1, DirFacts DEF Copying, Uncommitted
  <2>5. /\ Removing(plan) => Removing(plan)'
        /\ Unstaging(plan) => Unstaging(plan)'
    BY <1>1, <1>3, <1>4, DirFacts DEF Removing, Unstaging
  <2>6. PhaseHolds(phase, plan)'
    BY <1>1, <1>2, <1>3, <2>2, <2>3, <2>4, <2>5 DEF PhaseHolds
  <2> QED
    BY <1>1, <2>1, <2>6
<1>7. InstallInv'
  BY <1>1, <1>2, <1>3, <1>5, <1>6 DEF InstallInv
<1> QED
  BY <1>2, <1>3, <1>7 DEF Survives, StaysPut

LEMMA InstallStarts == Init => InstallInv
<1> SUFFICES ASSUME Init PROVE InstallInv
  OBVIOUS
<1>1. /\ StagingDir = Absent /\ BackupDir = Absent /\ journal = FALSE /\ selfHosted = FALSE
      /\ op = [o \in Ops |-> Idle] /\ active = NoOp /\ server = "down" /\ faults = 0
      /\ windows \in BOOLEAN /\ cut = FALSE /\ leftover = FALSE
  BY DEF Init, StagingDir, BackupDir
<1>2. dirs \in Dirs
  BY DEF Init, Dirs, Release, Dir, Versions, Gone, Old, Current
<1>3. Trusted(LiveDir)
  <2>1. LiveDir \in {Absent, Release(Old, Old), Release(Old, Current), Release(Current, Old), Release(Current, Current)}
    BY DEF Init, LiveDir
  <2>2. \A s, l \in {Old, Current} : Valid(Release(s, l)) => Whole(Release(s, l))
    BY DEF Valid, Whole, Release, Gone, Old, Current
  <2> QED
    BY <2>1, <2>2, DirFacts DEF Trusted
<1>4. SparesHold /\ QuietIsClean
  BY <1>1, <1>3, DirFacts DEF SparesHold, Trusted, QuietIsClean
<1>5. TypeOK
  <2>1. \A o \in Ops : op[o].phase \in Phases /\ (op[o] # Idle <=> active = o)
    BY <1>1, OpsAssumption DEF Idle, Phases
  <2>2. faults \in 0..MaxFaults
    BY <1>1, FaultsAssumption
  <2>3. journal \in BOOLEAN /\ selfHosted \in BOOLEAN /\ cut \in BOOLEAN /\ leftover \in BOOLEAN
    BY <1>1
  <2> QED
    BY <1>1, <1>2, <2>1, <2>2, <2>3 DEF TypeOK, Dirs
<1>6. op = [o \in Ops |-> [phase |-> op[o].phase, plan |-> op[o].plan]] /\ \A o \in Ops : op[o] = Idle
  BY <1>1 DEF Idle
<1> QED
  BY <1>1, <1>4, <1>5, <1>6 DEF InstallInv

LEMMA InstallStep == InstallInv /\ [Next]_vars => InstallInv' /\ [Survives]_vars /\ [StaysPut]_vars
<1> SUFFICES ASSUME InstallInv, [Next]_vars PROVE InstallInv' /\ [Survives]_vars /\ [StaysPut]_vars
  OBVIOUS
<1>1. CASE Stop
  BY <1>1, ServerMoves DEF Stop
<1>2. CASE Exit \/ Crash
  BY <1>2, EndKeeps
<1>3. CASE Status
  BY <1>3, StatusKeeps
<1>4. ASSUME NEW o \in Ops, Boot(o) \/ Update(o) \/ Download(o) \/ Delete(o)
      PROVE  InstallInv' /\ Survives /\ StaysPut
  BY <1>4, BootKeeps, UpdateKeeps, DownloadKeeps, DeleteKeeps
<1>5. ASSUME NEW o \in Ops, Operate(o)
      PROVE  InstallInv' /\ Survives /\ StaysPut
  <2>1. CASE Tear(o) \/ Step(o) \/ Fault(o) \/ Collide(o)
    BY <2>1, TearKeeps, StepKeeps, FaultKeeps
  <2>2. CASE Recovered(o) \/ Checked(o) \/ Prepared(o) \/ Staged(o)
    BY <2>2, RecoveredKeeps, CheckedKeeps, PreparedKeeps, StagedKeeps
  <2>3. CASE Undo(o) \/ Undone(o) \/ Abandon(o) \/ Cancel(o)
    BY <2>3, UndoKeeps, GivenUpKeeps
  <2>4. CASE Finished(o) \/ ReleaseGuard(o) \/ Refuse(o)
    BY <2>4, FinishedKeeps, ReleaseKeeps
  <2> QED
    BY <1>5, <2>1, <2>2, <2>3, <2>4 DEF Operate
<1>6. CASE UNCHANGED vars
  <2>1. /\ TypeOK' /\ QuietIsClean' /\ SparesHold'
        /\ op' = [o \in Ops |-> [phase |-> op'[o].phase, plan |-> op'[o].plan]]
        /\ selfHosted' => Valid(LiveDir')
    BY <1>6 DEF vars, InstallInv, TypeOK, QuietIsClean, SparesHold, Trusted, LiveDir, StagingDir, BackupDir
  <2>2. \A o \in Ops : op[o] # Idle => PhaseHolds(op[o].phase, op[o].plan)'
    <3> SUFFICES ASSUME NEW o \in Ops, op[o] # Idle PROVE PhaseHolds(op[o].phase, op[o].plan)'
      OBVIOUS
    <3>1. PICK phase, plan : phase = op[o].phase /\ plan = op[o].plan
      OBVIOUS
    <3>2. PhaseHolds(phase, plan)
      BY <3>1, SlotIs
    <3>3. /\ Recovering(plan) => Recovering(plan)'
          /\ FromLive(plan) => FromLive(plan)'
          /\ Copying(plan) => Copying(plan)'
          /\ Committing(plan) => Committing(plan)'
          /\ Removing(plan) => Removing(plan)'
          /\ Unstaging(plan) => Unstaging(plan)'
          /\ Clean => Clean'
      BY <1>6 DEF vars, Recovering, FromLive, NothingLeft, Copying, Copied, Uncommitted, ServerIn, LibsIn,
         Committing, Ready, Trusted, Removing, Unstaging, Clean, LiveDir, StagingDir, BackupDir
    <3>4. PhaseHolds(phase, plan)'
      BY <1>6, <3>2, <3>3 DEF PhaseHolds, vars
    <3> QED
      BY <1>6, <3>1, <3>4 DEF vars
  <2>3. \A o \in Ops : op'[o] # Idle => PhaseHolds(op[o].phase, op[o].plan)'
    BY <1>6, <2>2 DEF vars
  <2>4. InstallInv'
    BY <1>6, <2>1, <2>3 DEF InstallInv, vars
  <2> QED
    BY <1>6, <2>4
<1>7. CASE Next
  <2>1. CASE Stop \/ Exit \/ Crash \/ Status
    BY <1>1, <1>2, <1>3, <2>1
  <2>2. CASE \E o \in Ops : Boot(o) \/ Update(o) \/ Download(o) \/ Delete(o) \/ Operate(o)
    <3>1. PICK o \in Ops : Boot(o) \/ Update(o) \/ Download(o) \/ Delete(o) \/ Operate(o)
      BY <2>2
    <3>2. InstallInv' /\ Survives /\ StaysPut
      BY <1>4, <1>5, <3>1
    <3> QED
      BY <3>2
  <2> QED
    BY <1>7, <2>1, <2>2 DEF Next
<1> QED
  BY <1>6, <1>7

(* An install replaces the backend as a whole or not at all: for any number *)
(* of operations, crashes, failed and half-done filesystem calls and status *)
(* requests (backend_archive.py, cuda.py).                                  *)
THEOREM InstallsAreWhole == Spec => InstallIsWhole
<1>1. InstallInv => TypeOK /\ NothingHalfInstalled /\ QuietIsClean
  <2> SUFFICES ASSUME InstallInv PROVE NothingHalfInstalled
    BY DEF InstallInv
  <2> QED
    BY InstalledIs DEF InstallInv, SparesHold, Trusted, NothingHalfInstalled
<1>2. InstallInv /\ [Next]_vars => InstallInv'
  BY InstallStep
<1>3. InstallInv /\ [Next]_vars =>
        [(Installed # Absent /\ ~Deleting /\ Installed' # Installed)
           => \/ Installed' # Absent /\ Installed'.exe = Current /\ Installed'.mark = Current
              \/ leftover' /\ Installed = dirs["staging"]]_vars
  BY InstallStep DEF Survives, UpToDate, StagingDir
<1>4. InstallInv /\ [Next]_vars => [selfHosted /\ selfHosted' => dirs'["live"] = dirs["live"]]_vars
  BY InstallStep DEF StaysPut, LiveDir
<1> QED
  BY <1>1, <1>2, <1>3, <1>4, InstallStarts, PTL DEF Spec, InstallIsWhole, InstallSurvives, RunningUntouched
=============================================================================
