--------------------------- MODULE OwnershipProofs ----------------------------
(***************************************************************************)
(* Theorems about who holds what and who is told of it: the places of the  *)
(* upload admission (UploadAdmission), the tasks of downloads, loads and   *)
(* migrations (ModelTasks), their progress (ProgressStream), the           *)
(* accelerator lifecycle guard (LifecycleGuard) and the checkpoints of     *)
(* exact requests (ExactSynthesis), for any number of requests, models,    *)
(* tasks, clients, threads and chunks.                                     *)
(***************************************************************************)
EXTENDS LifecycleGuard, UploadAdmission, ModelTasks, ProgressStream, ExactSynthesis, SequenceTheorems, DataLemmas

-----------------------------------------------------------------------------
(* Admission of uploads and of MCP requests (api_input_admission.py).      *)

UploadAdmissionSpec == UploadAdmissionInit /\ [][UploadAdmissionNext]_admissionVars

Kinds == {"upload", "mcp"}
Stages == {"new", "entering", "refused", "served", "leaving", "done"}

AdmissionTypes ==
    /\ request \in [Large -> Stages] /\ lock \in Large \cup {NoRequest} /\ line \in Seq(Large)
    /\ active \in [Kinds -> Int] /\ spooled \in Int /\ ledger \in [Large -> Int] /\ broken \subseteq Large

(* Nobody stands in the line twice, and who stands there comes or goes.     *)
LineIsOrdered ==
    /\ \A j, k \in DOMAIN line : line[j] = line[k] => j = k
    /\ \A k \in DOMAIN line : request[line[k]] \in {"entering", "leaving"}

Held == {r \in Large : request[r] \in {"served", "leaving"}} \cup broken
BrokenAreDone == \A r \in broken : request[r] = "done"
AdmissionInv == AdmissionTypes /\ LineIsOrdered /\ BrokenAreDone /\ AdmissionIsExact

LEMMA RequestFacts ==
    /\ IsFiniteSet(Large)
    /\ \A r \in Large : Reservation(r) \in Nat /\ Kind(r) \in Kinds
    /\ Slots \in [Kinds -> Nat] /\ Disk \in Nat
BY UploadAdmissionAssumption DEF Reservation, Kind, Kinds

LEMMA AdmissionInit == UploadAdmissionInit => AdmissionInv
<1> SUFFICES ASSUME UploadAdmissionInit PROVE AdmissionInv
  OBVIOUS
<1>1. AdmissionTypes /\ LineIsOrdered /\ BrokenAreDone
  BY DEF UploadAdmissionInit, AdmissionTypes, LineIsOrdered, BrokenAreDone, Kinds, Stages
<1>2. Held = {}
  BY DEF UploadAdmissionInit, Held
<1>3. Total(ledger) = 0
  <2>1. ledger \in [Large -> Int] /\ \A r \in Large : ledger[r] = 0
    BY DEF UploadAdmissionInit
  <2> QED
    BY <2>1, RequestFacts, SumOfZeros DEF Total
<1>4. \A k \in Kinds : active[k] = 0 /\ Cardinality({r \in Held : Kind(r) = k}) = 0
  BY <1>2, FS_EmptySet DEF UploadAdmissionInit, Kinds
<1>5. AdmissionIsExact
  BY <1>2, <1>3, <1>4, RequestFacts DEF UploadAdmissionInit, AdmissionIsExact, Held, Kinds
<1> QED
  BY <1>1, <1>5 DEF AdmissionInv

LEMMA LineFacts ==
    ASSUME AdmissionInv
    PROVE  \A k \in DOMAIN line : line[k] \in Large /\ request[line[k]] \in {"entering", "leaving"}
<1>1. line \in Seq(Large)
  BY DEF AdmissionInv, AdmissionTypes
<1>2. \A k \in DOMAIN line : line[k] \in Large
  BY <1>1
<1> QED
  BY <1>2 DEF AdmissionInv, LineIsOrdered

(* A step after which the same requests hold what they held. *)
LEMMA HeldSame ==
    ASSUME AdmissionInv, Held' = Held, UNCHANGED <<active, spooled, ledger>>
    PROVE  AdmissionIsExact'
BY DEF AdmissionInv, AdmissionIsExact, Held, Total

(* RemoveAt of SequencesExt. *)
LEMMA RemoveAtFacts ==
    ASSUME NEW S, NEW s \in Seq(S), NEW k \in DOMAIN s
    PROVE  /\ RemoveAt(s, k) \in Seq(S) /\ Len(RemoveAt(s, k)) = Len(s) - 1
           /\ \A i \in 1..(Len(s) - 1) : RemoveAt(s, k)[i] = IF i < k THEN s[i] ELSE s[i + 1]
<1>1. k \in 1..Len(s) /\ Len(s) \in Nat /\ \A i \in 1..Len(s) : s[i] \in S
  OBVIOUS
<1> DEFINE a == SubSeq(s, 1, k - 1)
           b == SubSeq(s, k + 1, Len(s))
<1>2. a \in Seq(S) /\ Len(a) = k - 1 /\ \A i \in 1..(k - 1) : a[i] = s[i]
  BY <1>1
<1>3. b \in Seq(S) /\ Len(b) = Len(s) - k /\ \A i \in 1..(Len(s) - k) : b[i] = s[k + i]
  BY <1>1
<1>4. RemoveAt(s, k) = a \o b
  BY DEF RemoveAt
<1> HIDE DEF a, b
<1>5. a \o b \in Seq(S) /\ Len(a \o b) = Len(s) - 1
  BY <1>1, <1>2, <1>3
<1>6. ASSUME NEW i \in 1..(Len(s) - 1), i < k PROVE (a \o b)[i] = s[i]
  BY <1>1, <1>2, <1>3, <1>6
<1>7. ASSUME NEW i \in 1..(Len(s) - 1), i >= k PROVE (a \o b)[i] = s[i + 1]
  <2>1. (a \o b)[i] = b[i - (k - 1)]
    BY <1>1, <1>2, <1>3, <1>7, SMTT(30)
  <2> QED
    BY <1>1, <1>3, <1>7, <2>1
<1>8. ASSUME NEW i \in 1..(Len(s) - 1)
      PROVE  RemoveAt(s, k)[i] = IF i < k THEN s[i] ELSE s[i + 1]
  <2>1. i < k \/ i >= k
    BY <1>1
  <2> QED
    BY <1>4, <1>6, <1>7, <2>1
<1> QED
  BY <1>4, <1>5, <1>8

LEMMA LeavesLine ==
    ASSUME AdmissionInv, NEW k \in DOMAIN line, line' = RemoveAt(line, k)
    PROVE  /\ line' \in Seq(Large) /\ k \in 1..Len(line)
           /\ \A i \in DOMAIN line' : \E j \in DOMAIN line : j # k /\ line'[i] = line[j]
           /\ \A i, j \in DOMAIN line' : line'[i] = line'[j] => i = j
<1>1. line \in Seq(Large) /\ Len(line) \in Nat /\ k \in 1..Len(line) /\ DOMAIN line = 1..Len(line)
  BY DEF AdmissionInv, AdmissionTypes
<1>2. /\ line' \in Seq(Large) /\ Len(line') = Len(line) - 1
      /\ \A i \in 1..(Len(line) - 1) : line'[i] = IF i < k THEN line[i] ELSE line[i + 1]
  BY <1>1, RemoveAtFacts
<1>3. DOMAIN line' = 1..(Len(line) - 1)
  BY <1>2
<1>4. \A i \in 1..(Len(line) - 1) : \E j \in 1..Len(line) :
          j # k /\ line'[i] = line[j] /\ j = (IF i < k THEN i ELSE i + 1)
  <2> SUFFICES ASSUME NEW i \in 1..(Len(line) - 1)
               PROVE  \E j \in 1..Len(line) : j # k /\ line'[i] = line[j] /\ j = (IF i < k THEN i ELSE i + 1)
    OBVIOUS
  <2>1. (IF i < k THEN i ELSE i + 1) \in 1..Len(line) \ {k}
    BY <1>1
  <2> QED
    BY <1>2, <2>1
<1>5. \A i, j \in 1..Len(line) : line[i] = line[j] => i = j
  BY <1>1 DEF AdmissionInv, LineIsOrdered
<1>6. ASSUME NEW i \in 1..(Len(line) - 1), NEW j \in 1..(Len(line) - 1), line'[i] = line'[j] PROVE i = j
  <2>1. (IF i < k THEN i ELSE i + 1) = (IF j < k THEN j ELSE j + 1)
    BY <1>4, <1>5, <1>6
  <2> QED
    BY <1>1, <2>1
<1> QED
  BY <1>1, <1>2, <1>3, <1>4, <1>6

LEMMA TurnLine ==
    ASSUME AdmissionInv, NEW r, Turn(r)
    PROVE  /\ line' \in Seq(Large) /\ r \in Large /\ 1 \in DOMAIN line /\ line[1] = r
           /\ \A i \in DOMAIN line' : \E j \in DOMAIN line : j # 1 /\ line'[i] = line[j]
           /\ \A i, j \in DOMAIN line' : line'[i] = line'[j] => i = j
<1>1. line \in Seq(Large) /\ line # <<>> /\ line' = Tail(line) /\ Head(line) = r
  BY DEF AdmissionInv, AdmissionTypes, Turn
<1>2. /\ Len(line) \in Nat /\ 1 \in 1..Len(line) /\ DOMAIN line = 1..Len(line) /\ line[1] = r /\ r \in Large
      /\ line' \in Seq(Large) /\ DOMAIN line' = 1..(Len(line) - 1)
      /\ \A i \in 1..(Len(line) - 1) : line'[i] = line[i + 1]
  BY <1>1
<1>3. \A i, j \in 1..Len(line) : line[i] = line[j] => i = j
  BY <1>2 DEF AdmissionInv, LineIsOrdered
<1>4. \A i \in 1..(Len(line) - 1) : i + 1 \in 1..Len(line) /\ i + 1 # 1
  BY <1>2
<1>5. ASSUME NEW i \in 1..(Len(line) - 1), NEW j \in 1..(Len(line) - 1), line'[i] = line'[j] PROVE i = j
  BY <1>2, <1>3, <1>4, <1>5
<1> QED
  BY <1>2, <1>4, <1>5

(* Whoever joins the line was not in it. *)
LEMMA JoinsLine ==
    ASSUME AdmissionInv, NEW r \in Large, Waits(r), request[r] \notin {"entering", "leaving"},
           NEW st \in {"entering", "leaving"}, request' = [request EXCEPT ![r] = st]
    PROVE  line' \in Seq(Large) /\ LineIsOrdered'
<1>1. line \in Seq(Large) /\ line' = Append(line, r) /\ request \in [Large -> Stages]
  BY DEF AdmissionInv, AdmissionTypes, Waits
<1>2. /\ Len(line) \in Nat /\ DOMAIN line = 1..Len(line) /\ line' \in Seq(Large) /\ DOMAIN line' = 1..(Len(line) + 1)
      /\ \A i \in 1..Len(line) : line'[i] = line[i] /\ line[i] \in Large
      /\ line'[Len(line) + 1] = r
  BY <1>1
<1>3. \A i \in 1..Len(line) : request[line[i]] \in {"entering", "leaving"} /\ line[i] # r
  BY <1>2 DEF AdmissionInv, LineIsOrdered
<1>4. \A i, j \in 1..Len(line) : line[i] = line[j] => i = j
  BY <1>2 DEF AdmissionInv, LineIsOrdered
<1>5. \A i \in 1..(Len(line) + 1) : i \in 1..Len(line) \/ i = Len(line) + 1
  BY <1>2
<1>6. \A i, j \in DOMAIN line' : line'[i] = line'[j] => i = j
  BY <1>2, <1>3, <1>4, <1>5
<1>7. \A i \in DOMAIN line' : request'[line'[i]] \in {"entering", "leaving"}
  <2>1. \A q \in Large : q # r => request'[q] = request[q]
    BY <1>1
  <2>2. request'[r] = st
    BY <1>1
  <2> QED
    BY <1>2, <1>3, <1>5, <2>1, <2>2
<1> QED
  BY <1>2, <1>6, <1>7 DEF LineIsOrdered

(* The line after somebody has left it, whose stage has changed.            *)
LEMMA LineAfter ==
    ASSUME AdmissionInv, NEW k \in DOMAIN line, NEW st,
           request' = [request EXCEPT ![line[k]] = st],
           \A i \in DOMAIN line' : \E j \in DOMAIN line : j # k /\ line'[i] = line[j],
           \A i, j \in DOMAIN line' : line'[i] = line'[j] => i = j
    PROVE  LineIsOrdered'
<1>1. line \in Seq(Large) /\ request \in [Large -> Stages]
  BY DEF AdmissionInv, AdmissionTypes
<1>2. ASSUME NEW i \in DOMAIN line' PROVE request'[line'[i]] \in {"entering", "leaving"}
  <2>1. PICK j \in DOMAIN line : j # k /\ line'[i] = line[j]
    OBVIOUS
  <2>2. line[j] # line[k] /\ request[line[j]] \in {"entering", "leaving"}
    BY <2>1 DEF AdmissionInv, LineIsOrdered
  <2>3. line[j] \in Large
    BY <1>1
  <2> QED
    BY <1>1, <2>1, <2>2, <2>3
<1> QED
  BY <1>2 DEF LineIsOrdered

-----------------------------------------------------------------------------
(* One lemma for each action. *)

LEMMA ReceiveKeeps == ASSUME AdmissionInv, NEW r \in Large, Receive(r) PROVE AdmissionInv'
<1>1. AdmissionTypes /\ LineIsOrdered /\ BrokenAreDone /\ AdmissionIsExact
  BY DEF AdmissionInv
<1>2. request[r] = "new" /\ UNCHANGED <<lock, active, spooled, ledger, broken>>
  BY DEF Receive, Moves
<1>3. CASE request' = [request EXCEPT ![r] = "done"] /\ UNCHANGED line
  <2>1. AdmissionTypes' /\ BrokenAreDone' /\ Held' = Held
    BY <1>1, <1>2, <1>3 DEF AdmissionTypes, BrokenAreDone, Held, Stages
  <2>2. LineIsOrdered'
    <3>1. \A k \in DOMAIN line : line[k] # r /\ line[k] \in Large
      BY <1>2, LineFacts
    <3> QED
      BY <1>1, <1>3, <3>1 DEF LineIsOrdered, AdmissionTypes
  <2> QED
    BY <1>2, <2>1, <2>2, HeldSame DEF AdmissionInv
<1>4. CASE request' = [request EXCEPT ![r] = "entering"] /\ Waits(r)
  <2>1. line' \in Seq(Large) /\ LineIsOrdered'
    BY <1>2, <1>4, JoinsLine
  <2>2. AdmissionTypes' /\ BrokenAreDone' /\ Held' = Held
    BY <1>1, <1>2, <1>4, <2>1 DEF AdmissionTypes, BrokenAreDone, Held, Stages
  <2> QED
    BY <1>2, <2>1, <2>2, HeldSame DEF AdmissionInv
<1> QED
  BY <1>3, <1>4 DEF Receive, Moves

LEMMA RefusedKeeps == ASSUME AdmissionInv, NEW r \in Large, Refused(r) PROVE AdmissionInv'
<1>1. AdmissionTypes /\ LineIsOrdered /\ BrokenAreDone /\ AdmissionIsExact
  BY DEF AdmissionInv
<1>2. /\ request[r] = "refused" /\ request' = [request EXCEPT ![r] = "done"] /\ lock' = NoRequest
      /\ UNCHANGED <<line, active, spooled, ledger, broken>>
  BY DEF Refused, Moves
<1>3. AdmissionTypes' /\ BrokenAreDone' /\ Held' = Held
  BY <1>1, <1>2 DEF AdmissionTypes, BrokenAreDone, Held, Stages
<1>4. LineIsOrdered'
  <2>1. \A k \in DOMAIN line : line[k] # r /\ line[k] \in Large
    BY <1>2, LineFacts
  <2> QED
    BY <1>1, <1>2, <2>1 DEF LineIsOrdered, AdmissionTypes
<1> QED
  BY <1>2, <1>3, <1>4, HeldSame DEF AdmissionInv

LEMMA ServeKeeps == ASSUME AdmissionInv, NEW r \in Large, Serve(r) PROVE AdmissionInv'
<1>1. AdmissionTypes /\ LineIsOrdered /\ BrokenAreDone /\ AdmissionIsExact
  BY DEF AdmissionInv
<1>2. /\ request[r] = "served" /\ request' = [request EXCEPT ![r] = "leaving"] /\ Waits(r)
      /\ UNCHANGED <<lock, active, spooled, ledger, broken>>
  BY DEF Serve, Moves
<1>3. line' \in Seq(Large) /\ LineIsOrdered'
  BY <1>2, JoinsLine
<1>4. AdmissionTypes' /\ BrokenAreDone' /\ Held' = Held
  BY <1>1, <1>2, <1>3 DEF AdmissionTypes, BrokenAreDone, Held, Stages
<1> QED
  BY <1>2, <1>3, <1>4, HeldSame DEF AdmissionInv

LEMMA AbortKeeps == ASSUME AdmissionInv, NEW r \in Large, Abort(r) PROVE AdmissionInv'
<1>1. AdmissionTypes /\ LineIsOrdered /\ BrokenAreDone /\ AdmissionIsExact
  BY DEF AdmissionInv
<1>2. PICK k \in DOMAIN line : line[k] = r /\ line' = RemoveAt(line, k)
  BY DEF Abort
<1>3. /\ request' = [request EXCEPT ![r] = "done"] /\ UNCHANGED <<lock, active, spooled, ledger>>
      /\ broken' = IF request[r] = "leaving" THEN broken \cup {r} ELSE broken
  BY DEF Abort
<1>4. request[r] \in {"entering", "leaving"}
  BY <1>1, <1>2 DEF LineIsOrdered
<1>5. line' \in Seq(Large) /\ LineIsOrdered'
  BY <1>2, <1>3, LeavesLine, LineAfter
<1>6. AdmissionTypes' /\ BrokenAreDone' /\ Held' = Held
  BY <1>1, <1>3, <1>4, <1>5 DEF AdmissionTypes, BrokenAreDone, Held, Stages
<1> QED
  BY <1>3, <1>5, <1>6, HeldSame DEF AdmissionInv

(* What is held when one request begins or ends to hold its share.          *)
LEMMA HeldCounts ==
    ASSUME AdmissionInv, NEW r \in Large, NEW k \in Kinds
    PROVE  LET of(S) == {q \in S : Kind(q) = k}
           IN  /\ IsFiniteSet(of(Held)) /\ Cardinality(of(Held)) \in Nat
               /\ r \notin Held => Cardinality(of(Held \cup {r})) = Cardinality(of(Held)) + (IF Kind(r) = k THEN 1 ELSE 0)
               /\ r \in Held => Cardinality(of(Held \ {r})) = Cardinality(of(Held)) - (IF Kind(r) = k THEN 1 ELSE 0)
<1> DEFINE H == {q \in Held : Kind(q) = k}
<1>1. H \in SUBSET Large
  BY DEF AdmissionInv, AdmissionTypes, Held
<1>2. IsFiniteSet(H) /\ Cardinality(H) \in Nat
  BY <1>1, RequestFacts, FS_Subset, FS_CardinalityType
<1>3. ASSUME r \notin Held
      PROVE  Cardinality({q \in Held \cup {r} : Kind(q) = k}) = Cardinality(H) + (IF Kind(r) = k THEN 1 ELSE 0)
  <2>1. /\ Kind(r) = k => {q \in Held \cup {r} : Kind(q) = k} = H \cup {r}
        /\ Kind(r) # k => {q \in Held \cup {r} : Kind(q) = k} = H
    OBVIOUS
  <2>2. r \notin H
    BY <1>3
  <2>3. Cardinality(H \cup {r}) = Cardinality(H) + 1
    BY <1>2, <2>2, FS_AddElement
  <2> HIDE DEF H
  <2> QED
    BY <1>2, <2>1, <2>3
<1>4. ASSUME r \in Held
      PROVE  Cardinality({q \in Held \ {r} : Kind(q) = k}) = Cardinality(H) - (IF Kind(r) = k THEN 1 ELSE 0)
  <2>1. /\ Kind(r) = k => {q \in Held \ {r} : Kind(q) = k} = H \ {r}
        /\ Kind(r) # k => {q \in Held \ {r} : Kind(q) = k} = H
    OBVIOUS
  <2>2. Kind(r) = k => r \in H
    BY <1>4
  <2>3. Kind(r) = k => Cardinality(H \ {r}) = Cardinality(H) - 1
    BY <1>2, <2>2, FS_RemoveElement
  <2> HIDE DEF H
  <2> QED
    BY <1>2, <2>1, <2>3
<1> QED
  BY <1>2, <1>3, <1>4

LEMMA LedgerChanges ==
    ASSUME AdmissionInv, NEW r \in Large, NEW n \in Int, ledger' = [ledger EXCEPT ![r] = n]
    PROVE  Total(ledger)' = Total(ledger) - ledger[r] + n /\ Total(ledger) \in Int
<1>1. ledger \in [Large -> Int] /\ ledger' \in [Large -> Int] /\ ledger'[r] = n
      /\ \A q \in Large \ {r} : ledger[q] = ledger'[q]
  BY DEF AdmissionInv, AdmissionTypes
<1>2. IsFiniteSet(Large) /\ Large \in SUBSET Large
  BY RequestFacts
<1>3. SumFunctionOnSet(ledger', Large) = SumFunctionOnSet(ledger, Large) - ledger[r] + ledger'[r]
  <2>1. ASSUME NEW f \in [Large -> Int], NEW g \in [Large -> Int], \A q \in Large \ {r} : f[q] = g[q]
        PROVE  SumFunctionOnSet(g, Large) = SumFunctionOnSet(f, Large) - f[r] + g[r]
    BY <1>2, <2>1, SumChanges
  <2> QED
    BY <1>1, <2>1
<1>4. SumFunctionOnSet(ledger, Large) \in Int
  BY <1>1, <1>2, SumType
<1> QED
  BY <1>1, <1>3, <1>4 DEF Total

LEMMA AdmitKeeps == ASSUME AdmissionInv, NEW r \in Large, Admit(r) PROVE AdmissionInv'
<1>1. AdmissionTypes /\ LineIsOrdered /\ BrokenAreDone /\ AdmissionIsExact
  BY DEF AdmissionInv
<1>2. request[r] = "entering" /\ Turn(r) /\ UNCHANGED broken
  BY DEF Admit, Moves
<1>3. r \notin Held /\ Kind(r) \in Kinds /\ Reservation(r) \in Nat
  BY <1>1, <1>2, RequestFacts DEF Held, BrokenAreDone
<1>4. CASE /\ request' = [request EXCEPT ![r] = "served"] /\ UNCHANGED lock
           /\ active[Kind(r)] < Slots[Kind(r)] /\ Total(ledger) + Reservation(r) <= Disk
           /\ active' = [active EXCEPT ![Kind(r)] = @ + 1] /\ spooled' = spooled + Reservation(r)
           /\ ledger' = [ledger EXCEPT ![r] = Reservation(r)]
  <2>1. LineIsOrdered' /\ line' \in Seq(Large)
    BY <1>2, <1>4, TurnLine, LineAfter
  <2>2. AdmissionTypes' /\ BrokenAreDone' /\ Held' = Held \cup {r}
    BY <1>1, <1>2, <1>3, <1>4, <2>1 DEF AdmissionTypes, BrokenAreDone, Held, Stages
  <2>3. ledger[r] = 0
    BY <1>1, <1>3 DEF AdmissionIsExact, Held
  <2>4. Total(ledger)' = Total(ledger) + Reservation(r)
    <3>1. Reservation(r) \in Int
      BY <1>3
    <3>2. Total(ledger)' = Total(ledger) - ledger[r] + Reservation(r) /\ Total(ledger) \in Int
      BY <1>4, <3>1, LedgerChanges
    <3> QED
      BY <2>3, <3>1, <3>2
  <2>5. ASSUME NEW k \in Kinds
        PROVE  active'[k] = Cardinality({q \in Held' : Kind(q) = k}) /\ active'[k] <= Slots[k]
    <3>1. active[k] = Cardinality({q \in Held : Kind(q) = k}) /\ active[k] <= Slots[k]
      BY <1>1 DEF AdmissionIsExact, Held, Kinds
    <3>2. Cardinality({q \in Held' : Kind(q) = k})
              = Cardinality({q \in Held : Kind(q) = k}) + (IF Kind(r) = k THEN 1 ELSE 0)
      BY <1>3, <2>2, HeldCounts
    <3>4. active \in [Kinds -> Int]
      BY <1>1 DEF AdmissionTypes
    <3>5. active'[k] = IF Kind(r) = k THEN active[k] + 1 ELSE active[k]
      BY <1>3, <1>4, <3>4
    <3>3. active'[k] = active[k] + (IF Kind(r) = k THEN 1 ELSE 0) /\ active[k] \in Int /\ Slots[k] \in Nat
      BY <3>4, <3>5, RequestFacts
    <3> QED
      BY <1>4, <3>1, <3>2, <3>3
  <2>6. \A q \in Large : ledger'[q] = IF q \in Held' THEN Reservation(q) ELSE 0
    BY <1>1, <1>4, <2>2 DEF AdmissionIsExact, AdmissionTypes, Held
  <2>7. spooled' = Total(ledger)' /\ spooled' <= Disk
    BY <1>1, <1>4, <2>4 DEF AdmissionIsExact
  <2>8. AdmissionIsExact'
    BY <2>5, <2>6, <2>7 DEF AdmissionIsExact, Held, Kinds
  <2> QED
    BY <2>1, <2>2, <2>8 DEF AdmissionInv
<1>5. CASE request' = [request EXCEPT ![r] = "refused"] /\ lock' = r /\ UNCHANGED <<active, spooled, ledger>>
  <2>1. LineIsOrdered' /\ line' \in Seq(Large)
    BY <1>2, <1>5, TurnLine, LineAfter
  <2>2. AdmissionTypes' /\ BrokenAreDone' /\ Held' = Held
    BY <1>1, <1>2, <1>5, <2>1 DEF AdmissionTypes, BrokenAreDone, Held, Stages
  <2> QED
    BY <1>5, <2>1, <2>2, HeldSame DEF AdmissionInv
<1> QED
  BY <1>4, <1>5 DEF Admit, Moves

LEMMA ReleaseSlotKeeps == ASSUME AdmissionInv, NEW r \in Large, ReleaseSlot(r) PROVE AdmissionInv'
<1>1. AdmissionTypes /\ LineIsOrdered /\ BrokenAreDone /\ AdmissionIsExact
  BY DEF AdmissionInv
<1>2. /\ request[r] = "leaving" /\ request' = [request EXCEPT ![r] = "done"] /\ Turn(r)
      /\ active' = [active EXCEPT ![Kind(r)] = @ - 1] /\ spooled' = spooled - Reservation(r)
      /\ ledger' = [ledger EXCEPT ![r] = 0] /\ UNCHANGED <<lock, broken>>
  BY DEF ReleaseSlot, Moves
<1>3. r \in Held /\ r \notin broken /\ Kind(r) \in Kinds /\ Reservation(r) \in Nat
  BY <1>1, <1>2, RequestFacts DEF Held, BrokenAreDone
<1>4. LineIsOrdered' /\ line' \in Seq(Large)
  BY <1>2, TurnLine, LineAfter
<1>5. AdmissionTypes' /\ BrokenAreDone' /\ Held' = Held \ {r}
  BY <1>1, <1>2, <1>3, <1>4 DEF AdmissionTypes, BrokenAreDone, Held, Stages
<1>6. ledger[r] = Reservation(r) /\ Reservation(r) \in Nat
  BY <1>1, <1>3, RequestFacts DEF AdmissionIsExact, Held
<1>7. Total(ledger)' = Total(ledger) - Reservation(r) /\ Total(ledger) \in Int
  <2>1. Total(ledger)' = Total(ledger) - ledger[r] + 0 /\ Total(ledger) \in Int
    <3>1. PICK n \in Int : n = 0
      OBVIOUS
    <3>2. ledger' = [ledger EXCEPT ![r] = n]
      BY <1>2, <3>1
    <3>3. Total(ledger)' = Total(ledger) - ledger[r] + n /\ Total(ledger) \in Int
      BY <3>2, LedgerChanges
    <3> QED
      BY <3>1, <3>3
  <2> QED
    BY <1>6, <2>1
<1>8. ASSUME NEW k \in Kinds
      PROVE  active'[k] = Cardinality({q \in Held' : Kind(q) = k}) /\ active'[k] <= Slots[k]
  <2>1. active[k] = Cardinality({q \in Held : Kind(q) = k}) /\ active[k] <= Slots[k]
    BY <1>1 DEF AdmissionIsExact, Held, Kinds
  <2>2. Cardinality({q \in Held' : Kind(q) = k})
            = Cardinality({q \in Held : Kind(q) = k}) - (IF Kind(r) = k THEN 1 ELSE 0)
    BY <1>3, <1>5, HeldCounts
  <2>3. active \in [Kinds -> Int]
    BY <1>1 DEF AdmissionTypes
  <2>4. active'[k] = IF Kind(r) = k THEN active[k] - 1 ELSE active[k]
    BY <1>2, <1>3, <2>3
  <2>5. active[k] \in Int /\ Slots[k] \in Nat
    BY <2>3, RequestFacts
  <2> QED
    BY <2>1, <2>2, <2>4, <2>5
<1>9. \A q \in Large : ledger'[q] = IF q \in Held' THEN Reservation(q) ELSE 0
  BY <1>1, <1>2, <1>5 DEF AdmissionIsExact, AdmissionTypes, Held
<1>10. spooled' = Total(ledger)' /\ spooled' <= Disk
  BY <1>1, <1>2, <1>6, <1>7, RequestFacts DEF AdmissionIsExact
<1>11. AdmissionIsExact'
  BY <1>8, <1>9, <1>10 DEF AdmissionIsExact, Held, Kinds
<1> QED
  BY <1>4, <1>5, <1>11 DEF AdmissionInv

LEMMA AdmissionStep == AdmissionInv /\ [UploadAdmissionNext]_admissionVars => AdmissionInv'
<1> SUFFICES ASSUME AdmissionInv, [UploadAdmissionNext]_admissionVars PROVE AdmissionInv'
  OBVIOUS
<1>1. CASE UNCHANGED admissionVars
  BY <1>1 DEF admissionVars, AdmissionInv, AdmissionTypes, LineIsOrdered, BrokenAreDone, AdmissionIsExact, Total
<1>2. ASSUME NEW r \in Large,
             Receive(r) \/ Admit(r) \/ Refused(r) \/ Serve(r) \/ ReleaseSlot(r) \/ Abort(r)
      PROVE  AdmissionInv'
  BY <1>2, ReceiveKeeps, AdmitKeeps, RefusedKeeps, ServeKeeps, ReleaseSlotKeeps, AbortKeeps
<1> QED
  BY <1>1, <1>2 DEF UploadAdmissionNext

(* The counters and the ledger of large requests are exact at every moment, *)
(* for any number of requests and slots and whatever is cancelled.          *)
THEOREM AdmissionAlwaysExact == UploadAdmissionSpec => []AdmissionIsExact
<1>1. AdmissionInv => AdmissionIsExact
  BY DEF AdmissionInv
<1> QED
  BY AdmissionInit, AdmissionStep, <1>1, PTL DEF UploadAdmissionSpec

-----------------------------------------------------------------------------
(* Downloads, loads and migrations of models.                              *)

Phases == {"unborn", "waiting", "loading", "loaded", "failed", "done"}

TaskTypes ==
    /\ phase \in [Loaders -> Phases]
    /\ fresh \subseteq Loaders /\ thrown \subseteq Loaders /\ callback \subseteq Downloads
    /\ table \in [Models -> Downloads \cup {NoTask}]
    /\ entry \in [Models -> {"none", "downloading", "error"}]
    /\ progress \in [Models -> {"none", "downloading", "complete", "error"}]

(* A loader has the guard from the start of its thread to its return.       *)
LoadsGuarded == \A d \in Loaders : phase[d] \in {"loading", "loaded", "failed"} => guard = d

(* Only a loader that runs is known to have found its model missing.        *)
FreshRuns == \A d \in fresh : phase[d] \in {"loading", "loaded", "failed"}

(* A done callback is that of a task which is over.                         *)
LateIsOver == \A d \in callback : phase[d] = "done"

TableExact == \A d \in Downloads : Live(d) => table[ModelOf[d]] = d

ShownWhileLoading ==
    \A d \in Downloads : phase[d] = "loading" /\ d \in fresh =>
        entry[ModelOf[d]] = "downloading" /\ progress[ModelOf[d]] = "downloading"

TasksInv == TaskTypes /\ LoadsGuarded /\ FreshRuns /\ LateIsOver /\ TableExact /\ ShownWhileLoading

LEMMA LoaderFacts ==
    /\ Downloads \subseteq Loaders /\ NoTask \notin Loaders /\ "migration" \notin Loaders
    /\ NoTask \notin Models /\ NoTask # "migration"
    /\ \A d \in Loaders : ModelOf[d] \in Models
BY ModelTasksAssumption DEF Loaders

LEMMA TasksInvInit == ModelTasksInit => TasksInv
BY LoaderFacts DEF ModelTasksInit, TasksInv, TaskTypes, Phases, LoadsGuarded, FreshRuns, LateIsOver, TableExact,
   ShownWhileLoading, Live

(* Steps that leave the loaders, their tables and what is shown alone, and  *)
(* take the guard only when it is free or the migration's.                  *)
LEMMA Aside ==
    ASSUME TasksInv, UNCHANGED <<phase, fresh, callback, table, entry, progress>>, thrown' \subseteq Loaders,
           guard' = guard \/ guard \in {NoTask, "migration"}
    PROVE  TasksInv'
BY LoaderFacts DEF TasksInv, TaskTypes, LoadsGuarded, FreshRuns, LateIsOver, TableExact, ShownWhileLoading, Live


(* One lemma for each group of steps that touches the loaders.              *)
LEMMA TriggerKeeps == ASSUME TasksInv, NEW d \in Downloads, Trigger(d) PROVE TasksInv'
<1>1. /\ phase' = [phase EXCEPT ![d] = "waiting"] /\ table' = [table EXCEPT ![ModelOf[d]] = d]
      /\ entry' = [entry EXCEPT ![ModelOf[d]] = "downloading"]
      /\ progress' = [progress EXCEPT ![ModelOf[d]] = "downloading"]
      /\ phase[d] = "unborn" /\ ~Live(table[ModelOf[d]])
      /\ UNCHANGED <<fresh, thrown, callback, guard>>
  BY DEF Trigger, Become, ShowEntry, ShowProgress
<1>2. TaskTypes'
  BY <1>1, LoaderFacts DEF TasksInv, TaskTypes, Phases
<1>3. LoadsGuarded' /\ FreshRuns' /\ LateIsOver'
  BY <1>1, LoaderFacts DEF TasksInv, TaskTypes, LoadsGuarded, FreshRuns, LateIsOver
<1>4. TableExact'
  <2> SUFFICES ASSUME NEW e \in Downloads, Live(e)' PROVE table'[ModelOf[e]] = e
    BY DEF TableExact
  <2>1. CASE e = d
    BY <1>1, <2>1, LoaderFacts DEF TasksInv, TaskTypes
  <2>2. CASE e # d
    <3>1. Live(e) /\ table[ModelOf[e]] = e
      BY <1>1, <2>2, LoaderFacts DEF TasksInv, TaskTypes, Live, TableExact
    <3>2. ModelOf[e] # ModelOf[d]
      BY <1>1, <3>1
    <3> QED
      BY <1>1, <3>1, <3>2, LoaderFacts DEF TasksInv, TaskTypes
  <2> QED
    BY <2>1, <2>2
<1>5. ShownWhileLoading'
  <2> SUFFICES ASSUME NEW e \in Downloads, phase'[e] = "loading", e \in fresh
               PROVE  entry'[ModelOf[e]] = "downloading" /\ progress'[ModelOf[e]] = "downloading"
    BY <1>1 DEF ShownWhileLoading
  <2>1. phase[e] = "loading"
    BY <1>1, LoaderFacts DEF TasksInv, TaskTypes
  <2>2. entry[ModelOf[e]] = "downloading" /\ progress[ModelOf[e]] = "downloading"
    BY <2>1 DEF TasksInv, ShownWhileLoading
  <2> QED
    BY <1>1, <2>2, LoaderFacts DEF TasksInv, TaskTypes
<1> QED
  BY <1>2, <1>3, <1>4, <1>5 DEF TasksInv

LEMMA ArriveKeeps == ASSUME TasksInv, NEW j \in LoadJobs, Arrive(j) PROVE TasksInv'
<1>1. /\ phase' = [phase EXCEPT ![j] = "waiting"] /\ phase[j] = "unborn" /\ j \notin Downloads
      /\ UNCHANGED <<fresh, thrown, callback, table, entry, progress, guard>>
  BY ModelTasksAssumption DEF Arrive, Become, shownVars
<1>2. j \in Loaders
  BY DEF Loaders
<1>3. TaskTypes'
  BY <1>1, <1>2 DEF TasksInv, TaskTypes, Phases
<1>4. LoadsGuarded' /\ FreshRuns' /\ LateIsOver'
  BY <1>1, <1>2, LoaderFacts DEF TasksInv, TaskTypes, LoadsGuarded, FreshRuns, LateIsOver
<1>5. TableExact' /\ ShownWhileLoading'
  BY <1>1, <1>2, LoaderFacts DEF TasksInv, TaskTypes, TableExact, ShownWhileLoading, Live
<1> QED
  BY <1>3, <1>4, <1>5 DEF TasksInv

LEMMA LoadKeeps == ASSUME TasksInv, NEW d \in Loaders, Load(d) PROVE TasksInv'
<1>1. /\ phase' = [phase EXCEPT ![d] = "loading"] /\ phase[d] = "waiting" /\ guard = NoTask /\ guard' = d
      /\ UNCHANGED <<thrown, callback, table>>
  BY DEF Load, Become
<1>2. \/ UNCHANGED <<fresh, entry, progress>> /\ IsCached(ModelOf[d])
      \/ /\ fresh' = fresh \cup {d}
         /\ entry' = [entry EXCEPT ![ModelOf[d]] = "downloading"]
         /\ progress' = [progress EXCEPT ![ModelOf[d]] = "downloading"]
  BY DEF Load, ShowEntry, ShowProgress, shownVars
<1>3. TaskTypes'
  BY <1>1, <1>2, LoaderFacts DEF TasksInv, TaskTypes, Phases
<1>4. LoadsGuarded' /\ FreshRuns' /\ LateIsOver' /\ TableExact'
  BY <1>1, <1>2, LoaderFacts DEF TasksInv, TaskTypes, LoadsGuarded, FreshRuns, LateIsOver, TableExact, Live
<1>5. \A e \in Loaders \ {d} : phase'[e] # "loading"
  BY <1>1, LoaderFacts DEF TasksInv, TaskTypes, LoadsGuarded
<1>6. d \in fresh' => entry'[ModelOf[d]] = "downloading" /\ progress'[ModelOf[d]] = "downloading"
  BY <1>1, <1>2, LoaderFacts DEF TasksInv, TaskTypes, FreshRuns
<1>7. ShownWhileLoading'
  BY <1>5, <1>6, LoaderFacts DEF ShownWhileLoading
<1> QED
  BY <1>3, <1>4, <1>7 DEF TasksInv


LEMMA LoadEndsKeeps ==
    ASSUME TasksInv, NEW d \in Loaders, Loaded(d) \/ LoadFails(d) PROVE TasksInv'
<1>1. /\ \E to \in {"loaded", "failed"} : phase' = [phase EXCEPT ![d] = to]
      /\ phase[d] = "loading" /\ UNCHANGED <<fresh, thrown, callback, table, guard>>
  BY DEF Loaded, LoadFails, Become
<1>2. /\ entry' \in [Models -> {"none", "downloading", "error"}]
      /\ progress' \in [Models -> {"none", "downloading", "complete", "error"}]
  BY LoaderFacts DEF Loaded, LoadFails, ShowEntry, ShowProgress, shownVars, TasksInv, TaskTypes
<1>3. TaskTypes'
  BY <1>1, <1>2 DEF TasksInv, TaskTypes, Phases
<1>4. LoadsGuarded' /\ FreshRuns' /\ LateIsOver' /\ TableExact'
  BY <1>1, LoaderFacts DEF TasksInv, TaskTypes, LoadsGuarded, FreshRuns, LateIsOver, TableExact, Live
<1>5. \A e \in Loaders : phase'[e] # "loading"
  BY <1>1, LoaderFacts DEF TasksInv, TaskTypes, LoadsGuarded
<1> QED
  BY <1>3, <1>4, <1>5, LoaderFacts DEF TasksInv, ShownWhileLoading

LEMMA ReturnKeeps == ASSUME TasksInv, NEW d \in Loaders, Return(d) PROVE TasksInv'
<1>1. /\ phase' = [phase EXCEPT ![d] = "done"] /\ fresh' = fresh \ {d}
      /\ callback' = callback \cup ({d} \cap Downloads) /\ UNCHANGED <<thrown, table, progress>>
      /\ \/ phase[d] \in {"loaded", "failed"} /\ guard' = NoTask
         \/ phase[d] = "waiting" /\ d \in thrown /\ UNCHANGED guard
  BY DEF Return, Become
<1>2. /\ entry' \in [Models -> {"none", "downloading", "error"}]
      /\ phase[d] = "waiting" => UNCHANGED entry
  BY <1>1, LoaderFacts DEF Return, ShowEntry, TasksInv, TaskTypes
<1>3. TaskTypes'
  BY <1>1, <1>2, LoaderFacts DEF TasksInv, TaskTypes, Phases
<1>4. LoadsGuarded'
  BY <1>1, LoaderFacts DEF TasksInv, TaskTypes, LoadsGuarded
<1>5. FreshRuns' /\ LateIsOver' /\ TableExact'
  BY <1>1, LoaderFacts DEF TasksInv, TaskTypes, FreshRuns, LateIsOver, TableExact, Live
<1>6. ShownWhileLoading'
  <2>1. CASE phase[d] = "waiting"
    BY <1>1, <1>2, <2>1, LoaderFacts DEF TasksInv, TaskTypes, ShownWhileLoading
  <2>2. CASE phase[d] \in {"loaded", "failed"}
    <3>1. \A e \in Loaders : phase'[e] # "loading"
      BY <1>1, <2>2, LoaderFacts DEF TasksInv, TaskTypes, LoadsGuarded
    <3> QED
      BY <3>1, LoaderFacts DEF ShownWhileLoading
  <2> QED
    BY <1>1, <2>1, <2>2
<1> QED
  BY <1>3, <1>4, <1>5, <1>6 DEF TasksInv

(* The callback of a task that is over finds itself in the table, or does   *)
(* nothing: what a later task of the model shows is not touched.            *)
LEMMA CallbackKeeps == ASSUME TasksInv, NEW d \in Downloads, Callback(d) PROVE TasksInv'
<1>1. /\ d \in callback /\ callback' = callback \ {d} /\ phase[d] = "done"
      /\ UNCHANGED <<phase, fresh, thrown, guard>>
  BY DEF Callback, TasksInv, LateIsOver
<1>2. /\ \/ UNCHANGED <<table, entry, progress>>
         \/ /\ table[ModelOf[d]] = d /\ table' = [table EXCEPT ![ModelOf[d]] = NoTask]
            /\ \/ UNCHANGED <<entry, progress>>
               \/ /\ entry' = [entry EXCEPT ![ModelOf[d]] = "none"]
                  /\ progress' = [progress EXCEPT ![ModelOf[d]] = "none"]
  BY DEF Callback, FinishTask, ShowEntry, ShowProgress, shownVars
<1>3. TaskTypes'
  BY <1>1, <1>2, LoaderFacts DEF TasksInv, TaskTypes
<1>4. LoadsGuarded' /\ FreshRuns' /\ LateIsOver'
  BY <1>1 DEF TasksInv, LoadsGuarded, FreshRuns, LateIsOver
<1>5. \A e \in Downloads : Live(e) /\ table[ModelOf[d]] = d => ModelOf[e] # ModelOf[d]
  BY <1>1 DEF TasksInv, TableExact, Live
<1>6. TableExact'
  BY <1>1, <1>2, <1>5, LoaderFacts DEF TasksInv, TaskTypes, TableExact, Live
<1>7. ShownWhileLoading'
  <2> SUFFICES ASSUME NEW e \in Downloads, phase[e] = "loading", e \in fresh
               PROVE  entry'[ModelOf[e]] = "downloading" /\ progress'[ModelOf[e]] = "downloading"
    BY <1>1 DEF ShownWhileLoading
  <2>1. Live(e) /\ entry[ModelOf[e]] = "downloading" /\ progress[ModelOf[e]] = "downloading"
    BY LoaderFacts DEF TasksInv, ShownWhileLoading, Live
  <2> QED
    BY <1>2, <1>5, <2>1, LoaderFacts DEF TasksInv, TaskTypes
<1> QED
  BY <1>3, <1>4, <1>6, <1>7 DEF TasksInv

LEMMA DismissKeeps == ASSUME TasksInv, NEW m \in Models, Dismiss(m) PROVE TasksInv'
<1>1. /\ ~Live(table[m]) /\ table' = [table EXCEPT ![m] = NoTask]
      /\ entry' = [entry EXCEPT ![m] = "none"] /\ progress' = [progress EXCEPT ![m] = "none"]
      /\ UNCHANGED <<phase, fresh, thrown, callback, guard>>
  BY DEF Dismiss, ShowEntry, ShowProgress
<1>2. TaskTypes' /\ LoadsGuarded' /\ FreshRuns' /\ LateIsOver'
  BY <1>1, LoaderFacts DEF TasksInv, TaskTypes, LoadsGuarded, FreshRuns, LateIsOver
<1>3. \A e \in Downloads : Live(e) => ModelOf[e] # m
  BY <1>1 DEF TasksInv, TableExact
<1>4. TableExact'
  BY <1>1, <1>3, LoaderFacts DEF TasksInv, TaskTypes, TableExact, Live
<1>5. \A e \in Downloads : phase[e] = "loading" => ModelOf[e] # m
  BY <1>3, LoaderFacts DEF Live
<1>6. ShownWhileLoading'
  BY <1>1, <1>5, LoaderFacts DEF TasksInv, TaskTypes, ShownWhileLoading
<1> QED
  BY <1>2, <1>4, <1>6 DEF TasksInv

LEMMA ClearKeeps == ASSUME TasksInv, Clear PROVE TasksInv'
<1>1. /\ \A m \in Models : ~Live(table[m])
      /\ table' = [m \in Models |-> NoTask]
      /\ entry' = [m \in Models |-> "none"] /\ progress' = [m \in Models |-> "none"]
      /\ UNCHANGED <<phase, fresh, thrown, callback, guard>>
  BY DEF Clear
<1>2. TaskTypes' /\ LoadsGuarded' /\ FreshRuns' /\ LateIsOver'
  BY <1>1 DEF TasksInv, TaskTypes, LoadsGuarded, FreshRuns, LateIsOver
<1>3. \A e \in Downloads : ~Live(e)
  BY <1>1, LoaderFacts DEF TasksInv, TableExact
<1> QED
  BY <1>1, <1>2, <1>3, LoaderFacts DEF TasksInv, TableExact, ShownWhileLoading, Live

LEMMA CancelKeeps == ASSUME TasksInv, NEW m \in Models, Cancel(m) PROVE TasksInv'
<1>1. /\ thrown' = thrown \cup {table[m]} /\ table[m] \in Loaders
      /\ UNCHANGED <<phase, fresh, callback, table, entry, progress, guard>>
  BY DEF Cancel, Live, shownVars
<1> QED
  BY <1>1, Aside DEF TasksInv, TaskTypes

LEMMA AsideSteps ==
    ASSUME TasksInv,
           \/ Migrate \/ Scan \/ MigrationEnds
           \/ \E m \in Models : Delete(m) \/ Rename(m) \/ Copy(m) \/ RemoveSource(m)
    PROVE  TasksInv'
<1>1. UNCHANGED <<phase, fresh, thrown, callback, table, entry, progress>>
  BY DEF Migrate, Scan, MigrationEnds, Delete, Rename, Copy, RemoveSource, MigrationStep, loaderVars, shownVars
<1>2. guard' = guard \/ guard \in {NoTask, "migration"}
  BY DEF Migrate, Scan, MigrationEnds, Delete, Rename, Copy, RemoveSource, MigrationStep
<1> QED
  BY <1>1, <1>2, Aside DEF TasksInv, TaskTypes

LEMMA TasksInvStep == TasksInv /\ [ModelTasksNext]_modelTaskVars => TasksInv'
<1> SUFFICES ASSUME TasksInv, [ModelTasksNext]_modelTaskVars PROVE TasksInv'
  OBVIOUS
<1>1. CASE UNCHANGED modelTaskVars
  BY <1>1, Aside DEF modelTaskVars, TasksInv, TaskTypes
<1>2. CASE \E d \in Downloads : Trigger(d) \/ Callback(d)
  BY <1>2, TriggerKeeps, CallbackKeeps
<1>3. CASE \E j \in LoadJobs : Arrive(j)
  BY <1>3, ArriveKeeps
<1>4. CASE \E d \in Loaders : Load(d) \/ Loaded(d) \/ LoadFails(d) \/ Return(d)
  BY <1>4, LoadKeeps, LoadEndsKeeps, ReturnKeeps
<1>5. CASE Clear \/ \E m \in Models : Cancel(m) \/ Dismiss(m)
  BY <1>5, ClearKeeps, CancelKeeps, DismissKeeps
<1>6. CASE \/ Migrate \/ Scan \/ MigrationEnds
           \/ \E m \in Models : Delete(m) \/ Rename(m) \/ Copy(m) \/ RemoveSource(m)
  BY <1>6, AsideSteps
<1> QED
  BY <1>1, <1>2, <1>3, <1>4, <1>5, <1>6 DEF ModelTasksNext

LEMMA TasksInvAlways == ModelTasksSpec => []TasksInv
  BY TasksInvInit, TasksInvStep, PTL DEF ModelTasksSpec

(* Whatever callbacks are late and whatever is cancelled, dismissed and     *)
(* cleared meanwhile, a download that is not over is the one in the route's *)
(* table and is shown while it loads.                                       *)
THEOREM DownloadsAreOwned == ModelTasksSpec => []DownloadIsOwned
<1>1. TasksInv => DownloadIsOwned
  BY DEF TasksInv, TableExact, ShownWhileLoading, DownloadIsOwned
<1> QED
  BY <1>1, TasksInvAlways, PTL

-----------------------------------------------------------------------------
(* What is copied, but not yet removed, is complete at the destination.     *)
CopyIsThere == copying # NoTask => copying \in moved

LEMMA CopyIsThereInit == ModelTasksInit => CopyIsThere
BY DEF ModelTasksInit, CopyIsThere

LEMMA MovedSteps ==
    ASSUME [ModelTasksNext]_modelTaskVars
    PROVE  \/ UNCHANGED <<moved, copying>>
           \/ \E m \in Models : Rename(m) \/ Copy(m) \/ RemoveSource(m)
           \/ MigrationEnds
<1>1. CASE \E d \in Loaders : Load(d) \/ Loaded(d) \/ LoadFails(d) \/ Return(d)
  BY <1>1 DEF Load, Loaded, LoadFails, Return, diskVars
<1>2. CASE \E d \in Downloads : Trigger(d) \/ Callback(d)
  BY <1>2 DEF Trigger, Callback, diskVars
<1>3. CASE \E j \in LoadJobs : Arrive(j)
  BY <1>3 DEF Arrive, diskVars
<1>4. CASE \E m \in Models : Cancel(m) \/ Dismiss(m) \/ Delete(m)
  BY <1>4 DEF Cancel, Dismiss, Delete, diskVars
<1>5. CASE Clear \/ Migrate \/ Scan
  BY <1>5 DEF Clear, Migrate, Scan, diskVars
<1> QED
  BY <1>1, <1>2, <1>3, <1>4, <1>5 DEF ModelTasksNext, modelTaskVars

LEMMA CopyIsThereStep == CopyIsThere /\ [ModelTasksNext]_modelTaskVars => CopyIsThere'
<1> SUFFICES ASSUME CopyIsThere, [ModelTasksNext]_modelTaskVars PROVE CopyIsThere'
  OBVIOUS
<1>1. CASE UNCHANGED <<moved, copying>>
  BY <1>1 DEF CopyIsThere
<1>2. CASE \E m \in Models : Rename(m) \/ Copy(m) \/ RemoveSource(m)
  BY <1>2 DEF CopyIsThere, Rename, Copy, RemoveSource
<1>3. CASE MigrationEnds
  BY <1>3 DEF CopyIsThere, MigrationEnds
<1> QED
  BY <1>1, <1>2, <1>3, MovedSteps

LEMMA CachedSteps ==
    ASSUME [ModelTasksNext]_modelTaskVars, NEW m \in cached \ cached'
    PROVE  m \in Models /\ (Delete(m) \/ Rename(m) \/ RemoveSource(m))
<1>1. CASE \E d \in Loaders : Load(d) \/ Loaded(d) \/ LoadFails(d) \/ Return(d)
  BY <1>1 DEF Load, Loaded, LoadFails, Return, diskVars
<1>2. CASE \E d \in Downloads : Trigger(d) \/ Callback(d)
  BY <1>2 DEF Trigger, Callback, diskVars
<1>3. CASE \E j \in LoadJobs : Arrive(j)
  BY <1>3 DEF Arrive, diskVars
<1>4. CASE Clear \/ Migrate \/ Scan \/ MigrationEnds
  BY <1>4 DEF Clear, Migrate, Scan, MigrationEnds, diskVars
<1>5. CASE \E n \in Models : Cancel(n) \/ Dismiss(n) \/ Copy(n)
  BY <1>5 DEF Cancel, Dismiss, Copy, diskVars
<1>6. CASE \E n \in Models : Delete(n) \/ Rename(n) \/ RemoveSource(n)
  <2> PICK n \in Models : Delete(n) \/ Rename(n) \/ RemoveSource(n)
    BY <1>6
  <2>1. cached' = cached \ {n}
    BY DEF Delete, Rename, RemoveSource
  <2>2. m = n
    BY <2>1
  <2> QED
    BY <2>2
<1> QED
  BY <1>1, <1>2, <1>3, <1>4, <1>5, <1>6 DEF ModelTasksNext, modelTaskVars

(* A migration, by renaming or by copying, that fails or is cancelled at    *)
(* any step, and runs again, loses no model and writes to no name that was  *)
(* taken at the destination.                                                *)
THEOREM MigrationKeepsModels == ModelTasksSpec => NoModelIsLost
<1> DEFINE Kept == /\ \A m \in cached \ cached' : m \in moved' \/ (guard = NoTask /\ migration' = migration)
                   /\ \A m \in Models : (m \in moved' /\ m \notin moved) => m \notin remains
<1>1. ASSUME CopyIsThere, [ModelTasksNext]_modelTaskVars PROVE [Kept]_modelTaskVars
  <2>1. ASSUME NEW m \in cached \ cached' PROVE m \in moved' \/ (guard = NoTask /\ migration' = migration)
    <3>1. CASE Delete(m)
      BY <3>1 DEF Delete
    <3>2. CASE Rename(m)
      BY <3>2 DEF Rename
    <3>3. CASE RemoveSource(m)
      <4>1. copying = m /\ moved' = moved /\ copying' = NoTask
        BY <3>3 DEF RemoveSource
      <4>2. m # NoTask
        BY <1>1, CachedSteps, LoaderFacts
      <4> QED
        BY <1>1, <4>1, <4>2 DEF CopyIsThere
    <3> QED
      BY <1>1, <3>1, <3>2, <3>3, CachedSteps
  <2>2. ASSUME NEW m \in Models, m \in moved', m \notin moved PROVE m \notin remains
    BY <1>1, <2>2, MovedSteps DEF Rename, Copy, RemoveSource, MigrationEnds
  <2> QED
    BY <2>1, <2>2
<1> QED
  BY <1>1, CopyIsThereInit, CopyIsThereStep, PTL DEF ModelTasksSpec, NoModelIsLost

-----------------------------------------------------------------------------
(* The accelerator lifecycle guard.                                        *)

(* An actor between the two steps of a claim or a release is in no hold;   *)
(* the outermost hold, and no nested one, is to release.                   *)
BetweenLocks == \A a \in Actors : pc[a] \in {"grabbed", "leaving"} => depth[a] = 0
OutermostReleases == \A a \in Actors : claims[a] = IF depth[a] > 0 THEN {1} ELSE {}
OneHolding == \A a, b \in Actors : Holding(a) /\ Holding(b) => a = b
WorkInside == \A a \in Actors : working[a] => depth[a] > 0 /\ pc[a] = "free"
RoomToNest == \A a \in Actors : pc[a] \in {"asking", "trying", "sleeping"} => depth[a] < MaxDepth

GuardInv ==
  /\ GuardTypeOK
  /\ OwnerIsInside
  /\ LockHasHolder
  /\ OneHolding
  /\ BetweenLocks
  /\ OutermostReleases
  /\ WorkInside
  /\ RoomToNest

USE NobodyAssumption, DepthAssumption

-----------------------------------------------------------------------------
LEMMA InitInv == GuardInit => GuardInv
<1> SUFFICES ASSUME GuardInit PROVE GuardInv
  OBVIOUS
<1>1. GuardTypeOK
  <2>1. locked \in BOOLEAN /\ owner \in Actors \cup {Nobody} /\ working \in [Actors -> BOOLEAN]
    BY DEF GuardInit
  <2>2. pc \in [Actors -> {"free", "asking", "trying", "sleeping", "grabbed", "leaving"}]
    BY DEF GuardInit
  <2>3. 0 \in 0..MaxDepth /\ {} \in SUBSET (1..MaxDepth)
    OBVIOUS
  <2>4. depth \in [Actors -> 0..MaxDepth] /\ claims \in [Actors -> SUBSET (1..MaxDepth)]
    BY <2>3 DEF GuardInit
  <2>5. \A a \in Actors : claims[a] \subseteq 1..depth[a]
    BY DEF GuardInit
  <2> QED
    BY <2>1, <2>2, <2>4, <2>5 DEF GuardTypeOK
<1>2. \A a \in Actors : depth[a] = 0 /\ pc[a] = "free" /\ claims[a] = {} /\ ~working[a]
  BY DEF GuardInit
<1> QED
  BY <1>1, <1>2 DEF GuardInit, GuardInv, OwnerIsInside, LockHasHolder, OneHolding, BetweenLocks,
                    OutermostReleases, WorkInside, RoomToNest, Holding, Inside

(* Steps that move an actor's pc between places that hold no lock. *)
LEMMA PcStep ==
  ASSUME GuardInv, NEW a \in Actors,
         pc[a] \notin {"grabbed", "leaving"}, ~working[a], depth[a] < MaxDepth,
         NEW where \in {"free", "asking", "trying", "sleeping"}, Goto(a, where),
         UNCHANGED <<locked, owner, depth, claims, working>>
  PROVE  GuardInv'
<1>1. pc' = [pc EXCEPT ![a] = where] /\ pc \in [Actors -> {"free", "asking", "trying", "sleeping", "grabbed", "leaving"}]
  BY DEF Goto, GuardInv, GuardTypeOK
<1>2. GuardTypeOK'
  BY <1>1 DEF GuardInv, GuardTypeOK
<1>3. \A x \in Actors : Holding(x)' <=> Holding(x)
  BY <1>1 DEF Holding, Inside
<1>4. OwnerIsInside' /\ OutermostReleases'
  BY DEF GuardInv, OwnerIsInside, OutermostReleases, Inside
<1>5. LockHasHolder' /\ OneHolding'
  BY <1>3 DEF GuardInv, LockHasHolder, OneHolding
<1>6. BetweenLocks' /\ WorkInside' /\ RoomToNest'
  BY <1>1 DEF GuardInv, BetweenLocks, WorkInside, RoomToNest
<1> QED
  BY <1>2, <1>4, <1>5, <1>6 DEF GuardInv

LEMMA StepInv == GuardInv /\ [GuardNext]_guardVars => GuardInv'
<1> SUFFICES ASSUME GuardInv, [GuardNext]_guardVars PROVE GuardInv'
  OBVIOUS
<1> USE DEF Goto
<1>1. CASE UNCHANGED guardVars
  BY <1>1 DEF guardVars, GuardInv, GuardTypeOK, OwnerIsInside, LockHasHolder, OneHolding, BetweenLocks,
              OutermostReleases, WorkInside, RoomToNest, Holding, Inside
<1>2. ASSUME NEW a \in Actors, Ask(a) \/ NotOwner(a) \/ Busy(a) \/ Poll(a) \/ Abandon(a)
      PROVE  GuardInv'
  <2>1. ~working[a] /\ pc[a] \notin {"grabbed", "leaving"} /\ depth[a] < MaxDepth
    BY <1>2 DEF Ask, NotOwner, Busy, Poll, Abandon, GuardInv, WorkInside, RoomToNest
  <2>2. PICK where \in {"free", "asking", "trying", "sleeping"} : Goto(a, where)
    BY <1>2 DEF Ask, NotOwner, Busy, Poll, Abandon
  <2>3. UNCHANGED <<locked, owner, depth, claims, working>>
    BY <1>2 DEF Ask, NotOwner, Busy, Poll, Abandon
  <2> QED
    BY <2>1, <2>2, <2>3, PcStep
<1>3. ASSUME NEW a \in Actors, Reenter(a) \/ LeaveNested(a)
      PROVE  GuardInv'
  <2>1. /\ depth[a] \in 1..MaxDepth /\ depth'[a] \in 1..MaxDepth /\ ~working[a]
        /\ depth' = [depth EXCEPT ![a] = depth'[a]]
    BY <1>3 DEF Reenter, LeaveNested, Innermost, IsOwner, GuardInv, GuardTypeOK, OwnerIsInside, Inside,
                OutermostReleases, WorkInside, RoomToNest
  <2>2. pc' = [pc EXCEPT ![a] = "free"] /\ pc[a] \in {"free", "asking"}
    BY <1>3 DEF Reenter, LeaveNested, GuardInv, GuardTypeOK
  <2>3. UNCHANGED <<locked, owner, claims, working>>
    BY <1>3 DEF Reenter, LeaveNested
  <2> HIDE DEF Goto
  <2>4. GuardTypeOK'
    BY <2>1, <2>2, <2>3 DEF GuardInv, GuardTypeOK, OutermostReleases
  <2>5. \A x \in Actors : (Holding(x)' <=> Holding(x)) /\ (Inside(x)' <=> Inside(x))
    BY <2>1, <2>2 DEF Holding, Inside, GuardInv, GuardTypeOK
  <2>6. OwnerIsInside' /\ LockHasHolder' /\ OneHolding'
    BY <2>3, <2>5 DEF GuardInv, OwnerIsInside, LockHasHolder, OneHolding
  <2>7. OutermostReleases'
    BY <2>1, <2>3 DEF GuardInv, OutermostReleases, GuardTypeOK
  <2>8. BetweenLocks' /\ WorkInside' /\ RoomToNest'
    BY <2>1, <2>2, <2>3 DEF GuardInv, BetweenLocks, WorkInside, RoomToNest, GuardTypeOK
  <2> QED
    BY <2>4, <2>6, <2>7, <2>8 DEF GuardInv
<1>4. ASSUME NEW a \in Actors, Work(a) \/ WorkEnds(a)
      PROVE  GuardInv'
  <2>1. /\ depth[a] > 0 /\ pc[a] = "free"
        /\ working' = [working EXCEPT ![a] = ~working[a]]
        /\ UNCHANGED <<locked, owner, pc, depth, claims>>
    BY <1>4 DEF Work, WorkEnds, GuardInv, GuardTypeOK, WorkInside
  <2> QED
    BY <2>1 DEF GuardInv, GuardTypeOK, OwnerIsInside, LockHasHolder, OneHolding, BetweenLocks,
                OutermostReleases, WorkInside, RoomToNest, Holding, Inside
<1>5. ASSUME NEW a \in Actors, Grab(a)
      PROVE  GuardInv'
  <2>1. \A x \in Actors : ~Holding(x) /\ depth[x] = 0
    BY <1>5 DEF Grab, GuardInv, LockHasHolder, Holding, Inside, GuardTypeOK
  <2>2. /\ locked' /\ pc' = [pc EXCEPT ![a] = "grabbed"] /\ ~working[a]
        /\ UNCHANGED <<owner, depth, claims, working>>
    BY <1>5 DEF Grab, GuardInv, WorkInside
  <2>3. GuardTypeOK'
    BY <1>5, <2>2 DEF Grab, GuardInv, GuardTypeOK
  <2>4. \A x \in Actors : Holding(x)' <=> x = a
    BY <2>1, <2>2 DEF Holding, Inside, GuardInv, GuardTypeOK
  <2>5. LockHasHolder' /\ OneHolding'
    BY <2>2, <2>4 DEF LockHasHolder, OneHolding
  <2>6. OwnerIsInside' /\ OutermostReleases'
    BY <2>2 DEF GuardInv, OwnerIsInside, OutermostReleases, Inside
  <2>7. BetweenLocks' /\ WorkInside' /\ RoomToNest'
    BY <2>1, <2>2 DEF GuardInv, BetweenLocks, WorkInside, RoomToNest, GuardTypeOK
  <2> QED
    BY <2>3, <2>5, <2>6, <2>7 DEF GuardInv
<1>6. ASSUME NEW a \in Actors, Own(a)
      PROVE  GuardInv'
  <2>1. Holding(a) /\ depth[a] = 0 /\ ~working[a] /\ claims[a] = {}
    BY <1>6 DEF Own, Holding, GuardInv, BetweenLocks, WorkInside, OutermostReleases
  <2>2. \A x \in Actors : (Holding(x) <=> x = a) /\ (x # a => depth[x] = 0)
    BY <2>1 DEF GuardInv, OneHolding, Holding, Inside, GuardTypeOK
  <2>3. /\ owner' = a /\ pc' = [pc EXCEPT ![a] = "free"]
        /\ depth' = [depth EXCEPT ![a] = 1] /\ claims' = [claims EXCEPT ![a] = {1}]
        /\ UNCHANGED <<locked, working>>
    BY <1>6, <2>1 DEF Own
  <2> HIDE DEF Goto
  <2>4. GuardTypeOK'
    <3>1. 1 \in 0..MaxDepth /\ {1} \in SUBSET (1..MaxDepth)
      OBVIOUS
    <3> QED
      BY <2>3, <3>1 DEF GuardInv, GuardTypeOK
  <2>5. \A x \in Actors : (Holding(x)' <=> x = a) /\ (Inside(x)' <=> x = a)
    BY <2>2, <2>3 DEF Holding, Inside, GuardInv, GuardTypeOK
  <2>6. LockHasHolder' /\ OneHolding' /\ OwnerIsInside'
    BY <2>1, <2>3, <2>5 DEF LockHasHolder, OneHolding, OwnerIsInside, GuardInv
  <2>7. OutermostReleases'
    BY <2>2, <2>3 DEF GuardInv, OutermostReleases, GuardTypeOK
  <2>8. BetweenLocks' /\ WorkInside' /\ RoomToNest'
    BY <2>1, <2>2, <2>3 DEF GuardInv, BetweenLocks, WorkInside, RoomToNest, GuardTypeOK
  <2> QED
    BY <2>4, <2>6, <2>7, <2>8 DEF GuardInv
<1>7. ASSUME NEW a \in Actors, Disown(a)
      PROVE  GuardInv'
  <2>1. depth[a] = 1 /\ claims[a] = {1} /\ Holding(a) /\ ~working[a]
    BY <1>7 DEF Disown, Innermost, GuardInv, GuardTypeOK, OutermostReleases, Holding, Inside
  <2>2. \A x \in Actors : (Holding(x) <=> x = a) /\ (x # a => depth[x] = 0)
    BY <2>1 DEF GuardInv, OneHolding, Holding, Inside, GuardTypeOK
  <2>3. /\ owner' = Nobody /\ pc' = [pc EXCEPT ![a] = "leaving"]
        /\ depth' = [depth EXCEPT ![a] = 0] /\ claims' = [claims EXCEPT ![a] = {}]
        /\ UNCHANGED <<locked, working>>
    <3>1. {1} \ {1} = {} /\ 1 - 1 = 0
      OBVIOUS
    <3>2. claims' = [claims EXCEPT ![a] = claims[a] \ {depth[a]}]
      BY <1>7 DEF Disown
    <3>3. depth' = [depth EXCEPT ![a] = depth[a] - 1]
      BY <1>7 DEF Disown
    <3>4. owner' = Nobody /\ pc' = [pc EXCEPT ![a] = "leaving"] /\ UNCHANGED <<locked, working>>
      BY <1>7 DEF Disown
    <3> QED
      BY <2>1, <3>1, <3>2, <3>3, <3>4
  <2> HIDE DEF Goto
  <2>4. GuardTypeOK'
    BY <2>3 DEF GuardInv, GuardTypeOK
  <2>5. \A x \in Actors : (Holding(x)' <=> x = a) /\ ~Inside(x)'
    BY <2>2, <2>3 DEF Holding, Inside, GuardInv, GuardTypeOK
  <2>6. LockHasHolder' /\ OneHolding' /\ OwnerIsInside'
    BY <2>1, <2>3, <2>5 DEF LockHasHolder, OneHolding, OwnerIsInside, GuardInv
  <2>7. OutermostReleases'
    <3>1. depth'[a] = 0 /\ claims'[a] = {}
      BY <2>3 DEF GuardInv, GuardTypeOK
    <3>2. \A x \in Actors : x # a => depth'[x] = depth[x] /\ claims'[x] = claims[x]
      BY <2>3 DEF GuardInv, GuardTypeOK
    <3> QED
      BY <3>1, <3>2 DEF GuardInv, OutermostReleases
  <2>8. BetweenLocks' /\ WorkInside' /\ RoomToNest'
    BY <2>1, <2>2, <2>3 DEF GuardInv, BetweenLocks, WorkInside, RoomToNest, GuardTypeOK
  <2> QED
    BY <2>4, <2>6, <2>7, <2>8 DEF GuardInv
<1>8. ASSUME NEW a \in Actors, Unlock(a)
      PROVE  GuardInv'
  <2>1. Holding(a) /\ depth[a] = 0 /\ ~working[a]
    BY <1>8 DEF Unlock, Holding, GuardInv, BetweenLocks, WorkInside
  <2>2. /\ locked' = FALSE /\ pc' = [pc EXCEPT ![a] = "free"]
        /\ UNCHANGED <<owner, depth, claims, working>>
    BY <1>8 DEF Unlock
  <2>3. GuardTypeOK'
    BY <2>2 DEF GuardInv, GuardTypeOK
  <2>4. \A x \in Actors : ~Holding(x)'
    BY <2>1, <2>2 DEF Holding, Inside, GuardInv, OneHolding, GuardTypeOK
  <2>5. LockHasHolder' /\ OneHolding'
    BY <2>2, <2>4 DEF LockHasHolder, OneHolding
  <2>6. OwnerIsInside' /\ OutermostReleases'
    BY <2>2 DEF GuardInv, OwnerIsInside, OutermostReleases, Inside
  <2>7. BetweenLocks' /\ WorkInside' /\ RoomToNest'
    BY <2>1, <2>2 DEF GuardInv, BetweenLocks, WorkInside, RoomToNest, GuardTypeOK
  <2> QED
    BY <2>3, <2>5, <2>6, <2>7 DEF GuardInv
<1> QED
  BY <1>1, <1>2, <1>3, <1>4, <1>5, <1>6, <1>7, <1>8 DEF GuardNext

(* The lifecycle guard: owner, nesting depths, claims to release and the    *)
(* lock agree between any two steps of a claim, a release or a drain.       *)
THEOREM GuardInvariant == GuardSpec => []GuardInv
BY InitInv, StepInv, PTL DEF GuardSpec

-----------------------------------------------------------------------------
(* Exclusion: one actor at a time is inside the guard, however its claim   *)
(* (owner read, lock taken, owner written) is cut by the others' steps.    *)
THEOREM GuardExcludes == GuardSpec => []OneInside
<1>1. GuardInv => OneInside
  BY DEF GuardInv, OneHolding, OneInside, Holding
<1> QED
  BY <1>1, GuardInvariant, PTL

(* The owner field names exactly the actor inside, so re-entry is never    *)
(* mistaken and _release never raises.                                     *)
THEOREM GuardOwner == GuardSpec => []OwnerIsInside
<1>1. GuardInv => OwnerIsInside
  BY DEF GuardInv
<1> QED
  BY <1>1, GuardInvariant, PTL

(* Executor threads run only for the owner. *)
THEOREM GuardWork == GuardSpec => []WorkIsOwned
<1>1. GuardInv => WorkIsOwned
  BY DEF GuardInv, WorkIsOwned, WorkInside, OwnerIsInside, Inside
<1> QED
  BY <1>1, GuardInvariant, PTL

(* Both at once: the owner is who is inside, and nobody else works.         *)
THEOREM GuardAlwaysOwned == GuardSpec => []GuardIsOwned
<1>1. OwnerIsInside /\ WorkIsOwned => GuardIsOwned
  BY DEF GuardIsOwned
<1> QED
  BY <1>1, GuardOwner, GuardWork, PTL

(* The lock is never left behind. *)
THEOREM GuardHolder == GuardSpec => []LockHasHolder
<1>1. GuardInv => LockHasHolder
  BY DEF GuardInv
<1> QED
  BY <1>1, GuardInvariant, PTL

-----------------------------------------------------------------------------
(* Refinement: the holder of the mutex is the one actor that is holding.   *)
Holder == IF \E a \in Actors : Holding(a) THEN CHOOSE a \in Actors : Holding(a) ELSE Nobody

(* Steps after which the same actors hold. *)
LEMMA SameHolder ==
  ASSUME NEW a \in Actors, GuardInv, GuardInv',
         \A x \in Actors : Holding(x)' <=> Holding(x)
  PROVE  Holder' = Holder
<1>1. CASE \E h \in Actors : Holding(h)
  <2>1. PICK h \in Actors : Holding(h)
    BY <1>1
  <2>2. Holder = h
    BY <2>1 DEF Holder, GuardInv, OneHolding
  <2>3. Holder' = h
    BY <2>1 DEF Holder, GuardInv, OneHolding
  <2> QED
    BY <2>2, <2>3
<1>2. CASE ~\E h \in Actors : Holding(h)
  BY <1>2 DEF Holder
<1> QED
  BY <1>1, <1>2

(* The guard is a mutex: Grab acquires it, Unlock releases it, and every   *)
(* other step, re-entry and both owner writes included, leaves it alone.   *)
THEOREM GuardIsMutex == GuardSpec => ImplementsMutex
<1>1. GuardInit => Guard!Init
  BY DEF GuardInit, Guard!Init, Holding, Inside
<1>2. ASSUME GuardInv, GuardInv', [GuardNext]_guardVars
      PROVE  [Guard!Next]_(Holder)
  <2>1. CASE UNCHANGED guardVars
    BY <2>1 DEF guardVars, Holder, Holding, Inside
  <2>2. ASSUME NEW a \in Actors, Grab(a)
        PROVE  Guard!Acquire(a)
    <3>1. \A x \in Actors : ~Holding(x)
      BY <1>2, <2>2 DEF GuardInv, LockHasHolder, Grab
    <3>2. Holding(a)'
      BY <2>2, <1>2 DEF Grab, Goto, Holding, GuardInv, GuardTypeOK
    <3> QED
      BY <1>2, <3>1, <3>2 DEF Guard!Acquire, GuardInv, OneHolding
  <2>3. ASSUME NEW a \in Actors, Unlock(a)
        PROVE  Guard!Release(a)
    <3>1. Holding(a)
      BY <2>3 DEF Unlock, Holding
    <3>2. \A x \in Actors : ~Holding(x)'
      BY <1>2, <2>3 DEF GuardInv, LockHasHolder, Unlock
    <3> QED
      BY <1>2, <3>1, <3>2 DEF Guard!Release, GuardInv, OneHolding
  <2>4. ASSUME NEW a \in Actors,
               Ask(a) \/ NotOwner(a) \/ Busy(a) \/ Poll(a) \/ Abandon(a) \/ Work(a) \/ WorkEnds(a)
        PROVE  Holder' = Holder
    <3>1. /\ depth' = depth /\ \A x \in Actors : x # a => pc'[x] = pc[x]
          /\ pc[a] \notin {"grabbed", "leaving"} /\ pc'[a] \notin {"grabbed", "leaving"}
      BY <1>2, <2>4 DEF Ask, NotOwner, Busy, Poll, Abandon, Work, WorkEnds, Goto, GuardInv, GuardTypeOK, WorkInside
    <3>2. \A x \in Actors : Holding(x)' <=> Holding(x)
      BY <3>1 DEF Holding, Inside
    <3> QED
      BY <1>2, <3>2, SameHolder
  <2>5. ASSUME NEW a \in Actors, Reenter(a) \/ LeaveNested(a) \/ Own(a) \/ Disown(a)
        PROVE  Holder' = Holder
    <3>1. /\ \A x \in Actors : x # a => pc'[x] = pc[x] /\ depth'[x] = depth[x]
          /\ Holding(a)
      BY <1>2, <2>5 DEF Reenter, LeaveNested, Own, Disown, Goto, GuardInv, GuardTypeOK, OwnerIsInside, IsOwner, Holding, Inside
    <3>2. Holding(a)'
      <4>1. CASE Reenter(a) \/ Own(a)
        BY <1>2, <4>1 DEF Reenter, Own, GuardInv, GuardTypeOK, Holding, Inside
      <4>2. CASE Disown(a)
        BY <1>2, <4>2 DEF Disown, Goto, GuardInv, GuardTypeOK, Holding
      <4>3. CASE LeaveNested(a)
        <5>1. depth[a] > 1 /\ depth'[a] > 0
          BY <1>2, <4>3 DEF LeaveNested, Innermost, GuardInv, GuardTypeOK, OutermostReleases
        <5> QED
          BY <5>1 DEF Holding, Inside
      <4> QED
        BY <2>5, <4>1, <4>2, <4>3
    <3>3. \A x \in Actors : Holding(x)' <=> Holding(x)
      BY <3>1, <3>2 DEF Holding, Inside
    <3> QED
      BY <1>2, <3>3, SameHolder
  <2> QED
    BY <1>2, <2>1, <2>2, <2>3, <2>4, <2>5 DEF GuardNext, Guard!Next, Holder
<1> QED
  BY <1>1, <1>2, GuardInvariant, PTL DEF GuardSpec, ImplementsMutex, Guard!Spec, Holder

-----------------------------------------------------------------------------
(* What the listeners of a download hear (progress.py).                    *)

ProgressStreamSpec == ProgressStreamInit /\ [][ProgressStreamNext]_progressVars

Events == [run : Nat, kind : {"going", "end"}]
Posts == [to : Clients, event : Events] \cup {TheEnd}

ProgressTypes ==
    /\ stream \in [Clients -> {"new", "reading", "gone"}] /\ since \in [Clients -> Nat]
    /\ listeners \in Seq(Clients) /\ box \in [Clients -> Seq(Events)] /\ posted \in Seq(Posts)
    /\ status \in {"none", "going", "end"} /\ runs \in Nat
    /\ thread \in {"none", "working", "walking", "ended", "posted"}
    /\ next \in Nat \ {0} /\ event \in Events /\ missed \subseteq Clients

(* A client listens once, as long as it reads.                              *)
ListenersHold ==
    /\ \A j, k \in DOMAIN listeners : listeners[j] = listeners[k] => j = k
    /\ \A c \in Clients : stream[c] = "reading" <=> \E k \in DOMAIN listeners : listeners[k] = c

(* A queue holds the past in its order; what is posted is of the present,   *)
(* and the end of the thread is behind everything.                          *)
BoxesInOrder ==
    \A c \in Clients : \A k \in DOMAIN box[c] :
        box[c][k].run <= runs /\ \A j \in DOMAIN box[c] : j < k => box[c][j].run <= box[c][k].run
PostedInOrder ==
    /\ \A k \in DOMAIN posted : IF posted[k] = TheEnd THEN k = Len(posted) /\ thread = "posted"
                                ELSE posted[k].event.run = runs
    /\ thread = "none" => posted = << >>
    /\ thread = "posted" => posted # << >> /\ posted[Len(posted)] = TheEnd
    /\ thread = "walking" => event.run = runs

(* The end of a download is on its way to whoever was there in time.        *)
HearsEnd(c) ==
    \/ \E k \in DOMAIN box[c] : box[c][k].kind = "end"
    \/ \E k \in DOMAIN posted : posted[k].to = c /\ posted[k].event.kind = "end"
    \/ /\ thread = "walking" /\ event.kind = "end"
       /\ \E k \in DOMAIN listeners : k >= next /\ listeners[k] = c
EndsOnTheirWay ==
    status = "end" =>
        \A c \in Clients : stream[c] = "reading" /\ c \notin missed /\ since[c] <= runs => HearsEnd(c)

ProgressInv == ProgressTypes /\ ListenersHold /\ BoxesInOrder /\ PostedInOrder /\ EndsOnTheirWay

LEMMA PostFacts ==
    /\ TheEnd.to = "task" /\ TheEnd.event.run = 0 /\ TheEnd.event.kind = "done" /\ "task" \notin Clients
    /\ \A p \in Posts : p = TheEnd \/ (p # TheEnd /\ p.to \in Clients /\ p.event \in Events)
    /\ \A e \in Events : e.run \in Nat /\ e.kind \in {"going", "end"}
BY ProgressStreamAssumption DEF TheEnd, Posts, Events

LEMMA ProgressInit == ProgressStreamInit => ProgressInv
<1> SUFFICES ASSUME ProgressStreamInit PROVE ProgressInv
  OBVIOUS
<1>1. ProgressTypes
  BY DEF ProgressStreamInit, ProgressTypes, Event, Events, Posts
<1> QED
  BY <1>1 DEF ProgressStreamInit, ProgressInv, ListenersHold, BoxesInOrder, PostedInOrder, EndsOnTheirWay

(* A sequence with one more at its end.                                     *)
LEMMA OneMore ==
    ASSUME NEW S, NEW s \in Seq(S), NEW e \in S
    PROVE  /\ Append(s, e) \in Seq(S) /\ Len(Append(s, e)) = Len(s) + 1 /\ Len(s) \in Nat
           /\ DOMAIN s = 1..Len(s) /\ DOMAIN Append(s, e) = 1..Len(s) + 1
           /\ \A k \in DOMAIN s : Append(s, e)[k] = s[k] /\ s[k] \in S
           /\ Append(s, e)[Len(s) + 1] = e
OBVIOUS

(* ... with one less at its head.                                           *)
LEMMA OneLess ==
    ASSUME NEW S, NEW s \in Seq(S), s # << >>
    PROVE  /\ Tail(s) \in Seq(S) /\ Len(s) \in Nat \ {0} /\ Len(Tail(s)) = Len(s) - 1
           /\ DOMAIN s = 1..Len(s) /\ DOMAIN Tail(s) = 1..Len(s) - 1
           /\ \A k \in DOMAIN Tail(s) : Tail(s)[k] = s[k + 1] /\ k + 1 \in DOMAIN s
           /\ Head(s) = s[1] /\ Head(s) \in S /\ 1 \in DOMAIN s
OBVIOUS

(* ... and with one left out.                                               *)
LEMMA OneOut ==
    ASSUME NEW S, NEW s \in Seq(S), NEW at \in DOMAIN s
    PROVE  /\ RemoveAt(s, at) \in Seq(S) /\ Len(RemoveAt(s, at)) = Len(s) - 1 /\ Len(s) \in Nat
           /\ DOMAIN s = 1..Len(s) /\ DOMAIN RemoveAt(s, at) = 1..Len(s) - 1
           /\ \A k \in 1..Len(s) - 1 : RemoveAt(s, at)[k] = IF k < at THEN s[k] ELSE s[k + 1]
<1>1. PICK t \in Seq(S) :
        /\ t = RemoveAt(s, at) /\ Len(t) = Len(s) - 1
        /\ \A k \in 1..Len(s) - 1 : t[k] = IF k < at THEN s[k] ELSE s[k + 1]
  BY RemoveAtFacts
<1>2. DOMAIN t = 1..Len(s) - 1
  BY <1>1
<1> QED
  BY <1>1, <1>2

LEMMA AnnounceKeeps == ASSUME ProgressInv, Announce PROVE ProgressInv'
<1>1. /\ thread = "none" /\ runs' = runs + 1 /\ status' = "going" /\ thread' = "working"
      /\ box' = [c \in Clients |-> IF c \in ToSet(listeners) /\ Len(box[c]) < Room
                                   THEN Append(box[c], [run |-> runs + 1, kind |-> "going"]) ELSE box[c]]
      /\ missed' = missed \cup {c \in ToSet(listeners) : Len(box[c]) >= Room}
      /\ UNCHANGED <<stream, since, listeners, posted, next, event>>
  BY DEF Announce
<1>2. runs \in Nat /\ posted = << >>
  BY <1>1 DEF ProgressInv, ProgressTypes, PostedInOrder
<1>3. PICK e \in Events : e = [run |-> runs + 1, kind |-> "going"] /\ e.run = runs + 1
  <2>1. [run |-> runs + 1, kind |-> "going"] \in Events
    BY <1>2 DEF Events
  <2> QED
    BY <2>1
<1>4. \A c \in Clients : /\ box[c] \in Seq(Events)
                         /\ box'[c] = box[c] \/ box'[c] = Append(box[c], e)
  BY <1>1, <1>3 DEF ProgressInv, ProgressTypes
<1>5. ToSet(listeners) \subseteq Clients
  BY DEF ProgressInv, ProgressTypes, ToSet
<1>6. ProgressTypes'
  <2>1. box' \in [Clients -> Seq(Events)]
    <3>1. ASSUME NEW c \in Clients PROVE box'[c] \in Seq(Events)
      <4>1. Append(box[c], e) \in Seq(Events)
        BY <1>4, OneMore
      <4> QED
        BY <1>4, <4>1
    <3> QED
      BY <1>1, <3>1
  <2>2. missed' \subseteq Clients
    BY <1>1, <1>5 DEF ProgressInv, ProgressTypes
  <2> QED
    BY <1>1, <1>2, <2>1, <2>2 DEF ProgressInv, ProgressTypes
<1>7. BoxesInOrder'
  <2> SUFFICES ASSUME NEW c \in Clients, NEW k \in DOMAIN box'[c]
               PROVE  /\ box'[c][k].run <= runs'
                      /\ \A j \in DOMAIN box'[c] : j < k => box'[c][j].run <= box'[c][k].run
    BY DEF BoxesInOrder
  <2>1. \A i \in DOMAIN box[c] : box[c][i] \in Events /\ box[c][i].run <= runs /\ box[c][i].run \in Nat
    BY <1>4, PostFacts DEF ProgressInv, BoxesInOrder
  <2>2. CASE box'[c] = box[c]
    BY <1>1, <1>2, <2>1, <2>2 DEF ProgressInv, BoxesInOrder
  <2>3. CASE box'[c] = Append(box[c], e)
    <3>1. /\ Len(box[c]) \in Nat /\ DOMAIN box[c] = 1..Len(box[c]) /\ DOMAIN box'[c] = 1..Len(box[c]) + 1
          /\ \A i \in DOMAIN box[c] : box'[c][i] = box[c][i]
          /\ box'[c][Len(box[c]) + 1] = e
      BY <1>4, <2>3, OneMore
    <3>2. CASE k \in DOMAIN box[c]
      <4>1. \A j \in DOMAIN box'[c] : j < k => j \in DOMAIN box[c]
        BY <3>1, <3>2
      <4>2. \A j \in DOMAIN box[c] : j < k => box[c][j].run <= box[c][k].run
        BY <3>2 DEF ProgressInv, BoxesInOrder
      <4> QED
        BY <1>1, <1>2, <2>1, <3>1, <3>2, <4>1, <4>2
    <3>3. CASE k = Len(box[c]) + 1
      <4>1. \A j \in DOMAIN box'[c] : j < k => j \in DOMAIN box[c]
        BY <3>1, <3>3
      <4> QED
        BY <1>1, <1>2, <1>3, <2>1, <3>1, <3>3, <4>1
    <3> QED
      BY <3>1, <3>2, <3>3
  <2> QED
    BY <1>4, <2>2, <2>3
<1> QED
  BY <1>1, <1>2, <1>6, <1>7 DEF ProgressInv, ListenersHold, PostedInOrder, EndsOnTheirWay

LEMMA ReportKeeps == ASSUME ProgressInv, NEW kind \in {"going", "end"}, Report(kind) PROVE ProgressInv'
<1>1. /\ thread = "working" /\ status' = kind /\ event' = Event(kind) /\ next' = 1
      /\ UNCHANGED <<stream, since, listeners, box, posted, runs, missed>>
      /\ thread' \in {"working", "walking", "ended"}
      /\ kind = "end" /\ listeners # << >> => thread' = "walking"
  BY DEF Report, Throttled
<1>2. event' \in Events /\ event'.run = runs /\ event'.kind = kind
  BY <1>1 DEF ProgressInv, ProgressTypes, Event, Events
<1>3. ProgressTypes'
  BY <1>1, <1>2 DEF ProgressInv, ProgressTypes
<1>4. PostedInOrder'
  BY <1>1, <1>2 DEF ProgressInv, PostedInOrder
<1>5. EndsOnTheirWay'
  <2> SUFFICES ASSUME kind = "end", NEW c \in Clients, stream[c] = "reading" PROVE HearsEnd(c)'
    BY <1>1 DEF EndsOnTheirWay
  <2>1. PICK k \in DOMAIN listeners : listeners[k] = c
    BY DEF ProgressInv, ListenersHold
  <2>2. listeners # << >> /\ k >= 1
    BY <2>1 DEF ProgressInv, ProgressTypes
  <2> QED
    BY <1>1, <1>2, <2>1, <2>2 DEF HearsEnd
<1> QED
  BY <1>1, <1>3, <1>4, <1>5 DEF ProgressInv, ListenersHold, BoxesInOrder

(* Something is posted: an event of the walk, or the thread's end.          *)
LEMMA Posted ==
    ASSUME ProgressInv, NEW p \in Posts, posted' = Append(posted, p), thread \in {"walking", "ended"},
           IF p = TheEnd THEN thread' = "posted" ELSE thread' = thread /\ p.event.run = runs,
           UNCHANGED <<runs, event>>
    PROVE  /\ posted' \in Seq(Posts) /\ PostedInOrder'
           /\ \A k \in DOMAIN posted : k \in DOMAIN posted' /\ posted'[k] = posted[k]
           /\ Len(posted) + 1 \in DOMAIN posted' /\ posted'[Len(posted) + 1] = p
<1>1. /\ posted' \in Seq(Posts) /\ Len(posted') = Len(posted) + 1 /\ Len(posted) \in Nat
      /\ DOMAIN posted = 1..Len(posted) /\ DOMAIN posted' = 1..Len(posted) + 1
      /\ \A k \in DOMAIN posted : posted'[k] = posted[k] /\ posted[k] \in Posts
      /\ posted'[Len(posted) + 1] = p
  BY OneMore DEF ProgressInv, ProgressTypes
<1>2. \A k \in DOMAIN posted : posted[k] # TheEnd /\ posted[k].event.run = runs
  BY DEF ProgressInv, PostedInOrder
<1>3. posted' # << >>
  BY <1>1
<1>4. PostedInOrder'
  <2>1. \A k \in DOMAIN posted' : IF posted'[k] = TheEnd THEN k = Len(posted') /\ thread' = "posted"
                                  ELSE posted'[k].event.run = runs'
    BY <1>1, <1>2
  <2>2. thread' # "none" /\ (thread' = "posted" => p = TheEnd)
    OBVIOUS
  <2>3. thread' = "walking" => event'.run = runs'
    BY DEF ProgressInv, PostedInOrder
  <2> QED
    BY <1>1, <1>3, <2>1, <2>2, <2>3 DEF PostedInOrder
<1> QED
  BY <1>1, <1>4

LEMMA WalkKeeps == ASSUME ProgressInv, Walk PROVE ProgressInv'
<1>1. /\ thread = "walking" /\ UNCHANGED <<stream, since, listeners, box, status, runs, event, steps, missed>>
  BY DEF Walk
<1>2. CASE next <= Len(listeners)
  <2>1. /\ posted' = Append(posted, [to |-> listeners[next], event |-> event])
        /\ next' = next + 1 /\ thread' = thread
    BY <1>2 DEF Walk
  <2>2. next \in DOMAIN listeners /\ listeners[next] \in Clients /\ next \in Nat \ {0} /\ event \in Events
    BY <1>2 DEF ProgressInv, ProgressTypes
  <2>3. PICK p \in Posts : p = [to |-> listeners[next], event |-> event]
    BY <2>2 DEF Posts
  <2>4. p.to = listeners[next] /\ p.event = event /\ p # TheEnd /\ p.event.run = runs
    <3>1. p.to = listeners[next] /\ p.event = event
      BY <2>3
    <3>2. event.run = runs
      BY <1>1 DEF ProgressInv, PostedInOrder
    <3> QED
      BY <2>2, <3>1, <3>2, PostFacts
  <2>5. /\ posted' \in Seq(Posts) /\ PostedInOrder'
        /\ \A k \in DOMAIN posted : k \in DOMAIN posted' /\ posted'[k] = posted[k]
        /\ Len(posted) + 1 \in DOMAIN posted' /\ posted'[Len(posted) + 1] = p
    BY <1>1, <2>1, <2>3, <2>4, Posted
  <2>6. ProgressTypes'
    BY <1>1, <2>1, <2>2, <2>5 DEF ProgressInv, ProgressTypes
  <2>7. EndsOnTheirWay'
    <3> SUFFICES ASSUME NEW c \in Clients, HearsEnd(c) PROVE HearsEnd(c)'
      BY <1>1 DEF ProgressInv, EndsOnTheirWay
    <3>1. CASE \E k \in DOMAIN box[c] : box[c][k].kind = "end"
      BY <1>1, <3>1 DEF HearsEnd
    <3>2. CASE \E k \in DOMAIN posted : posted[k].to = c /\ posted[k].event.kind = "end"
      BY <2>5, <3>2 DEF HearsEnd
    <3>3. CASE event.kind = "end" /\ \E k \in DOMAIN listeners : k >= next /\ listeners[k] = c
      <4>1. PICK k \in DOMAIN listeners : k >= next /\ listeners[k] = c
        BY <3>3
      <4>2. CASE k = next
        BY <2>4, <2>5, <3>3, <4>1, <4>2 DEF HearsEnd
      <4>3. CASE k # next
        <5>1. k >= next + 1
          BY <2>2, <4>1, <4>3 DEF ProgressInv, ProgressTypes
        <5> QED
          BY <1>1, <2>1, <3>3, <4>1, <5>1 DEF HearsEnd
      <4> QED
        BY <4>2, <4>3
    <3> QED
      BY <3>1, <3>2, <3>3 DEF HearsEnd
  <2> QED
    BY <1>1, <2>5, <2>6, <2>7 DEF ProgressInv, ListenersHold, BoxesInOrder
<1>3. CASE ~(next <= Len(listeners))
  <2>1. /\ thread' = IF event.kind = "end" THEN "ended" ELSE "working"
        /\ UNCHANGED <<posted, next>>
    BY <1>3 DEF Walk
  <2>2. \A k \in DOMAIN listeners : ~(k >= next)
    BY <1>3 DEF ProgressInv, ProgressTypes
  <2>3. ProgressTypes' /\ PostedInOrder'
    BY <1>1, <2>1 DEF ProgressInv, ProgressTypes, PostedInOrder
  <2>4. EndsOnTheirWay'
    BY <1>1, <2>1, <2>2 DEF ProgressInv, EndsOnTheirWay, HearsEnd
  <2> QED
    BY <1>1, <2>3, <2>4 DEF ProgressInv, ListenersHold, BoxesInOrder
<1> QED
  BY <1>2, <1>3

LEMMA EndThreadKeeps == ASSUME ProgressInv, EndThread PROVE ProgressInv'
<1>1. /\ thread = "ended" /\ thread' = "posted" /\ posted' = Append(posted, TheEnd)
      /\ UNCHANGED <<stream, since, listeners, box, status, runs, next, event, steps, missed>>
  BY DEF EndThread
<1>2. TheEnd \in Posts
  BY DEF Posts
<1>3. /\ posted' \in Seq(Posts) /\ PostedInOrder'
      /\ \A k \in DOMAIN posted : k \in DOMAIN posted' /\ posted'[k] = posted[k]
  BY <1>1, <1>2, Posted
<1>4. ProgressTypes'
  BY <1>1, <1>3 DEF ProgressInv, ProgressTypes
<1>5. EndsOnTheirWay'
  BY <1>1, <1>3 DEF ProgressInv, EndsOnTheirWay, HearsEnd
<1> QED
  BY <1>1, <1>3, <1>4, <1>5 DEF ProgressInv, ListenersHold, BoxesInOrder

LEMMA DeliverKeeps == ASSUME ProgressInv, Deliver PROVE ProgressInv'
<1>1. /\ posted # << >> /\ posted' = Tail(posted) /\ posted \in Seq(Posts)
      /\ UNCHANGED <<stream, since, listeners, status, runs, next, event, steps>>
  BY DEF Deliver, ProgressInv, ProgressTypes
<1>2. /\ posted' \in Seq(Posts) /\ Len(posted) \in Nat \ {0} /\ Len(posted') = Len(posted) - 1
      /\ DOMAIN posted = 1..Len(posted) /\ DOMAIN posted' = 1..Len(posted) - 1
      /\ \A k \in DOMAIN posted' : posted'[k] = posted[k + 1] /\ k + 1 \in DOMAIN posted
      /\ Head(posted) = posted[1] /\ Head(posted) \in Posts /\ 1 \in DOMAIN posted
  BY <1>1, OneLess
<1>3. thread # "none"
  BY <1>1 DEF ProgressInv, PostedInOrder
<1>4. CASE Head(posted) = TheEnd
  <2>1. thread' = "none" /\ UNCHANGED <<box, missed>>
    BY <1>4 DEF Deliver
  <2>2. Len(posted) = 1 /\ thread = "posted"
    BY <1>2, <1>4 DEF ProgressInv, PostedInOrder
  <2>3. posted' = << >>
    BY <1>2, <2>2
  <2>4. ProgressTypes' /\ PostedInOrder'
    BY <1>1, <1>2, <2>1, <2>3 DEF ProgressInv, ProgressTypes, PostedInOrder
  <2>5. ASSUME NEW c \in Clients, HearsEnd(c) PROVE HearsEnd(c)'
    <3>1. \A k \in DOMAIN posted : posted[k].to # c
      BY <1>2, <1>4, <2>2, PostFacts
    <3> QED
      BY <2>1, <2>2, <2>5, <3>1 DEF HearsEnd
  <2>6. EndsOnTheirWay'
    BY <1>1, <2>1, <2>5 DEF ProgressInv, EndsOnTheirWay
  <2> QED
    BY <1>1, <2>1, <2>4, <2>6 DEF ProgressInv, ListenersHold, BoxesInOrder
<1>5. CASE Head(posted) # TheEnd
  <2> DEFINE p == Head(posted)
  <2>1. p.to \in Clients /\ p.event \in Events /\ p.event.run = runs
    BY <1>2, <1>5, PostFacts DEF ProgressInv, PostedInOrder
  <2>2. /\ thread' = thread
        /\ \/ box' = [box EXCEPT ![p.to] = Append(@, p.event)] /\ missed' = missed
           \/ box' = box /\ missed' = missed \cup {p.to}
    BY <1>5 DEF Deliver
  <2>3. PostedInOrder'
    <3>1. ASSUME NEW k \in DOMAIN posted'
          PROVE IF posted'[k] = TheEnd THEN k = Len(posted') /\ thread' = "posted" ELSE posted'[k].event.run = runs'
      <4>1. /\ k + 1 \in DOMAIN posted /\ posted'[k] = posted[k + 1]
            /\ IF posted[k + 1] = TheEnd THEN k + 1 = Len(posted) /\ thread = "posted" ELSE posted[k + 1].event.run = runs
        BY <1>2, <3>1 DEF ProgressInv, PostedInOrder
      <4> QED
        BY <1>1, <1>2, <2>2, <4>1
    <3>2. ASSUME thread' = "posted" PROVE posted' # << >> /\ posted'[Len(posted')] = TheEnd
      <4>1. posted[Len(posted)] = TheEnd
        BY <2>2, <3>2 DEF ProgressInv, PostedInOrder
      <4>2. Len(posted) # 1
        BY <1>2, <1>5, <4>1
      <4>3. Len(posted') \in DOMAIN posted' /\ Len(posted') + 1 = Len(posted)
        BY <1>2, <4>2
      <4> QED
        BY <1>2, <4>1, <4>3
    <3>3. thread' = "walking" => event'.run = runs'
      BY <1>1, <2>2 DEF ProgressInv, PostedInOrder
    <3> QED
      BY <1>3, <2>2, <3>1, <3>2, <3>3 DEF PostedInOrder
  <2>4. /\ box \in [Clients -> Seq(Events)] /\ runs \in Nat
        /\ \A c \in Clients : \A k \in DOMAIN box[c] : box[c][k] \in Events /\ box[c][k].run \in Nat /\ box[c][k].run <= runs
    BY PostFacts DEF ProgressInv, ProgressTypes, BoxesInOrder
  <2>5. PICK e \in Events : e = p.event /\ e.run = runs
    BY <2>1
  <2>6. ASSUME NEW c \in Clients
        PROVE  /\ box'[c] \in Seq(Events)
               /\ \A k \in DOMAIN box[c] : k \in DOMAIN box'[c] /\ box'[c][k] = box[c][k]
               /\ \A k \in DOMAIN box'[c] : k \in DOMAIN box[c] \/ (box'[c][k] = e /\ \A j \in DOMAIN box'[c] : j <= k)
               /\ c = p.to /\ c \notin missed' => \E k \in DOMAIN box'[c] : box'[c][k] = e
    <3>1. CASE box' = box /\ missed' = missed \cup {p.to}
      BY <2>4, <3>1
    <3>2. CASE box' = [box EXCEPT ![p.to] = Append(@, p.event)] /\ c # p.to
      BY <2>4, <3>2
    <3>3. CASE box' = [box EXCEPT ![p.to] = Append(@, p.event)] /\ c = p.to
      <4>1. PICK s \in Seq(Events) : s = box[c] /\ box'[c] = Append(s, e)
        BY <2>4, <2>5, <3>3
      <4>2. PICK t \in Seq(Events) : t = box'[c] /\ t = Append(s, e)
        BY <4>1, OneMore
      <4>3. /\ Len(s) \in Nat /\ DOMAIN s = 1..Len(s) /\ DOMAIN t = 1..Len(s) + 1
            /\ \A k \in DOMAIN s : t[k] = s[k]
            /\ t[Len(s) + 1] = e
        BY <4>2, OneMore
      <4>4. \A k \in DOMAIN t : k \in DOMAIN s \/ (t[k] = e /\ \A j \in DOMAIN t : j <= k)
        BY <4>3
      <4>5. Len(s) + 1 \in DOMAIN t
        BY <4>3
      <4> QED
        BY <4>1, <4>2, <4>3, <4>4, <4>5
    <3> QED
      BY <2>2, <3>1, <3>2, <3>3
  <2>7. ProgressTypes'
    <3>1. box' \in [Clients -> Seq(Events)]
      <4>1. \E g : box' = [c \in Clients |-> g[c]]
        <5>1. CASE box' = box
          BY <2>4, <5>1
        <5>2. CASE box' = [box EXCEPT ![p.to] = Append(@, p.event)]
          <6>1. box' = [c \in Clients |-> box'[c]]
            BY <2>4, <5>2
          <6> QED
            BY <6>1
        <5> QED
          BY <2>2, <5>1, <5>2
      <4> QED
        BY <2>6, <4>1
    <3>2. missed' \subseteq Clients
      BY <2>1, <2>2 DEF ProgressInv, ProgressTypes
    <3> QED
      BY <1>1, <1>2, <2>2, <3>1, <3>2 DEF ProgressInv, ProgressTypes
  <2>8. BoxesInOrder'
    <3> SUFFICES ASSUME NEW c \in Clients, NEW k \in DOMAIN box'[c]
                 PROVE  /\ box'[c][k].run <= runs'
                        /\ \A j \in DOMAIN box'[c] : j < k => box'[c][j].run <= box'[c][k].run
      BY DEF BoxesInOrder
    <3>1. \A j \in DOMAIN box'[c] : box'[c][j].run \in Nat /\ box'[c][j].run <= runs
      BY <2>4, <2>5, <2>6
    <3>2. CASE k \in DOMAIN box[c]
      <4>1. ASSUME NEW j \in DOMAIN box'[c], j < k PROVE j \in DOMAIN box[c]
        <5>1. k \in DOMAIN box'[c] /\ DOMAIN box'[c] \subseteq Nat
          BY <2>6, <3>2
        <5> QED
          BY <2>6, <4>1, <5>1
      <4>2. \A j \in DOMAIN box[c] : j < k => box[c][j].run <= box[c][k].run
        BY <3>2 DEF ProgressInv, BoxesInOrder
      <4> QED
        BY <1>1, <2>6, <3>1, <3>2, <4>1, <4>2
    <3>3. CASE k \notin DOMAIN box[c]
      <4>1. box'[c][k] = e
        BY <2>6, <3>3
      <4> QED
        BY <1>1, <2>5, <3>1, <4>1
    <3> QED
      BY <3>2, <3>3
  <2>9. EndsOnTheirWay'
    <3> SUFFICES ASSUME NEW c \in Clients, HearsEnd(c), c \notin missed' PROVE HearsEnd(c)'
      BY <1>1, <2>2 DEF ProgressInv, EndsOnTheirWay
    <3>1. CASE \E k \in DOMAIN box[c] : box[c][k].kind = "end"
      BY <2>6, <3>1 DEF HearsEnd
    <3>2. CASE \E k \in DOMAIN posted : posted[k].to = c /\ posted[k].event.kind = "end"
      <4>1. PICK k \in DOMAIN posted : posted[k].to = c /\ posted[k].event.kind = "end"
        BY <3>2
      <4>2. CASE k = 1
        <5>1. c = p.to /\ e.kind = "end"
          BY <1>2, <2>5, <4>1, <4>2
        <5> QED
          BY <2>6, <5>1 DEF HearsEnd
      <4>3. CASE k # 1
        <5>1. k - 1 \in DOMAIN posted' /\ posted'[k - 1] = posted[k]
          BY <1>2, <4>3
        <5> QED
          BY <4>1, <5>1 DEF HearsEnd
      <4> QED
        BY <4>2, <4>3
    <3>3. CASE thread = "walking" /\ event.kind = "end" /\ \E k \in DOMAIN listeners : k >= next /\ listeners[k] = c
      BY <1>1, <2>2, <3>3 DEF HearsEnd
    <3> QED
      BY <3>1, <3>2, <3>3 DEF HearsEnd
  <2> QED
    BY <1>1, <2>3, <2>7, <2>8, <2>9 DEF ProgressInv, ListenersHold
<1> QED
  BY <1>4, <1>5

LEMMA SubscribeKeeps == ASSUME ProgressInv, NEW d \in Clients, Subscribe(d) PROVE ProgressInv'
<1>1. /\ stream[d] = "new" /\ stream' = [stream EXCEPT ![d] = "reading"]
      /\ since' = [since EXCEPT ![d] = IF status = "end" THEN runs + 1 ELSE runs]
      /\ listeners' = Append(listeners, d)
      /\ UNCHANGED <<box, posted, status, runs, thread, next, event, steps, missed>>
  BY DEF Subscribe, threadVars
<1>2. /\ listeners' \in Seq(Clients) /\ Len(listeners) \in Nat
      /\ DOMAIN listeners = 1..Len(listeners) /\ DOMAIN listeners' = 1..Len(listeners) + 1
      /\ \A k \in DOMAIN listeners : listeners'[k] = listeners[k] /\ listeners[k] \in Clients
      /\ listeners'[Len(listeners) + 1] = d
  BY <1>1, OneMore DEF ProgressInv, ProgressTypes
<1>3. runs \in Nat /\ stream \in [Clients -> {"new", "reading", "gone"}] /\ since \in [Clients -> Nat]
  BY DEF ProgressInv, ProgressTypes
<1>4. \A k \in DOMAIN listeners : listeners[k] # d
  BY <1>1 DEF ProgressInv, ListenersHold
<1>5. ListenersHold'
  <2>1. \A j, k \in DOMAIN listeners' : listeners'[j] = listeners'[k] => j = k
    BY <1>2, <1>4 DEF ProgressInv, ListenersHold
  <2>2. ASSUME NEW c \in Clients PROVE stream'[c] = "reading" <=> \E k \in DOMAIN listeners' : listeners'[k] = c
    <3>1. CASE c = d
      <4>1. stream'[c] = "reading" /\ Len(listeners) + 1 \in DOMAIN listeners'
        BY <1>1, <1>2, <1>3, <3>1
      <4> QED
        BY <1>2, <3>1, <4>1
    <3>2. CASE c # d
      <4>1. stream'[c] = stream[c]
        BY <1>1, <1>3, <3>2
      <4>2. \A k \in DOMAIN listeners' : k \in DOMAIN listeners \/ listeners'[k] = d
        BY <1>2
      <4>3. \A k \in DOMAIN listeners : k \in DOMAIN listeners'
        BY <1>2
      <4>4. stream[c] = "reading" <=> \E k \in DOMAIN listeners : listeners[k] = c
        BY DEF ProgressInv, ListenersHold
      <4> QED
        BY <1>2, <3>2, <4>1, <4>2, <4>3, <4>4
    <3> QED
      BY <3>1, <3>2
  <2> QED
    BY <2>1, <2>2 DEF ListenersHold
<1>6. ProgressTypes'
  BY <1>1, <1>2, <1>3 DEF ProgressInv, ProgressTypes
<1>7. EndsOnTheirWay'
  <2> SUFFICES ASSUME status = "end", NEW c \in Clients, stream'[c] = "reading", c \notin missed, since'[c] <= runs
               PROVE  HearsEnd(c)'
    BY <1>1 DEF EndsOnTheirWay
  <2>1. c # d
    BY <1>1, <1>3
  <2>2. HearsEnd(c)
    BY <1>1, <1>3, <2>1 DEF ProgressInv, EndsOnTheirWay
  <2>3. \A k \in DOMAIN listeners : k \in DOMAIN listeners'
    BY <1>2
  <2> QED
    BY <1>1, <1>2, <2>2, <2>3 DEF HearsEnd
<1> QED
  BY <1>1, <1>5, <1>6, <1>7 DEF ProgressInv, BoxesInOrder, PostedInOrder

(* A client leaves: its queue goes, and what stood behind it moves up.      *)
LEMMA LeaveKeeps ==
    ASSUME ProgressInv, NEW d \in Clients, stream[d] = "reading", Unsubscribe(d),
           UNCHANGED <<since, posted, status, runs, threadVars>>,
           \A c \in Clients : c # d => box'[c] = box[c]
    PROVE  /\ stream' \in [Clients -> {"new", "reading", "gone"}] /\ listeners' \in Seq(Clients)
           /\ missed' \subseteq Clients /\ ListenersHold' /\ EndsOnTheirWay'
<1>1. PICK at \in DOMAIN listeners :
        /\ listeners[at] = d
        /\ stream' = [stream EXCEPT ![d] = "gone"] /\ listeners' = RemoveAt(listeners, at)
        /\ missed' = missed \cup {k \in ToSet(listeners) :
                         thread = "walking" /\ at < next /\ next <= Len(listeners) /\ listeners[next] = k}
  <2>1. \E k \in DOMAIN listeners : listeners[k] = d
    BY DEF ProgressInv, ListenersHold
  <2>2. PICK at : at = CHOOSE k \in DOMAIN listeners : listeners[k] = d
    OBVIOUS
  <2>3. at \in DOMAIN listeners /\ listeners[at] = d
    BY <2>1, <2>2
  <2> QED
    BY <2>2, <2>3 DEF Unsubscribe
<1>2. /\ stream \in [Clients -> {"new", "reading", "gone"}] /\ listeners \in Seq(Clients)
      /\ missed \subseteq Clients /\ next \in Nat \ {0}
  BY DEF ProgressInv, ProgressTypes
<1>3. PICK t \in Seq(Clients) :
        /\ t = listeners' /\ Len(listeners) \in Nat /\ DOMAIN listeners = 1..Len(listeners)
        /\ DOMAIN t = 1..Len(listeners) - 1
        /\ \A k \in 1..Len(listeners) - 1 : t[k] = IF k < at THEN listeners[k] ELSE listeners[k + 1]
  BY <1>1, <1>2, OneOut
<1>4. at \in 1..Len(listeners)
  BY <1>1, <1>3
<1>5. \A j, k \in DOMAIN listeners : listeners[j] = listeners[k] => j = k
  BY DEF ProgressInv, ListenersHold
<1>6. \A k \in DOMAIN t : \E i \in DOMAIN listeners : i # at /\ t[k] = listeners[i] /\ i = IF k < at THEN k ELSE k + 1
  <2> TAKE k \in DOMAIN t
  <2>1. CASE k < at
    <3>1. k \in DOMAIN listeners /\ k # at /\ t[k] = listeners[k]
      BY <1>3, <1>4, <2>1
    <3> QED
      BY <2>1, <3>1
  <2>2. CASE ~(k < at)
    <3>1. k + 1 \in DOMAIN listeners /\ k + 1 # at /\ t[k] = listeners[k + 1]
      BY <1>3, <1>4, <2>2
    <3> QED
      BY <2>2, <3>1
  <2> QED
    BY <2>1, <2>2
<1>7. \A i \in DOMAIN listeners : i # at =>
        \E k \in DOMAIN t : t[k] = listeners[i] /\ k = IF i < at THEN i ELSE i - 1
  <2> SUFFICES ASSUME NEW i \in DOMAIN listeners, i # at
               PROVE  \E k \in DOMAIN t : t[k] = listeners[i] /\ k = IF i < at THEN i ELSE i - 1
    OBVIOUS
  <2>1. CASE i < at
    <3>1. i \in DOMAIN t /\ t[i] = listeners[i]
      BY <1>3, <1>4, <2>1
    <3> QED
      BY <2>1, <3>1
  <2>2. CASE ~(i < at)
    <3>1. i - 1 \in 1..Len(listeners) - 1 /\ ~(i - 1 < at) /\ (i - 1) + 1 = i
      BY <1>3, <1>4, <2>2
    <3>2. i - 1 \in DOMAIN t /\ t[i - 1] = listeners[i]
      BY <1>3, <3>1
    <3> QED
      BY <2>2, <3>2
  <2> QED
    BY <2>1, <2>2
<1>8. ListenersHold'
  <2>1. ASSUME NEW j \in DOMAIN t, NEW k \in DOMAIN t, t[j] = t[k] PROVE j = k
    <3>1. PICK i \in DOMAIN listeners : i # at /\ t[j] = listeners[i] /\ i = IF j < at THEN j ELSE j + 1
      BY <1>6
    <3>2. PICK h \in DOMAIN listeners : h # at /\ t[k] = listeners[h] /\ h = IF k < at THEN k ELSE k + 1
      BY <1>6
    <3>3. i = h
      BY <1>5, <2>1, <3>1, <3>2
    <3> QED
      BY <1>3, <1>4, <3>1, <3>2, <3>3
  <2>2. ASSUME NEW c \in Clients PROVE stream'[c] = "reading" <=> \E k \in DOMAIN t : t[k] = c
    <3>1. CASE c = d
      <4>1. stream'[c] = "gone"
        BY <1>1, <1>2, <3>1
      <4>2. \A k \in DOMAIN t : t[k] # d
        BY <1>1, <1>5, <1>6
      <4> QED
        BY <3>1, <4>1, <4>2
    <3>2. CASE c # d
      <4>1. stream'[c] = stream[c]
        BY <1>1, <1>2, <3>2
      <4>2. stream[c] = "reading" <=> \E k \in DOMAIN listeners : listeners[k] = c
        BY DEF ProgressInv, ListenersHold
      <4>3. ASSUME NEW i \in DOMAIN listeners, listeners[i] = c PROVE \E k \in DOMAIN t : t[k] = c
        BY <1>1, <1>7, <3>2, <4>3
      <4>4. ASSUME NEW k \in DOMAIN t, t[k] = c PROVE \E i \in DOMAIN listeners : listeners[i] = c
        BY <1>6, <4>4
      <4> QED
        BY <4>1, <4>2, <4>3, <4>4
    <3> QED
      BY <3>1, <3>2
  <2> QED
    BY <1>3, <2>1, <2>2 DEF ListenersHold
<1>9. stream' \in [Clients -> {"new", "reading", "gone"}] /\ missed' \subseteq Clients
  <2>1. ToSet(listeners) \subseteq Clients
    BY <1>2 DEF ToSet
  <2> QED
    BY <1>1, <1>2, <2>1
<1>10. EndsOnTheirWay'
  <2> SUFFICES ASSUME NEW c \in Clients, stream'[c] = "reading", c \notin missed', HearsEnd(c) PROVE HearsEnd(c)'
    <3>1. \A c \in Clients : stream'[c] = "reading" /\ c \notin missed' => stream[c] = "reading" /\ c \notin missed
      BY <1>1, <1>2
    <3> QED
      BY <3>1 DEF ProgressInv, EndsOnTheirWay
  <2>1. c # d
    BY <1>1, <1>2
  <2>2. CASE \E k \in DOMAIN box[c] : box[c][k].kind = "end"
    BY <2>1, <2>2 DEF HearsEnd
  <2>3. CASE \E k \in DOMAIN posted : posted[k].to = c /\ posted[k].event.kind = "end"
    BY <2>3 DEF HearsEnd
  <2>4. CASE /\ thread = "walking" /\ event.kind = "end"
             /\ \E k \in DOMAIN listeners : k >= next /\ listeners[k] = c
    <3>1. PICK i \in DOMAIN listeners : i >= next /\ listeners[i] = c
      BY <2>4
    <3>2. i # at
      BY <1>1, <2>1, <3>1
    <3>3. PICK k \in DOMAIN t : t[k] = c /\ k = IF i < at THEN i ELSE i - 1
      BY <1>7, <3>1, <3>2
    <3>4. k >= next
      <4>1. CASE i < at
        BY <3>1, <3>3, <4>1
      <4>2. CASE at < i /\ i # next
        BY <1>2, <1>3, <1>4, <3>1, <3>3, <4>2
      <4>3. CASE at < i /\ i = next
        <5>1. at < next /\ next <= Len(listeners) /\ listeners[next] = c /\ c \in ToSet(listeners)
          BY <1>3, <3>1, <4>3 DEF ToSet
        <5> QED
          BY <1>1, <2>4, <5>1
      <4> QED
        BY <1>3, <1>4, <3>2, <4>1, <4>2, <4>3
    <3> QED
      BY <1>3, <2>4, <3>3, <3>4 DEF HearsEnd, threadVars
  <2> QED
    BY <2>2, <2>3, <2>4 DEF HearsEnd
<1> QED
  BY <1>3, <1>8, <1>9, <1>10

LEMMA DisconnectKeeps == ASSUME ProgressInv, NEW d \in Clients, Disconnect(d) PROVE ProgressInv'
<1>1. stream[d] = "reading" /\ Unsubscribe(d) /\ UNCHANGED <<since, box, posted, status, runs, threadVars>>
  BY DEF Disconnect
<1>2. /\ stream' \in [Clients -> {"new", "reading", "gone"}] /\ listeners' \in Seq(Clients)
      /\ missed' \subseteq Clients /\ ListenersHold' /\ EndsOnTheirWay'
  BY <1>1, LeaveKeeps
<1>3. ProgressTypes' /\ BoxesInOrder' /\ PostedInOrder'
  BY <1>1, <1>2 DEF threadVars, ProgressInv, ProgressTypes, BoxesInOrder, PostedInOrder
<1> QED
  BY <1>2, <1>3 DEF ProgressInv

LEMMA ReadKeeps == ASSUME ProgressInv, NEW d \in Clients, ReadEvent(d) PROVE ProgressInv'
<1>1. /\ stream[d] = "reading" /\ box[d] # << >> /\ box' = [box EXCEPT ![d] = Tail(@)]
      /\ IF Head(box[d]).kind = "end" THEN Unsubscribe(d) ELSE UNCHANGED <<stream, listeners, missed>>
      /\ UNCHANGED <<since, posted, status, runs, threadVars>>
  BY DEF ReadEvent
<1>2. box \in [Clients -> Seq(Events)] /\ runs \in Nat
  BY DEF ProgressInv, ProgressTypes
<1>3. PICK s \in Seq(Events) : s = box[d] /\ s # << >> /\ box'[d] = Tail(s)
  BY <1>1, <1>2
<1>4. PICK t \in Seq(Events) : t = box'[d] /\ t = Tail(s)
  BY <1>3, OneLess
<1>5. /\ Len(s) \in Nat \ {0} /\ DOMAIN s = 1..Len(s) /\ DOMAIN t = 1..Len(s) - 1
      /\ \A k \in DOMAIN t : t[k] = s[k + 1] /\ k + 1 \in DOMAIN s
      /\ Head(s) = s[1]
  BY <1>3, <1>4, OneLess
<1>6. \A c \in Clients : c # d => box'[c] = box[c]
  BY <1>1, <1>2
<1>7. BoxesInOrder'
  <2> SUFFICES ASSUME NEW c \in Clients, NEW k \in DOMAIN box'[c]
               PROVE  /\ box'[c][k].run <= runs'
                      /\ \A j \in DOMAIN box'[c] : j < k => box'[c][j].run <= box'[c][k].run
    BY DEF BoxesInOrder
  <2>1. CASE c # d
    BY <1>1, <1>6, <2>1 DEF ProgressInv, BoxesInOrder
  <2>2. CASE c = d
    <3>1. k \in DOMAIN t /\ t[k] = s[k + 1] /\ k + 1 \in DOMAIN s
      BY <1>4, <1>5, <2>2
    <3>2. s[k + 1].run <= runs /\ \A j \in DOMAIN s : j < k + 1 => s[j].run <= s[k + 1].run
      BY <1>3, <3>1 DEF ProgressInv, BoxesInOrder
    <3>3. ASSUME NEW j \in DOMAIN t, j < k PROVE t[j].run <= t[k].run
      <4>1. j + 1 \in DOMAIN s /\ j + 1 < k + 1 /\ t[j] = s[j + 1]
        BY <1>5, <3>1, <3>3
      <4> QED
        BY <3>1, <3>2, <4>1
    <3> QED
      BY <1>1, <1>4, <2>2, <3>1, <3>2, <3>3
  <2> QED
    BY <2>1, <2>2
<1>8. PostedInOrder'
  BY <1>1 DEF threadVars, ProgressInv, PostedInOrder
<1>9. box' \in [Clients -> Seq(Events)]
  <2>1. box' = [c \in Clients |-> box'[c]]
    BY <1>1, <1>2
  <2>2. \A c \in Clients : box'[c] \in Seq(Events)
    BY <1>2, <1>4, <1>6
  <2> QED
    BY <2>1, <2>2
<1>10. CASE Head(box[d]).kind = "end"
  <2>1. /\ stream' \in [Clients -> {"new", "reading", "gone"}] /\ listeners' \in Seq(Clients)
        /\ missed' \subseteq Clients /\ ListenersHold' /\ EndsOnTheirWay'
    BY <1>1, <1>6, <1>10, LeaveKeeps
  <2>2. ProgressTypes'
    BY <1>1, <1>9, <2>1 DEF threadVars, ProgressInv, ProgressTypes
  <2> QED
    BY <1>7, <1>8, <2>1, <2>2 DEF ProgressInv
<1>11. CASE Head(box[d]).kind # "end"
  <2>1. UNCHANGED <<stream, listeners, missed>>
    BY <1>1, <1>11
  <2>2. ProgressTypes' /\ ListenersHold'
    BY <1>1, <1>9, <2>1 DEF threadVars, ProgressInv, ProgressTypes, ListenersHold
  <2>3. EndsOnTheirWay'
    <3> SUFFICES ASSUME NEW c \in Clients, HearsEnd(c) PROVE HearsEnd(c)'
      BY <1>1, <2>1 DEF ProgressInv, EndsOnTheirWay
    <3>1. CASE \E k \in DOMAIN box[c] : box[c][k].kind = "end"
      <4>1. PICK k \in DOMAIN box[c] : box[c][k].kind = "end"
        BY <3>1
      <4>2. CASE c # d
        BY <1>6, <4>1, <4>2 DEF HearsEnd
      <4>3. CASE c = d
        <5>1. k \in DOMAIN s /\ k # 1 /\ s[k].kind = "end"
          BY <1>3, <1>5, <1>11, <4>1, <4>3
        <5>2. k - 1 \in DOMAIN t /\ t[k - 1] = s[k]
          BY <1>5, <5>1
        <5> QED
          BY <1>4, <4>3, <5>1, <5>2 DEF HearsEnd
      <4> QED
        BY <4>2, <4>3
    <3>2. CASE \/ \E k \in DOMAIN posted : posted[k].to = c /\ posted[k].event.kind = "end"
               \/ /\ thread = "walking" /\ event.kind = "end"
                  /\ \E k \in DOMAIN listeners : k >= next /\ listeners[k] = c
      BY <1>1, <2>1, <3>2 DEF HearsEnd, threadVars
    <3> QED
      BY <3>1, <3>2 DEF HearsEnd
  <2> QED
    BY <1>7, <1>8, <2>2, <2>3 DEF ProgressInv
<1> QED
  BY <1>10, <1>11

LEMMA ProgressStep == ASSUME ProgressInv, [ProgressStreamNext]_progressVars PROVE ProgressInv'
<1>1. CASE UNCHANGED progressVars
  BY <1>1 DEF progressVars, ProgressInv, ProgressTypes, ListenersHold, BoxesInOrder, PostedInOrder, EndsOnTheirWay, HearsEnd
<1>2. CASE Announce \/ Walk \/ EndThread \/ Deliver
  BY <1>2, AnnounceKeeps, WalkKeeps, EndThreadKeeps, DeliverKeeps
<1>3. ASSUME NEW kind \in {"going", "end"}, Report(kind) PROVE ProgressInv'
  BY <1>3, ReportKeeps
<1>4. ASSUME NEW d \in Clients, Subscribe(d) \/ ReadEvent(d) \/ Disconnect(d) PROVE ProgressInv'
  BY <1>4, SubscribeKeeps, ReadKeeps, DisconnectKeeps
<1> QED
  BY <1>1, <1>2, <1>3, <1>4 DEF ProgressStreamNext

(* Whoever subscribed before a download ended, and was not passed by, finds *)
(* its end before the next is announced, and hears nothing out of order,    *)
(* however many clients and downloads there are and wherever the thread's   *)
(* walk stands when a client comes, reads or goes (progress.py).            *)
THEOREM EndsAreHeard == ProgressStreamSpec => []EndIsHeard
<1>1. ASSUME ProgressInv PROVE EndIsHeard
  <2> SUFFICES ASSUME NEW c \in Clients, stream[c] = "reading", c \notin missed
               PROVE  /\ thread = "none" /\ status = "end" /\ since[c] <= runs =>
                             \E k \in DOMAIN box[c] : box[c][k].kind = "end"
                      /\ \A k \in DOMAIN box[c] :
                             /\ \A j \in DOMAIN box[c] : j < k => box[c][j].run <= box[c][k].run
                             /\ \A j \in DOMAIN posted : posted[j].to = c => box[c][k].run <= posted[j].event.run
                      /\ \A j, k \in DOMAIN posted :
                             j < k /\ posted[j].to = c /\ posted[k].to = c => posted[j].event.run <= posted[k].event.run
    BY DEF EndIsHeard
  <2>1. ASSUME thread = "none", status = "end", since[c] <= runs
        PROVE  \E k \in DOMAIN box[c] : box[c][k].kind = "end"
    <3>1. HearsEnd(c) /\ posted = << >>
      BY <1>1, <2>1 DEF ProgressInv, EndsOnTheirWay, PostedInOrder
    <3> QED
      BY <2>1, <3>1 DEF HearsEnd
  <2>2. \A k \in DOMAIN box[c] : /\ box[c][k].run <= runs
                                 /\ \A j \in DOMAIN box[c] : j < k => box[c][j].run <= box[c][k].run
    BY <1>1 DEF ProgressInv, BoxesInOrder
  <2>3. \A k \in DOMAIN posted : posted[k].to = c => posted[k].event.run = runs
    BY <1>1, PostFacts DEF ProgressInv, PostedInOrder
  <2>4. runs \in Nat
    BY <1>1 DEF ProgressInv, ProgressTypes
  <2> QED
    BY <2>1, <2>2, <2>3, <2>4
<1>2. ProgressStreamInit => ProgressInv
  BY ProgressInit
<1>3. ProgressInv /\ [ProgressStreamNext]_progressVars => ProgressInv'
  BY ProgressStep
<1> QED
  BY <1>1, <1>2, <1>3, PTL DEF ProgressStreamSpec

-----------------------------------------------------------------------------
(* The checkpoints of exact requests (exact_chunk_checkpoints.py).         *)

Ends == {"none", "deleted", "completed"}
Alive == {"queued", "generating", "failed"}
JobPlaces == {"load", "infer", "save", "replace", "fsync", "append", "publish", "sync", "complete", "collect"}

IsJob(w) ==
    /\ w = [at |-> w.at, of |-> w.of, chunk |-> w.chunk, held |-> w.held, sofar |-> w.sofar]
    /\ w.at \in JobPlaces /\ w.of \in Attempts
IsCheckpoint(f) == DOMAIN f = {"key", "kind", "audio", "intact", "durable", "tag"}

StoreTypes ==
    /\ row \in [Attempts -> Ends \cup Alive]
    /\ server \in {"up", "reconcile", "prune", "collect"}
    /\ work = Idle \/ IsJob(work)
    /\ IsFiniteSet(checkpoints) /\ \A f \in checkpoints : IsCheckpoint(f)

(* What is true of the job, wherever it is: its row says so until it is     *)
(* completed, and the file it writes is the only one of its name.           *)
JobHolds ==
    /\ server # "up" => work = Idle
    /\ work.at \notin {"idle", "collect"} => row[work.of] = "generating"
    /\ work.at \in {"save", "replace", "fsync", "collect"} => ~OneChunk
    /\ (work.at \in {"infer", "save", "replace"} /\ ~OneChunk) => Named(Here) = {}
    /\ work.at = "replace" => TempFile \in checkpoints
    /\ work.at = "fsync" => Replaced \in checkpoints

(* A request of one chunk has no files. *)
OnlyLong == \A f \in checkpoints : Len(Chunks(f.key.request)) # 1

StoreInv == StoreTypes /\ JobHolds /\ OnlyLong /\ StoreIsBounded

(* WorkIsKept, of one step. *)
FilesKept ==
    \A f \in checkpoints : (f.kind = "final" /\ f.intact /\ f.durable /\ f \notin checkpoints') =>
        ~Resumable(f.key.request)' \/ \E g \in checkpoints' : g.key = f.key /\ ~g.intact
NothingTwice == (work.at = "load" /\ work'.at = "infer" /\ ~OneChunk) => Intact(Here) = {}

LEMMA StoreInit == Init => StoreInv
<1> SUFFICES ASSUME Init PROVE StoreInv
  OBVIOUS
<1>1. Idle.at = "idle"
  BY DEF Idle
<1>2. StoreTypes /\ JobHolds /\ OnlyLong
  BY <1>1, FS_EmptySet DEF Init, StoreTypes, Ends, JobHolds, OnlyLong
<1>3. Cardinality(checkpoints) <= MaxFiles
  BY FS_EmptySet, AttemptsAssumption DEF Init
<1> QED
  BY <1>2, <1>3 DEF StoreInv, StoreIsBounded, Init

(* Who owns a request: a row of it that may be resumed. *)
LEMMA OwnedIs ==
    ASSUME NEW rows \in [Attempts -> Ends \cup Alive]
    PROVE  \A r : r \in Owned(rows) <=> \E a \in Attempts : RequestOf[a] = r /\ rows[a] \in Alive
BY DEF Owned, Ends, Alive

LEMMA ResumableIs ==
    \A r : Resumable(r) <=> \E a \in Attempts : RequestOf[a] = r /\ row[a] \in Alive
BY DEF Resumable, Alive

LEMMA ResumableNextIs ==
    \A r : Resumable(r)' <=> \E a \in Attempts : RequestOf[a] = r /\ row'[a] \in Alive
BY DEF Resumable, Alive

(* What happens to a file, in the terms of the quota and of its owners. *)
IsOwned(f) ==
    Resumable(f.key.request) \/ f.key.request \in uncollected \/ (JobIs("collect") /\ f.key.request = Request)
OwnersHold == server = "up" => \A f \in checkpoints : IsOwned(f)

LEMMA StoreIsBoundedIs == StoreIsBounded <=> Cardinality(checkpoints) <= MaxFiles /\ OwnersHold
BY DEF StoreIsBounded, OwnersHold, IsOwned

LEMMA FewerFiles ==
    ASSUME StoreInv, checkpoints' \subseteq checkpoints
    PROVE  /\ IsFiniteSet(checkpoints') /\ Cardinality(checkpoints') <= MaxFiles
           /\ \A f \in checkpoints' : IsCheckpoint(f)
           /\ OnlyLong'
<1>1. IsFiniteSet(checkpoints) /\ Cardinality(checkpoints) <= MaxFiles
  BY DEF StoreInv, StoreTypes, StoreIsBounded
<1>2. PICK S, T : S = checkpoints /\ T = checkpoints' /\ T \subseteq S
  OBVIOUS
<1>3. IsFiniteSet(T) /\ Cardinality(T) <= Cardinality(S) /\ Cardinality(T) \in Nat /\ Cardinality(S) \in Nat
  BY <1>1, <1>2, FS_Subset, FS_CardinalityType
<1>4. IsFiniteSet(checkpoints') /\ Cardinality(checkpoints') <= MaxFiles
  BY <1>1, <1>2, <1>3, AttemptsAssumption
<1>5. \A f \in checkpoints : IsCheckpoint(f) /\ Len(Chunks(f.key.request)) # 1
  BY DEF StoreInv, StoreTypes, OnlyLong
<1> QED
  BY <1>4, <1>5 DEF OnlyLong

(* The steps in which no file comes, and every row that could be resumed    *)
(* still can.                                                               *)
LEMMA OwnersStay ==
    ASSUME StoreInv, server = "up", checkpoints' \subseteq checkpoints,
           \A a \in Attempts : row[a] \in Alive => row'[a] \in Alive,
           uncollected \subseteq uncollected', ~JobIs("collect") \/ (server' = "up" /\ work' = work)
    PROVE  OwnersHold'
<1>1. \A f \in checkpoints : IsOwned(f)
  BY DEF StoreInv, StoreIsBounded, IsOwned
<1>2. \A r : Resumable(r) => Resumable(r)'
  BY ResumableIs, ResumableNextIs
<1>3. (JobIs("collect") => JobIs("collect")') /\ (JobIs("collect") => Request' = Request)
  BY DEF JobIs, Request
<1> QED
  BY <1>1, <1>2, <1>3 DEF OwnersHold, IsOwned

LEMMA JobFacts ==
    ASSUME StoreInv
    PROVE  /\ work = Idle \/ IsJob(work)
           /\ work.at \in JobPlaces \cup {"idle"}
           /\ work.at # "idle" => IsJob(work) /\ server = "up"
<1>1. Idle.at = "idle" /\ "idle" \notin JobPlaces
  BY DEF Idle, JobPlaces
<1> QED
  BY <1>1 DEF StoreInv, StoreTypes, JobHolds, IsJob

LEMMA FileNames ==
    /\ Here.request = Request
    /\ TempFile.key = Here /\ TempFile.kind = "temp" /\ ~TempFile.durable /\ IsCheckpoint(TempFile)
    /\ Replaced.key = Here /\ Replaced.kind = "final" /\ ~Replaced.durable /\ IsCheckpoint(Replaced)
BY DEF Here, Key, TempFile, Replaced, Entry, IsCheckpoint

(* The job stands still, and nobody takes the file it is about to name.     *)
LEMMA JobStays ==
    ASSUME StoreInv, UNCHANGED <<work, server, crashes>>,
           work.at \notin {"idle", "collect"} => row'[work.of] = "generating",
           \A f \in checkpoints' : f.kind = "final" => \E g \in checkpoints : g.kind = "final" /\ g.key = f.key,
           \A f \in checkpoints \ checkpoints' : work.at \in {"replace", "fsync"} => (f.key # Here \/ f.durable)
    PROVE  JobHolds'
<1>1. JobHolds
  BY DEF StoreInv
<1>2. Request' = Request /\ Here' = Here /\ OneChunk' = OneChunk /\ TempFile' = TempFile /\ Replaced' = Replaced
  BY DEF Request, Here, OneChunk, TempFile, Replaced, Entry
<1>3. Named(Here) = {} => Named(Here)' = {}
  BY <1>2 DEF Named
<1>4. work.at = "replace" => TempFile \in checkpoints'
  BY <1>1, FileNames DEF JobHolds
<1>5. work.at = "fsync" => Replaced \in checkpoints'
  BY <1>1, FileNames DEF JobHolds
<1> QED
  BY <1>1, <1>2, <1>3, <1>4, <1>5 DEF JobHolds

LEMMA StoreIsWhole ==
    ASSUME StoreTypes', JobHolds', OnlyLong', OwnersHold', Cardinality(checkpoints') <= MaxFiles
    PROVE  StoreInv'
BY DEF StoreInv, StoreIsBounded, OwnersHold, IsOwned

LEMMA JobStands == ASSUME work' = work PROVE NothingTwice
BY DEF NothingTwice

LEMMA QueueStep ==
    ASSUME StoreInv, NEW a \in Attempts, Submit(a) \/ CancelQueued(a)
    PROVE  StoreInv' /\ FilesKept /\ NothingTwice
<1>1. UNCHANGED <<checkpoints, work, server, crashes, uncollected>> /\ server = "up"
  BY DEF Submit, CancelQueued
<1>2. /\ row' \in [Attempts -> Ends \cup Alive]
      /\ \A b \in Attempts : (row[b] \in Alive => row'[b] \in Alive) /\ (row[b] = "generating" => row'[b] = "generating")
  BY DEF StoreInv, StoreTypes, Submit, CancelQueued, Ends, Alive
<1>3. work.at \notin {"idle", "collect"} => row'[work.of] = "generating"
  BY <1>2, JobFacts DEF StoreInv, JobHolds, IsJob
<1>4. JobHolds'
  BY <1>1, <1>3, JobStays
<1>5. StoreTypes'
  BY <1>1, <1>2 DEF StoreInv, StoreTypes
<1>6. OwnersHold'
  BY <1>1, <1>2, OwnersStay
<1>7. OnlyLong' /\ Cardinality(checkpoints') <= MaxFiles
  BY <1>1, FewerFiles
<1>8. FilesKept
  BY <1>1 DEF FilesKept
<1> QED
  BY <1>1, <1>4, <1>5, <1>6, <1>7, <1>8, JobStands, StoreIsWhole

(* What a collection leaves: everything that has an owner, and what it was  *)
(* prevented from taking.                                                   *)
LEMMA CollectKeeps ==
    ASSUME StoreInv, NEW candidates, row' \in [Attempts -> Ends \cup Alive], Collect(candidates, row')
    PROVE  /\ checkpoints' \subseteq checkpoints
           /\ \A f \in checkpoints \ checkpoints' : ~Resumable(f.key.request)'
           /\ \A f \in checkpoints' : (f.key.request \in candidates \cup uncollected) =>
                  Resumable(f.key.request)' \/ f.key.request \in uncollected'
<1>1. \A r : r \in Owned(row') <=> Resumable(r)'
  BY OwnedIs, ResumableNextIs
<1> QED
  BY <1>1 DEF Collect, Collected

LEMMA DeleteStep ==
    ASSUME StoreInv, NEW S \in SUBSET Attempts, DeleteRows(S), \A a \in S : row[a] \in {"completed", "failed"}
    PROVE  StoreInv' /\ FilesKept /\ NothingTwice
<1>1. UNCHANGED <<work, server, crashes>> /\ server = "up"
  BY DEF DeleteRows
<1>2. /\ row' \in [Attempts -> Ends \cup Alive]
      /\ \A b \in Attempts : row'[b] = IF b \in S THEN "deleted" ELSE row[b]
  BY DEF StoreInv, StoreTypes, DeleteRows, Ends
<1>3. Collect(Offered(S), row')
  BY DEF DeleteRows
<1>4. /\ checkpoints' \subseteq checkpoints
      /\ \A f \in checkpoints \ checkpoints' : ~Resumable(f.key.request)'
      /\ \A f \in checkpoints' : (f.key.request \in Offered(S) \cup uncollected) =>
             Resumable(f.key.request)' \/ f.key.request \in uncollected'
  BY <1>2, <1>3, CollectKeeps
<1>5. work.at \notin {"idle", "collect"} => row'[work.of] = "generating"
  BY <1>2, JobFacts DEF IsJob, StoreInv, JobHolds
<1>51. work.at \notin {"idle", "collect"} => \A f \in checkpoints \ checkpoints' : f.key # Here
  <2> SUFFICES ASSUME work.at \notin {"idle", "collect"}, NEW f \in checkpoints \ checkpoints' PROVE f.key # Here
    OBVIOUS
  <2>1. work.of \in Attempts
    BY JobFacts DEF IsJob
  <2>2. f.key.request # RequestOf[work.of]
    BY <1>4, <1>5, <2>1, ResumableNextIs DEF Alive
  <2> QED
    BY <2>2, FileNames DEF Request
<1>6. JobHolds'
  BY <1>1, <1>4, <1>5, <1>51, JobStays
<1>7. OnlyLong' /\ Cardinality(checkpoints') <= MaxFiles /\ StoreTypes'
  BY <1>1, <1>2, <1>4, FewerFiles DEF StoreInv, StoreTypes
<1>8. \A r : Resumable(r) => Resumable(r)' \/ r \in Offered(S)
  BY <1>2, ResumableIs, ResumableNextIs DEF Offered
<1>9. OwnersHold'
  <2>1. \A f \in checkpoints : IsOwned(f)
    BY <1>1 DEF StoreInv, StoreIsBounded, IsOwned
  <2>2. (JobIs("collect") => JobIs("collect")') /\ Request' = Request
    BY <1>1 DEF JobIs, Request
  <2> QED
    BY <1>4, <1>8, <2>1, <2>2 DEF OwnersHold, IsOwned
<1>10. FilesKept
  BY <1>4 DEF FilesKept
<1> QED
  BY <1>1, <1>6, <1>7, <1>9, <1>10, JobStands, StoreIsWhole

(* The job's own row may be resumed until the job completes it.             *)
LEMMA WorkedOn ==
    ASSUME StoreInv, work.at \notin {"idle", "collect"}
    PROVE  /\ work.of \in Attempts /\ row[work.of] = "generating" /\ server = "up"
           /\ \A r : r = Request => Resumable(r)
<1>1. work.of \in Attempts /\ row[work.of] = "generating" /\ server = "up"
  BY JobFacts DEF IsJob, StoreInv, JobHolds
<1> QED
  BY <1>1, ResumableIs DEF Request, Alive

LEMMA JobEnds == ASSUME work' = Idle PROVE JobHolds' /\ NothingTwice
<1>1. work'.at = "idle"
  BY DEF Idle
<1> QED
  BY <1>1 DEF JobHolds, NothingTwice, Idle

LEMMA FailStep ==
    ASSUME StoreInv, work.at \notin {"idle", "collect"}, JobFails,
           checkpoints' \subseteq checkpoints, \A f \in checkpoints \ checkpoints' : f.kind = "temp"
    PROVE  StoreInv' /\ FilesKept /\ NothingTwice
<1>1. work' = Idle /\ UNCHANGED <<server, crashes, uncollected>>
  BY DEF JobFails
<1>2. /\ row' \in [Attempts -> Ends \cup Alive]
      /\ \A b \in Attempts : row[b] \in Alive => row'[b] \in Alive
  BY DEF StoreInv, StoreTypes, JobFails, Alive
<1>3. OnlyLong' /\ Cardinality(checkpoints') <= MaxFiles /\ StoreTypes'
  BY <1>1, <1>2, FewerFiles DEF StoreInv, StoreTypes
<1>4. OwnersHold'
  BY <1>1, <1>2, WorkedOn, OwnersStay DEF JobIs
<1>5. FilesKept
  BY DEF FilesKept
<1> QED
  BY <1>1, <1>3, <1>4, <1>5, JobEnds, StoreIsWhole

LEMMA StartStep ==
    ASSUME StoreInv, NEW a \in Attempts, Start(a)
    PROVE  StoreInv' /\ FilesKept /\ NothingTwice
<1>1. /\ UNCHANGED <<checkpoints, server, crashes, uncollected>> /\ server = "up" /\ work.at = "idle"
      /\ work' = [at |-> "load", of |-> a, chunk |-> 1, held |-> <<>>, sofar |-> Voiced(<<>>)]
  BY DEF Start, JobIs
<1>2. /\ row' \in [Attempts -> Ends \cup Alive] /\ row'[a] = "generating"
      /\ \A b \in Attempts : row[b] \in Alive => row'[b] \in Alive
  BY DEF StoreInv, StoreTypes, Start, Alive
<1>3. IsJob(work') /\ work'.at = "load" /\ work'.of = a
  BY <1>1 DEF IsJob, JobPlaces
<1>4. StoreTypes'
  BY <1>1, <1>2, <1>3 DEF StoreInv, StoreTypes, IsJob
<1>5. JobHolds'
  BY <1>1, <1>2, <1>3 DEF JobHolds
<1>6. OnlyLong' /\ Cardinality(checkpoints') <= MaxFiles
  BY <1>1, FewerFiles
<1>7. OwnersHold'
  BY <1>1, <1>2, OwnersStay DEF JobIs
<1>8. FilesKept /\ NothingTwice
  BY <1>1 DEF FilesKept, NothingTwice
<1> QED
  BY <1>4, <1>5, <1>6, <1>7, <1>8, StoreIsWhole

(* A job goes on: what has to hold where it arrives. *)
LEMMA JobGoesOn ==
    ASSUME StoreInv, work.at \notin {"idle", "collect"}, IsJob(work'), work'.of = work.of,
           UNCHANGED <<row, server, crashes, uncollected>>,
           \A f \in checkpoints' : f.key.request = Request \/ \E g \in checkpoints : g.key = f.key
    PROVE  /\ row' \in [Attempts -> Ends \cup Alive] /\ server' \in {"up", "reconcile", "prune", "collect"}
           /\ OwnersHold'
           /\ Request' = Request /\ OneChunk' = OneChunk
           /\ work'.chunk = work.chunk => Here' = Here
           /\ server' = "up" /\ row'[work'.of] = "generating"
<1>1. Request' = Request
  BY DEF Request
<1>2. server = "up" /\ \A r : r = Request => Resumable(r)
  BY WorkedOn
<1>3. \A f \in checkpoints : Resumable(f.key.request) \/ f.key.request \in uncollected
  BY <1>2 DEF StoreInv, StoreIsBounded, JobIs
<1>4. \A r : Resumable(r) => Resumable(r)'
  BY ResumableIs, ResumableNextIs
<1>5. OwnersHold'
  BY <1>2, <1>3, <1>4 DEF OwnersHold, IsOwned
<1>6. OneChunk' = OneChunk /\ (work'.chunk = work.chunk => Here' = Here)
  BY <1>1 DEF OneChunk, Here
<1> QED
  BY <1>1, <1>2, <1>5, <1>6, WorkedOn DEF StoreInv, StoreTypes

(* Steps of a job that leave the store alone. *)
LEMMA QuietStep ==
    ASSUME StoreInv, work.at \notin {"idle", "collect"}, IsJob(work'), work'.of = work.of,
           UNCHANGED <<row, server, crashes, uncollected, checkpoints>>,
           work'.at \notin {"replace", "fsync", "collect"},
           work'.at = "save" => ~OneChunk,
           (work'.at \in {"infer", "save"} /\ ~OneChunk) =>
               (work'.chunk = work.chunk /\ Named(Here) = {} /\ (work.at = "load" => Intact(Here) = {}))
    PROVE  StoreInv' /\ FilesKept /\ NothingTwice
<1>1. /\ row' \in [Attempts -> Ends \cup Alive] /\ server' \in {"up", "reconcile", "prune", "collect"}
      /\ OwnersHold' /\ Request' = Request /\ OneChunk' = OneChunk /\ (work'.chunk = work.chunk => Here' = Here)
      /\ server' = "up" /\ row'[work'.of] = "generating"
  BY JobGoesOn
<1>2. OnlyLong' /\ Cardinality(checkpoints') <= MaxFiles
  BY FewerFiles
<1>3. StoreTypes'
  BY <1>1 DEF StoreInv, StoreTypes
<1>4. JobHolds'
  BY <1>1 DEF JobHolds, Named
<1>5. FilesKept /\ NothingTwice
  BY DEF FilesKept, NothingTwice
<1> QED
  BY <1>1, <1>2, <1>3, <1>4, <1>5, StoreIsWhole

LEMMA SwapOne ==
    ASSUME NEW S, IsFiniteSet(S), NEW x \in S, NEW y, NEW T \in SUBSET ((S \ {x}) \cup {y})
    PROVE  IsFiniteSet(T) /\ Cardinality(T) <= Cardinality(S)
<1>1. PICK n \in Nat : n = Cardinality(S)
  BY FS_CardinalityType
<1>2. IsFiniteSet(S \ {x}) /\ Cardinality(S \ {x}) = n - 1
  BY <1>1, FS_RemoveElement
<1>3. PICK R, U : R = S \ {x} /\ U = R \cup {y}
  OBVIOUS
<1>4. IsFiniteSet(U) /\ Cardinality(U) <= n /\ Cardinality(U) \in Nat
  <2>1. IsFiniteSet(R) /\ Cardinality(R) = n - 1
    BY <1>2, <1>3
  <2>2. IsFiniteSet(U) /\ Cardinality(U) \in {n - 1, (n - 1) + 1} /\ Cardinality(U) \in Nat
    BY <1>3, <2>1, FS_AddElement, FS_CardinalityType
  <2> QED
    BY <1>1, <2>2
<1>5. IsFiniteSet(T) /\ Cardinality(T) <= Cardinality(U) /\ Cardinality(T) \in Nat
  BY <1>3, <1>4, FS_Subset, FS_CardinalityType
<1> QED
  BY <1>1, <1>4, <1>5

LEMMA ToJobIs ==
    ASSUME IsJob(work), NEW at \in JobPlaces, ToJob(at)
    PROVE  /\ IsJob(work') /\ work'.at = at
           /\ UNCHANGED <<work.of, work.chunk, work.held, work.sofar>>
BY DEF IsJob, ToJob

LEMMA LoadStep ==
    ASSUME StoreInv, LoadCheckpoint
    PROVE  StoreInv' /\ FilesKept /\ NothingTwice
<1>1. UNCHANGED <<row, server, crashes, uncollected>> /\ work.at = "load" /\ IsJob(work)
  BY JobFacts DEF LoadCheckpoint, JobIs
<1>2. CASE Intact(Here) # {} /\ ~OneChunk
  <2>1. work' = [work EXCEPT !.held = (CHOOSE f \in Intact(Here) : TRUE).audio, !.at = "append"] /\ UNCHANGED checkpoints
    BY <1>2 DEF LoadCheckpoint
  <2>2. IsJob(work') /\ work'.at = "append" /\ work'.of = work.of
    BY <1>1, <2>1 DEF IsJob, JobPlaces
  <2> QED
    BY <1>1, <2>1, <2>2, QuietStep
<1>3. CASE ~(Intact(Here) # {} /\ ~OneChunk)
  <2>1. ToJob("infer") /\ checkpoints' = IF OneChunk THEN checkpoints ELSE Discarded(Here)
    BY <1>3 DEF LoadCheckpoint
  <2>2. IsJob(work') /\ work'.at = "infer" /\ UNCHANGED <<work.of, work.chunk, work.held, work.sofar>>
    BY <1>1, <2>1, ToJobIs DEF JobPlaces
  <2>3. CASE OneChunk
    BY <1>1, <2>1, <2>2, <2>3, QuietStep
  <2>4. CASE ~OneChunk
    <3>1. checkpoints' = checkpoints \ Named(Here) /\ Intact(Here) = {}
      BY <1>3, <2>1, <2>4 DEF Discarded
    <3>2. /\ row' \in [Attempts -> Ends \cup Alive] /\ server' \in {"up", "reconcile", "prune", "collect"}
          /\ OwnersHold' /\ Here' = Here /\ OneChunk' = OneChunk
          /\ server' = "up" /\ row'[work'.of] = "generating"
      BY <1>1, <2>2, <3>1, JobGoesOn
    <3>3. OnlyLong' /\ Cardinality(checkpoints') <= MaxFiles /\ IsFiniteSet(checkpoints') /\ \A f \in checkpoints' : IsCheckpoint(f)
      BY <3>1, FewerFiles
    <3>4. StoreTypes'
      BY <2>2, <3>2, <3>3 DEF StoreTypes
    <3>5. Named(Here)' = {}
      BY <3>1, <3>2 DEF Named
    <3>6. JobHolds'
      BY <2>2, <3>2, <3>5 DEF JobHolds
    <3>7. FilesKept
      BY <3>1 DEF FilesKept, Named, Intact
    <3> QED
      BY <3>1, <3>2, <3>3, <3>4, <3>6, <3>7, StoreIsWhole DEF NothingTwice
  <2> QED
    BY <2>3, <2>4
<1> QED
  BY <1>2, <1>3

LEMMA InferStep ==
    ASSUME StoreInv, Infer
    PROVE  StoreInv' /\ FilesKept /\ NothingTwice
<1>1. work.at = "infer" /\ IsJob(work)
  BY JobFacts DEF Infer, JobIs
<1> DEFINE result == Chunk(engine, Request, work.chunk)
<1>2. CASE result.ok
  <2>1. /\ work' = [work EXCEPT !.held = result.audio, !.at = IF OneChunk THEN "append" ELSE "save"]
        /\ UNCHANGED <<row, server, crashes, uncollected, checkpoints>>
    BY <1>2 DEF Infer
  <2>2. IsJob(work') /\ work'.at = (IF OneChunk THEN "append" ELSE "save") /\ work'.of = work.of /\ work'.chunk = work.chunk
    BY <1>1, <2>1 DEF IsJob, JobPlaces
  <2>3. ~OneChunk => Named(Here) = {}
    BY <1>1 DEF StoreInv, JobHolds
  <2> QED
    BY <1>1, <2>1, <2>2, <2>3, QuietStep
<1>3. CASE ~result.ok
  <2>1. JobFails /\ UNCHANGED checkpoints
    BY <1>3 DEF Infer
  <2> QED
    BY <1>1, <2>1, FailStep
<1> QED
  BY <1>2, <1>3

LEMMA SaveStep ==
    ASSUME StoreInv, Save
    PROVE  StoreInv' /\ FilesKept /\ NothingTwice
<1>1. work.at = "save" /\ IsJob(work)
  BY JobFacts DEF Save, JobIs
<1>2. CASE JobFails /\ UNCHANGED checkpoints
  BY <1>1, <1>2, FailStep
<1>3. CASE /\ HasCapacity /\ checkpoints' = checkpoints \cup {TempFile} /\ ToJob("replace")
           /\ UNCHANGED <<row, server, crashes, uncollected>>
  <2>1. IsJob(work') /\ work'.at = "replace" /\ UNCHANGED <<work.of, work.chunk, work.held, work.sofar>>
    BY <1>1, <1>3, ToJobIs DEF JobPlaces
  <2>2. \A f \in checkpoints' : f.key.request = Request \/ \E g \in checkpoints : g.key = f.key
    BY <1>3, FileNames
  <2>3. /\ row' \in [Attempts -> Ends \cup Alive] /\ server' \in {"up", "reconcile", "prune", "collect"}
        /\ OwnersHold' /\ Here' = Here /\ OneChunk' = OneChunk
        /\ server' = "up" /\ row'[work'.of] = "generating"
    BY <1>1, <1>3, <2>1, <2>2, JobGoesOn
  <2>4. ~OneChunk /\ Named(Here) = {} /\ IsFiniteSet(checkpoints) /\ OnlyLong /\ \A f \in checkpoints : IsCheckpoint(f)
    BY <1>1 DEF StoreInv, JobHolds, StoreTypes
  <2>5. IsFiniteSet(checkpoints') /\ Cardinality(checkpoints') <= MaxFiles
    <3>1. PICK S, n, t : S = checkpoints /\ n = Cardinality(S) /\ n \in Nat /\ t = TempFile
      BY <2>4, FS_CardinalityType
    <3>2. IsFiniteSet(S \cup {t}) /\ Cardinality(S \cup {t}) \in {n, n + 1}
      BY <2>4, <3>1, FS_AddElement
    <3>3. n < MaxFiles /\ MaxFiles \in Nat
      BY <1>3, <3>1, AttemptsAssumption DEF HasCapacity
    <3> QED
      BY <1>3, <3>1, <3>2, <3>3
  <2>6. Len(Chunks(TempFile.key.request)) # 1
    BY <2>4, FileNames DEF OneChunk
  <2>7. OnlyLong' /\ StoreTypes'
    BY <1>3, <2>1, <2>3, <2>4, <2>5, <2>6, FileNames DEF OnlyLong, StoreTypes
  <2>8. Named(Here)' = {} /\ TempFile' = TempFile
    BY <1>3, <2>1, <2>3, <2>4, FileNames DEF Named, TempFile, Entry
  <2>9. JobHolds'
    BY <1>3, <2>1, <2>3, <2>4, <2>8 DEF JobHolds
  <2>10. FilesKept /\ NothingTwice
    BY <1>1, <1>3 DEF FilesKept, NothingTwice
  <2> QED
    BY <2>3, <2>5, <2>7, <2>9, <2>10, StoreIsWhole
<1> QED
  BY <1>2, <1>3 DEF Save, TempFile

LEMMA ReplaceStep ==
    ASSUME StoreInv, ReplaceFile
    PROVE  StoreInv' /\ FilesKept /\ NothingTwice
<1>1. work.at = "replace" /\ IsJob(work)
  BY JobFacts DEF ReplaceFile, JobIs
<1>2. CASE JobFails /\ checkpoints' = checkpoints \ {TempFile}
  BY <1>1, <1>2, FileNames, FailStep
<1>3. CASE /\ checkpoints' = (checkpoints \ ({TempFile} \cup Named(Here))) \cup {Replaced} /\ ToJob("fsync")
           /\ UNCHANGED <<row, server, crashes, uncollected>>
  <2>1. IsJob(work') /\ work'.at = "fsync" /\ UNCHANGED <<work.of, work.chunk, work.held, work.sofar>>
    BY <1>1, <1>3, ToJobIs DEF JobPlaces
  <2>2. \A f \in checkpoints' : f.key.request = Request \/ \E g \in checkpoints : g.key = f.key
    BY <1>3, FileNames
  <2>3. /\ row' \in [Attempts -> Ends \cup Alive] /\ server' \in {"up", "reconcile", "prune", "collect"}
        /\ OwnersHold' /\ Here' = Here /\ OneChunk' = OneChunk
        /\ server' = "up" /\ row'[work'.of] = "generating"
    BY <1>1, <1>3, <2>1, <2>2, JobGoesOn
  <2>4. /\ ~OneChunk /\ Named(Here) = {} /\ IsFiniteSet(checkpoints) /\ OnlyLong /\ \A f \in checkpoints : IsCheckpoint(f)
        /\ TempFile \in checkpoints /\ Cardinality(checkpoints) <= MaxFiles
    BY <1>1 DEF StoreInv, JobHolds, StoreTypes, StoreIsBounded
  <2>5. IsFiniteSet(checkpoints') /\ Cardinality(checkpoints') <= MaxFiles
    <3>1. PICK S, T, t, r : S = checkpoints /\ T = checkpoints' /\ t = TempFile /\ r = Replaced
      OBVIOUS
    <3>2. T \in SUBSET ((S \ {t}) \cup {r}) /\ t \in S /\ IsFiniteSet(S)
      BY <1>3, <2>4, <3>1
    <3>3. IsFiniteSet(T) /\ Cardinality(T) <= Cardinality(S) /\ Cardinality(T) \in Nat /\ Cardinality(S) \in Nat
      BY <3>2, SwapOne, FS_CardinalityType
    <3> QED
      BY <2>4, <3>1, <3>3, AttemptsAssumption
  <2>6. Len(Chunks(Replaced.key.request)) # 1
    BY <2>4, FileNames DEF OneChunk
  <2>7. OnlyLong' /\ StoreTypes'
    BY <1>3, <2>1, <2>3, <2>4, <2>5, <2>6, FileNames DEF OnlyLong, StoreTypes
  <2>8. Replaced' = Replaced
    BY <1>3, <2>1, <2>3 DEF Replaced, Entry
  <2>9. JobHolds'
    BY <1>3, <2>1, <2>3, <2>4, <2>8 DEF JobHolds
  <2>10. FilesKept /\ NothingTwice
    BY <1>1, <1>3, <2>4, FileNames DEF FilesKept, NothingTwice
  <2> QED
    BY <2>3, <2>5, <2>7, <2>9, <2>10, StoreIsWhole
<1> QED
  BY <1>2, <1>3 DEF ReplaceFile

LEMMA FsyncStep ==
    ASSUME StoreInv, FsyncDirectory
    PROVE  StoreInv' /\ FilesKept /\ NothingTwice
<1>1. work.at = "fsync" /\ IsJob(work)
  BY JobFacts DEF FsyncDirectory, JobIs
<1>2. CASE JobFails /\ UNCHANGED checkpoints
  BY <1>1, <1>2, FailStep
<1>3. CASE /\ checkpoints' = (checkpoints \ {Replaced}) \cup {[Replaced EXCEPT !.durable = TRUE]} /\ ToJob("append")
           /\ UNCHANGED <<row, server, crashes, uncollected>>
  <2> DEFINE synced == [Replaced EXCEPT !.durable = TRUE]
  <2>1. IsJob(work') /\ work'.at = "append" /\ UNCHANGED <<work.of, work.chunk, work.held, work.sofar>>
    BY <1>1, <1>3, ToJobIs DEF JobPlaces
  <2>2. synced.key = Here /\ IsCheckpoint(synced)
    BY FileNames DEF IsCheckpoint
  <2>3. \A f \in checkpoints' : f.key.request = Request \/ \E g \in checkpoints : g.key = f.key
    BY <1>3, <2>2, FileNames
  <2>4. /\ row' \in [Attempts -> Ends \cup Alive] /\ server' \in {"up", "reconcile", "prune", "collect"}
        /\ OwnersHold' /\ server' = "up" /\ row'[work'.of] = "generating"
    BY <1>1, <1>3, <2>1, <2>3, JobGoesOn
  <2>5. /\ ~OneChunk /\ IsFiniteSet(checkpoints) /\ OnlyLong /\ \A f \in checkpoints : IsCheckpoint(f)
        /\ Replaced \in checkpoints /\ Cardinality(checkpoints) <= MaxFiles
    BY <1>1 DEF StoreInv, JobHolds, StoreTypes, StoreIsBounded
  <2>6. IsFiniteSet(checkpoints') /\ Cardinality(checkpoints') <= MaxFiles
    <3>1. PICK S, T, t, r : S = checkpoints /\ T = checkpoints' /\ t = Replaced /\ r = synced
      OBVIOUS
    <3>2. T \in SUBSET ((S \ {t}) \cup {r}) /\ t \in S /\ IsFiniteSet(S)
      BY <1>3, <2>5, <3>1
    <3>3. IsFiniteSet(T) /\ Cardinality(T) <= Cardinality(S) /\ Cardinality(T) \in Nat /\ Cardinality(S) \in Nat
      BY <3>2, SwapOne, FS_CardinalityType
    <3> QED
      BY <2>5, <3>1, <3>3, AttemptsAssumption
  <2>7. Len(Chunks(synced.key.request)) # 1
    BY <2>2, <2>5, FileNames DEF OneChunk
  <2> HIDE DEF synced
  <2>8. OnlyLong' /\ StoreTypes'
    BY <1>3, <2>1, <2>2, <2>4, <2>5, <2>6, <2>7 DEF OnlyLong, StoreTypes, synced
  <2>9. JobHolds'
    BY <2>1, <2>4 DEF JobHolds
  <2>10. FilesKept /\ NothingTwice
    BY <1>1, <1>3, FileNames DEF FilesKept, NothingTwice
  <2> QED
    BY <2>4, <2>6, <2>8, <2>9, <2>10, StoreIsWhole
<1> QED
  BY <1>2, <1>3 DEF FsyncDirectory

(* The steps of a job that only move its audio. *)
LEMMA AudioStep ==
    ASSUME StoreInv, AppendChunk \/ PublishAudio \/ SyncAudio
    PROVE  StoreInv' /\ FilesKept /\ NothingTwice
<1>1. IsJob(work) /\ work.at \in {"append", "publish", "sync"}
  BY JobFacts DEF AppendChunk, PublishAudio, SyncAudio, JobIs
<1>2. CASE JobFails /\ UNCHANGED checkpoints
  BY <1>1, <1>2, FailStep
<1>3. CASE ~(JobFails /\ UNCHANGED checkpoints)
  <2>1. /\ UNCHANGED <<row, server, crashes, uncollected, checkpoints>>
        /\ IsJob(work') /\ work'.of = work.of /\ work'.at \in {"publish", "load", "sync", "complete"}
    <3>1. CASE AppendChunk
      <4> DEFINE sofar == Accumulated(work.sofar, Voiced(work.held))
      <4>1. /\ UNCHANGED <<row, server, crashes, uncollected, checkpoints>>
            /\ work' = [work EXCEPT !.sofar = sofar, !.held = <<>>,
                         !.chunk = IF @ = Len(Chunks(Request)) THEN @ ELSE @ + 1,
                         !.at = IF work.chunk = Len(Chunks(Request)) THEN "publish" ELSE "load"]
        BY <1>3, <3>1 DEF AppendChunk
      <4> HIDE DEF sofar
      <4> QED
        BY <1>1, <4>1 DEF IsJob, JobPlaces
    <3>2. CASE PublishAudio
      <4>1. ToJob("sync") /\ UNCHANGED <<row, server, crashes, uncollected, checkpoints>>
        BY <1>3, <3>2 DEF PublishAudio
      <4> QED
        BY <1>1, <4>1, ToJobIs DEF JobPlaces
    <3>3. CASE SyncAudio
      <4>1. ToJob("complete") /\ UNCHANGED <<row, server, crashes, uncollected, checkpoints>>
        BY <1>3, <3>3 DEF SyncAudio
      <4> QED
        BY <1>1, <4>1, ToJobIs DEF JobPlaces
    <3> QED
      BY <3>1, <3>2, <3>3
  <2> QED
    BY <1>1, <2>1, QuietStep
<1> QED
  BY <1>2, <1>3

LEMMA CompleteStep ==
    ASSUME StoreInv, Complete
    PROVE  StoreInv' /\ FilesKept /\ NothingTwice
<1>1. /\ work.at = "complete" /\ IsJob(work) /\ work.of \in Attempts /\ row[work.of] = "generating" /\ server = "up"
      /\ UNCHANGED <<checkpoints, uncollected, server, crashes>>
  BY JobFacts, WorkedOn DEF Complete, JobIs
<1>2. /\ row' \in [Attempts -> Ends \cup Alive]
      /\ \A b \in Attempts : row'[b] = IF b = work.of THEN "completed" ELSE row[b]
  BY <1>1 DEF StoreInv, StoreTypes, Complete, Ends
<1>3. \A r : Resumable(r) => Resumable(r)' \/ r = Request
  BY <1>2, ResumableIs, ResumableNextIs DEF Request
<1>4. OnlyLong' /\ Cardinality(checkpoints') <= MaxFiles /\ IsFiniteSet(checkpoints') /\ \A f \in checkpoints' : IsCheckpoint(f)
  BY <1>1, FewerFiles
<1>5. \A f \in checkpoints : Resumable(f.key.request) \/ f.key.request \in uncollected
  BY <1>1 DEF StoreInv, StoreIsBounded, JobIs
<1>6. FilesKept
  BY <1>1 DEF FilesKept
<1>7. CASE OneChunk
  <2>1. work' = Idle
    BY <1>7 DEF Complete
  <2>2. \A f \in checkpoints : f.key.request # Request
    BY <1>7 DEF StoreInv, OnlyLong, OneChunk
  <2>3. OwnersHold'
    BY <1>1, <1>3, <1>5, <2>2 DEF OwnersHold, IsOwned
  <2>4. StoreTypes'
    BY <1>1, <1>2, <1>4, <2>1 DEF StoreInv, StoreTypes
  <2> QED
    BY <1>4, <1>6, <2>1, <2>3, <2>4, JobEnds, StoreIsWhole
<1>8. CASE ~OneChunk
  <2>1. ToJob("collect")
    BY <1>8 DEF Complete
  <2>2. IsJob(work') /\ work'.at = "collect" /\ UNCHANGED <<work.of, work.chunk, work.held, work.sofar>>
    BY <1>1, <2>1, ToJobIs DEF JobPlaces
  <2>3. Request' = Request /\ OneChunk' = OneChunk
    BY <2>2 DEF Request, OneChunk
  <2>4. StoreTypes'
    BY <1>1, <1>2, <1>4, <2>2 DEF StoreInv, StoreTypes
  <2>5. JobHolds'
    BY <1>1, <1>8, <2>2, <2>3 DEF JobHolds
  <2>6. OwnersHold'
    BY <1>1, <1>3, <1>5, <2>2, <2>3 DEF OwnersHold, IsOwned, JobIs
  <2> QED
    BY <1>1, <1>4, <1>6, <2>4, <2>5, <2>6, StoreIsWhole DEF NothingTwice
<1> QED
  BY <1>7, <1>8

LEMMA CollectOwnStep ==
    ASSUME StoreInv, CollectOwn
    PROVE  StoreInv' /\ FilesKept /\ NothingTwice
<1>1. work' = Idle /\ UNCHANGED <<row, server, crashes>> /\ server = "up"
  BY DEF CollectOwn, JobIs
<1>2. row' \in [Attempts -> Ends \cup Alive]
  BY <1>1 DEF StoreInv, StoreTypes
<1>3. /\ checkpoints' \subseteq checkpoints
      /\ \A f \in checkpoints \ checkpoints' : ~Resumable(f.key.request)'
      /\ \A f \in checkpoints' : (f.key.request \in {Request} \cup uncollected) =>
             Resumable(f.key.request)' \/ f.key.request \in uncollected'
  BY <1>1, <1>2, CollectKeeps DEF CollectOwn
<1>4. \A f \in checkpoints : Resumable(f.key.request) \/ f.key.request \in uncollected \/ f.key.request = Request
  BY <1>1 DEF StoreInv, StoreIsBounded
<1>5. \A r : Resumable(r) => Resumable(r)'
  BY <1>1, ResumableIs, ResumableNextIs
<1>6. OwnersHold'
  BY <1>3, <1>4, <1>5 DEF OwnersHold, IsOwned
<1>7. OnlyLong' /\ Cardinality(checkpoints') <= MaxFiles /\ StoreTypes'
  BY <1>1, <1>2, <1>3, FewerFiles DEF StoreInv, StoreTypes
<1>8. FilesKept
  BY <1>3 DEF FilesKept
<1> QED
  BY <1>1, <1>6, <1>7, <1>8, JobEnds, StoreIsWhole

LEMMA PairedStep ==
    ASSUME StoreInv, NEW a \in Attempts, RunPaired(a)
    PROVE  StoreInv' /\ FilesKept /\ NothingTwice
<1>1. UNCHANGED <<checkpoints, work, server, crashes>> /\ server = "up" /\ work.at = "idle"
  BY DEF RunPaired, JobIs
<1>2. row' \in [Attempts -> Ends \cup Alive] /\ uncollected \subseteq uncollected'
  BY DEF StoreInv, StoreTypes, RunPaired, Ends, Alive
<1>3. \A r : Resumable(r) => Resumable(r)' \/ r \in uncollected'
  <2>1. CASE row' = [row EXCEPT ![a] = "failed"]
    <3>1. \A b \in Attempts : row[b] \in Alive => row'[b] \in Alive
      BY <2>1 DEF StoreInv, StoreTypes, Alive
    <3> QED
      BY <3>1, ResumableIs, ResumableNextIs
  <2>2. CASE row' = [row EXCEPT ![a] = "completed"] /\ uncollected' = uncollected \cup ({RequestOf[a]} \ Owned(row'))
    <3>1. \A b \in Attempts : row[b] \in Alive => row'[b] \in Alive \/ b = a
      BY <2>2 DEF StoreInv, StoreTypes
    <3>2. \A r : r \in Owned(row') <=> Resumable(r)'
      BY <1>2, OwnedIs, ResumableNextIs
    <3>3. \A r : Resumable(r) => Resumable(r)' \/ r = RequestOf[a]
      BY <3>1, ResumableIs, ResumableNextIs
    <3> QED
      BY <2>2, <3>2, <3>3
  <2> QED
    BY <2>1, <2>2 DEF RunPaired
<1>4. \A f \in checkpoints : Resumable(f.key.request) \/ f.key.request \in uncollected
  BY <1>1 DEF StoreInv, StoreIsBounded, JobIs
<1>5. OwnersHold'
  BY <1>1, <1>2, <1>3, <1>4 DEF OwnersHold, IsOwned
<1>6. JobHolds'
  BY <1>1, JobStays
<1>7. OnlyLong' /\ Cardinality(checkpoints') <= MaxFiles /\ StoreTypes'
  BY <1>1, <1>2, FewerFiles DEF StoreInv, StoreTypes
<1>8. FilesKept
  BY <1>1 DEF FilesKept
<1> QED
  BY <1>1, <1>5, <1>6, <1>7, <1>8, JobStands, StoreIsWhole

(* A crash settles every file: it is there under one of its names, or gone. *)
LEMMA SurvivorsAreFew ==
    ASSUME StoreInv, NEW T \in Survivors
    PROVE  /\ IsFiniteSet(T) /\ Cardinality(T) <= MaxFiles
           /\ \A g \in T : IsCheckpoint(g) /\ \E f \in checkpoints : g.key = f.key
           /\ \A f \in checkpoints : f.durable => f \in T
<1> DEFINE All == SUBSET UNION {UNION Settled(f) : f \in checkpoints}
<1>1. PICK choice : /\ choice \in [checkpoints -> All] /\ \A f \in checkpoints : choice[f] \in Settled(f)
                    /\ T = UNION {choice[f] : f \in checkpoints}
  BY DEF Survivors
<1>2. /\ IsFiniteSet(checkpoints) /\ Cardinality(checkpoints) <= MaxFiles /\ \A f \in checkpoints : IsCheckpoint(f)
  BY DEF StoreInv, StoreTypes, StoreIsBounded
<1> DEFINE renamed(f) == [f EXCEPT !.kind = "temp", !.tag = crashes]
<1>3. \A f \in checkpoints : choice[f] = {} \/ choice[f] = {f} \/ choice[f] = {renamed(f)}
  BY <1>1 DEF Settled
<1>4. \A f \in checkpoints : IsCheckpoint(renamed(f)) /\ renamed(f).key = f.key
  BY <1>2 DEF IsCheckpoint
<1> HIDE DEF All, renamed
<1>5. \A g \in T : IsCheckpoint(g) /\ \E f \in checkpoints : g.key = f.key
  <2> SUFFICES ASSUME NEW g \in T PROVE IsCheckpoint(g) /\ \E f \in checkpoints : g.key = f.key
    OBVIOUS
  <2>1. PICK f \in checkpoints : g \in choice[f]
    BY <1>1
  <2>2. g = f \/ g = renamed(f)
    BY <1>3, <2>1
  <2> QED
    BY <1>2, <1>4, <2>2
<1>6. \A f \in checkpoints : f.durable => f \in T
  <2> SUFFICES ASSUME NEW f \in checkpoints, f.durable PROVE f \in T
    OBVIOUS
  <2>1. choice[f] = {f}
    BY <1>1 DEF Settled
  <2> QED
    BY <1>1, <2>1
<1> DEFINE D == {f \in checkpoints : choice[f] # {}}
           h == [f \in D |-> CHOOSE x : x \in choice[f]]
<1>7. T = {h[f] : f \in D}
  <2>1. \A f \in D : choice[f] = {h[f]}
    <3> SUFFICES ASSUME NEW f \in D PROVE choice[f] = {h[f]}
      OBVIOUS
    <3>1. PICK x : choice[f] = {x}
      BY <1>3
    <3> QED
      BY <3>1
  <2>2. \A f \in checkpoints : f \in D \/ choice[f] = {}
    OBVIOUS
  <2>3. D \subseteq checkpoints
    OBVIOUS
  <2> HIDE DEF D, h
  <2>4. \A g : g \in T <=> \E f \in checkpoints : g \in choice[f]
    BY <1>1
  <2>5. \A g : g \in T <=> \E f \in D : g = h[f]
    BY <2>1, <2>2, <2>3, <2>4
  <2> QED
    BY <2>5
<1>8. IsFiniteSet(D) /\ Cardinality(D) <= Cardinality(checkpoints) /\ Cardinality(D) \in Nat /\ Cardinality(checkpoints) \in Nat
  <2>1. D \subseteq checkpoints
    OBVIOUS
  <2> HIDE DEF D
  <2> QED
    BY <1>2, <2>1, FS_Subset, FS_CardinalityType
<1> HIDE DEF D, h
<1>9. IsFiniteSet(T) /\ Cardinality(T) <= Cardinality(D) /\ Cardinality(T) \in Nat
  BY <1>7, <1>8, FiniteImage, FS_CardinalityType
<1> QED
  BY <1>2, <1>5, <1>6, <1>8, <1>9, AttemptsAssumption

LEMMA CrashStep ==
    ASSUME StoreInv, Crash
    PROVE  StoreInv' /\ FilesKept /\ NothingTwice
<1>1. work' = Idle /\ server' = "reconcile" /\ row' = row /\ checkpoints' \in Survivors
  BY DEF Crash
<1>2. /\ IsFiniteSet(checkpoints') /\ Cardinality(checkpoints') <= MaxFiles
      /\ \A g \in checkpoints' : IsCheckpoint(g) /\ \E f \in checkpoints : g.key = f.key
      /\ \A f \in checkpoints : f.durable => f \in checkpoints'
  BY <1>1, SurvivorsAreFew
<1>3. OnlyLong' /\ StoreTypes'
  BY <1>1, <1>2 DEF StoreInv, StoreTypes, OnlyLong
<1>4. OwnersHold' /\ FilesKept
  BY <1>1, <1>2 DEF OwnersHold, FilesKept
<1> QED
  BY <1>1, <1>2, <1>3, <1>4, JobEnds, StoreIsWhole

LEMMA StartupStep ==
    ASSUME StoreInv, Reconcile \/ PruneTemporary \/ CollectAll
    PROVE  StoreInv' /\ FilesKept /\ NothingTwice
<1>1. server # "up" /\ work = Idle /\ work' = Idle
  BY DEF StoreInv, JobHolds, Reconcile, PruneTemporary, CollectAll
<1>2. /\ row' \in [Attempts -> Ends \cup Alive] /\ server' \in {"up", "reconcile", "prune", "collect"}
      /\ checkpoints' \subseteq checkpoints
  BY DEF StoreInv, StoreTypes, Reconcile, PruneTemporary, CollectAll, Alive
<1>3. OnlyLong' /\ Cardinality(checkpoints') <= MaxFiles /\ StoreTypes'
  BY <1>1, <1>2, FewerFiles DEF StoreTypes
<1>4. CASE CollectAll
  <2>1. \A r : r \in Owned(row) <=> Resumable(r)'
    BY <1>2, <1>4, OwnedIs, ResumableNextIs DEF CollectAll
  <2>2. /\ \A f \in checkpoints' : f.key.request \in Owned(row) \cup uncollected'
        /\ \A f \in checkpoints \ checkpoints' : f.key.request \notin Owned(row)
    BY <1>4 DEF CollectAll, Collected, Stored
  <2> QED
    BY <1>1, <1>3, <2>1, <2>2, JobEnds, StoreIsWhole DEF OwnersHold, IsOwned, FilesKept
<1>5. CASE Reconcile \/ PruneTemporary
  <2>1. server' # "up" /\ \A f \in checkpoints \ checkpoints' : f.kind # "final"
    BY <1>5 DEF Reconcile, PruneTemporary
  <2> QED
    BY <1>1, <1>3, <2>1, JobEnds, StoreIsWhole DEF OwnersHold, FilesKept
<1> QED
  BY <1>4, <1>5

LEMMA FaultStep ==
    ASSUME StoreInv, (\E f \in checkpoints : Rot(f)) \/ (\E r \in Requests : Stray(r))
    PROVE  StoreInv' /\ FilesKept /\ NothingTwice
<1>1. UNCHANGED <<row, work, uncollected, server, crashes>>
  BY DEF Rot, Stray
<1>2. work.at \notin {"idle", "collect"} => row'[work.of] = "generating"
  BY <1>1, WorkedOn
<1>3. \A r : Resumable(r) => Resumable(r)'
  BY <1>1, ResumableIs, ResumableNextIs
<1>4. (JobIs("collect") => JobIs("collect")') /\ Request' = Request
  BY <1>1 DEF JobIs, Request
<1>5. server = "up" => \A f \in checkpoints : IsOwned(f)
  BY DEF StoreInv, StoreIsBounded, IsOwned
<1>6. CASE \E r \in Requests : Stray(r)
  <2>1. checkpoints' = checkpoints
    BY <1>6 DEF Stray
  <2>2. OnlyLong' /\ Cardinality(checkpoints') <= MaxFiles /\ StoreTypes'
    BY <1>1, <2>1, FewerFiles DEF StoreInv, StoreTypes
  <2>3. JobHolds'
    BY <1>1, <1>2, <2>1, JobStays
  <2>4. OwnersHold' /\ FilesKept
    BY <1>1, <1>3, <1>4, <1>5, <2>1 DEF OwnersHold, IsOwned, FilesKept
  <2> QED
    BY <1>1, <2>2, <2>3, <2>4, JobStands, StoreIsWhole
<1>7. ASSUME NEW f \in checkpoints, Rot(f) PROVE StoreInv' /\ FilesKept /\ NothingTwice
  <2>1. PICK g : g = [f EXCEPT !.intact = FALSE, !.audio = <<>>]
    OBVIOUS
  <2>2. checkpoints' = (checkpoints \ {f}) \cup {g} /\ f.durable
    BY <1>7, <2>1 DEF Rot
  <2>3. IsCheckpoint(g) /\ g.key = f.key /\ g.kind = f.kind /\ ~g.intact
    BY <2>1 DEF StoreInv, StoreTypes, IsCheckpoint
  <2>4. IsFiniteSet(checkpoints) /\ Cardinality(checkpoints) <= MaxFiles /\ OnlyLong /\ \A e \in checkpoints : IsCheckpoint(e)
    BY DEF StoreInv, StoreTypes, StoreIsBounded
  <2>5. IsFiniteSet(checkpoints') /\ Cardinality(checkpoints') <= MaxFiles
    <3>1. PICK S, T : S = checkpoints /\ T = checkpoints'
      OBVIOUS
    <3>2. T \in SUBSET ((S \ {f}) \cup {g}) /\ f \in S /\ IsFiniteSet(S)
      BY <2>2, <2>4, <3>1
    <3>3. IsFiniteSet(T) /\ Cardinality(T) <= Cardinality(S) /\ Cardinality(T) \in Nat /\ Cardinality(S) \in Nat
      BY <3>2, SwapOne, FS_CardinalityType
    <3> QED
      BY <2>4, <3>1, <3>3, AttemptsAssumption
  <2>6. OnlyLong' /\ StoreTypes'
    BY <1>1, <2>2, <2>3, <2>4, <2>5 DEF StoreInv, StoreTypes, OnlyLong
  <2>7. JobHolds'
    <3>1. \A e \in checkpoints' : e.kind = "final" => \E d \in checkpoints : d.kind = "final" /\ d.key = e.key
      BY <2>2, <2>3
    <3>2. \A e \in checkpoints \ checkpoints' : e.durable
      BY <2>2
    <3> QED
      BY <1>1, <1>2, <3>1, <3>2, JobStays
  <2>8. OwnersHold'
    BY <1>1, <1>3, <1>4, <1>5, <2>2, <2>3 DEF OwnersHold, IsOwned
  <2>9. FilesKept
    BY <2>2, <2>3 DEF FilesKept
  <2> QED
    BY <1>1, <2>5, <2>6, <2>7, <2>8, <2>9, JobStands, StoreIsWhole
<1> QED
  BY <1>6, <1>7

LEMMA StoreStep ==
    ASSUME StoreInv, [Next]_vars
    PROVE  StoreInv' /\ FilesKept /\ NothingTwice
<1>1. CASE UNCHANGED vars
  <2>1. StoreInv'
    BY <1>1 DEF vars, StoreInv, StoreTypes, JobHolds, OnlyLong, StoreIsBounded, Resumable, JobIs, Request, OneChunk,
                Named, Here, TempFile, Replaced, Entry, IsJob, IsCheckpoint
  <2> QED
    BY <1>1, <2>1, JobStands DEF vars, FilesKept
<1>2. ASSUME NEW a \in Attempts, Submit(a) \/ CancelQueued(a) \/ DeleteOne(a) \/ Start(a) \/ RunPaired(a)
      PROVE  StoreInv' /\ FilesKept /\ NothingTwice
  <2>1. CASE Submit(a) \/ CancelQueued(a)
    BY <2>1, QueueStep
  <2>2. CASE DeleteOne(a)
    <3>1. DeleteRows({a}) /\ {a} \in SUBSET Attempts /\ \A b \in {a} : row[b] \in {"completed", "failed"}
      BY <2>2 DEF DeleteOne
    <3> QED
      BY <3>1, DeleteStep
  <2>3. CASE Start(a)
    BY <2>3, StartStep
  <2>4. CASE RunPaired(a)
    BY <2>4, PairedStep
  <2> QED
    BY <1>2, <2>1, <2>2, <2>3, <2>4
<1>3. CASE ClearFailed
  <2>1. PICK S : S = {a \in Attempts : row[a] = "failed"}
    OBVIOUS
  <2>2. S \in SUBSET Attempts /\ DeleteRows(S) /\ \A a \in S : row[a] \in {"completed", "failed"}
    BY <1>3, <2>1 DEF ClearFailed
  <2> QED
    BY <2>2, DeleteStep
<1>4. CASE Cancelled
  <2>1. work.at \notin {"idle", "collect"} /\ JobFails /\ checkpoints' = checkpoints
    BY <1>4 DEF Cancelled
  <2> QED
    BY <2>1, FailStep
<1>5. CASE LoadCheckpoint \/ Infer \/ Save \/ ReplaceFile \/ FsyncDirectory
  BY <1>5, LoadStep, InferStep, SaveStep, ReplaceStep, FsyncStep
<1>6. CASE AppendChunk \/ PublishAudio \/ SyncAudio \/ Complete \/ CollectOwn
  BY <1>6, AudioStep, CompleteStep, CollectOwnStep
<1>7. CASE Crash \/ Reconcile \/ PruneTemporary \/ CollectAll
  BY <1>7, CrashStep, StartupStep
<1>8. CASE (\E f \in checkpoints : Rot(f)) \/ (\E r \in Requests : Stray(r))
  BY <1>8, FaultStep
<1> QED
  BY <1>1, <1>2, <1>3, <1>4, <1>5, <1>6, <1>7, <1>8 DEF Next

(* For any requests, any number of attempts at them, crashes and faults: a  *)
(* checkpoint that reads back well and was synced is there as long as a row *)
(* may still be resumed, no chunk that lies there is synthesised again, and *)
(* the store keeps to its quota and holds nothing that nobody needs but     *)
(* what a collection was prevented from taking                              *)
(* (exact_chunk_checkpoints.py).                                            *)
THEOREM CheckpointsAlwaysServe == Spec => CheckpointsServe
<1>1. Init => StoreInv
  BY StoreInit
<1>2. StoreInv /\ [Next]_vars => StoreInv'
  BY StoreStep
<1>3. StoreInv => StoreIsBounded
  BY DEF StoreInv
<1>4. StoreInv /\ [Next]_vars =>
        [/\ \A f \in checkpoints : (f.kind = "final" /\ f.intact /\ f.durable /\ f \notin checkpoints') =>
                \/ ~Resumable(f.key.request)'
                \/ \E g \in checkpoints' : g.key = f.key /\ ~g.intact
         /\ (work.at = "load" /\ work'.at = "infer" /\ ~OneChunk) => Intact(Here) = {}]_vars
  BY StoreStep DEF FilesKept, NothingTwice
<1> QED
  BY <1>1, <1>2, <1>3, <1>4, PTL DEF Spec, CheckpointsServe, WorkIsKept

-----------------------------------------------------------------------------
(* What the folds of LongForm compute.  A fold is the last of the values    *)
(* that its steps pass through; the three folds are handled together.       *)
Overlap(n, c) == Min({Crossfade, n, Len(c)})

(* The frames of one step, with its numbers named. *)
Written(frames, c, n, m, overlap, first) ==
    [p \in DOMAIN frames |->
        CASE p <= first \/ p > first + m -> frames[p]
          [] p > first /\ p <= n -> Blend(frames[p], c[p - first], p - first, overlap)
          [] OTHER -> c[p - first]]
Buffered(buffer, c) ==
    LET overlap == Min({Crossfade, buffer.cursor, Len(c)})
        first == buffer.cursor - overlap IN
    [cursor |-> first + Len(c), frames |-> Written(buffer.frames, c, buffer.cursor, Len(c), overlap, first)]

FoldedBy(fold, v, c) ==
    CASE fold = "results" -> Accumulated(v, c)
      [] fold = "length" -> v + Len(c) - Overlap(v, c)
      [] fold = "buffer" -> Buffered(v, c)

FoldOf(fold, base, seq, g, s) ==
    IF s = {} THEN base ELSE FoldedBy(fold, g[s \ {Max(s)}], seq[Max(s)])
IsFoldOf(fold, base, seq, S, g) == g = [s \in SUBSET S |-> FoldOf(fold, base, seq, g, s)]

LEMMA GreatestIs ==
    ASSUME NEW n \in Nat, NEW s \in SUBSET (1..n), s # {}
    PROVE  Max(s) \in s /\ \A x \in s : Max(s) >= x
<1>1. IsFiniteSet(1..n) /\ 1..n \subseteq Int
  BY FS_Interval
<1>2. IsFiniteSet(s) /\ s \in SUBSET Int
  BY <1>1, FS_Subset
<1>3. \E m \in s : \A x \in s : m >= x
  BY <1>2, GreatestExists
<1> QED
  BY <1>3 DEF Max

ChosenFold(fold, base, seq, n) == CHOOSE g : IsFoldOf(fold, base, seq, 1..n, g)

LEMMA FoldOfExists ==
    ASSUME NEW fold, NEW base, NEW seq, NEW n \in Nat
    PROVE  \E g : IsFoldOf(fold, base, seq, 1..n, g)
<1> DEFINE T == {m \in Nat : \E g : IsFoldOf(fold, base, seq, 1..m, g)}
<1>1. 0 \in T
  <2>1. SUBSET (1..0) = {{}}
    OBVIOUS
  <2>2. \A s \in SUBSET (1..0) : FoldOf(fold, base, seq, [t \in SUBSET (1..0) |-> base], s) = base
    BY <2>1 DEF FoldOf
  <2>3. [t \in SUBSET (1..0) |-> base] = [s \in SUBSET (1..0) |-> FoldOf(fold, base, seq, [t \in SUBSET (1..0) |-> base], s)]
    BY <2>2
  <2> QED
    BY <2>3 DEF IsFoldOf
<1>2. ASSUME NEW m \in T PROVE m + 1 \in T
  <2>1. PICK g : IsFoldOf(fold, base, seq, 1..m, g)
    OBVIOUS
  <2>2. m \in Nat /\ m + 1 \in Nat
    OBVIOUS
  <2> DEFINE h == [s \in SUBSET (1..(m + 1)) |-> FoldOf(fold, base, seq, g, s)]
  <2>3. \A s \in SUBSET (1..m) : s \in SUBSET (1..(m + 1)) /\ h[s] = g[s]
    <3> SUFFICES ASSUME NEW s \in SUBSET (1..m) PROVE s \in SUBSET (1..(m + 1)) /\ h[s] = g[s]
      OBVIOUS
    <3>1. s \in SUBSET (1..(m + 1))
      BY <2>2
    <3>2. g[s] = FoldOf(fold, base, seq, g, s)
      BY <2>1 DEF IsFoldOf
    <3> QED
      BY <3>1, <3>2
  <2>4. ASSUME NEW s \in SUBSET (1..(m + 1)), s # {} PROVE s \ {Max(s)} \in SUBSET (1..m)
    <3>1. Max(s) \in s /\ \A x \in s : Max(s) >= x
      BY <2>2, <2>4, GreatestIs
    <3>2. \A x \in s : x \in 1..(m + 1)
      OBVIOUS
    <3>3. \A x \in s : x # Max(s) => x \in 1..m
      <4>1. PICK b \in 1..(m + 1) : b = Max(s) /\ \A x \in s : b >= x
        BY <3>1, <3>2
      <4> QED
        BY <2>2, <3>2, <4>1
    <3> QED
      BY <3>3
  <2>5. \A s \in SUBSET (1..(m + 1)) : FoldOf(fold, base, seq, g, s) = FoldOf(fold, base, seq, h, s)
    <3> SUFFICES ASSUME NEW s \in SUBSET (1..(m + 1)), s # {}
                 PROVE  FoldOf(fold, base, seq, g, s) = FoldOf(fold, base, seq, h, s)
      BY DEF FoldOf
    <3>1. h[s \ {Max(s)}] = g[s \ {Max(s)}]
      BY <2>3, <2>4
    <3> HIDE DEF h
    <3> QED
      BY <3>1 DEF FoldOf
  <2>6. h = [s \in SUBSET (1..(m + 1)) |-> FoldOf(fold, base, seq, h, s)]
    BY <2>5
  <2>7. IsFoldOf(fold, base, seq, 1..(m + 1), h)
    <3> HIDE DEF h
    <3> QED
      BY <2>6 DEF IsFoldOf
  <2> HIDE DEF h
  <2> QED
    BY <2>2, <2>7
<1>3. T = Nat
  <2> HIDE DEF T
  <2>1. T \in SUBSET Nat
    BY DEF T
  <2> QED
    BY <1>1, <1>2, <2>1, NatSetInduction
<1> QED
  BY <1>3

(* The values a fold passes through. *)
Passes(fold, base, seq, n, h) ==
    /\ DOMAIN h = 0..n /\ h[0] = base
    /\ \A k \in 1..n : h[k] = FoldedBy(fold, h[k - 1], seq[k])

LEMMA FoldPasses ==
    ASSUME NEW fold, NEW base, NEW seq, NEW n \in Nat, NEW g, IsFoldOf(fold, base, seq, 1..n, g)
    PROVE  \E h : Passes(fold, base, seq, n, h) /\ g[1..n] = h[n]
<1> DEFINE h == [k \in 0..n |-> g[1..k]]
<1>1. \A k \in 0..n : 1..k \in SUBSET (1..n) /\ g[1..k] = FoldOf(fold, base, seq, g, 1..k)
  BY DEF IsFoldOf
<1>2. h[0] = base
  <2>1. 0 \in 0..n /\ 1..0 = {}
    OBVIOUS
  <2> QED
    BY <1>1, <2>1 DEF FoldOf
<1>3. ASSUME NEW k \in 1..n PROVE h[k] = FoldedBy(fold, h[k - 1], seq[k])
  <2>1. k \in 0..n /\ k - 1 \in 0..n /\ k \in 1..k /\ 1..k \in SUBSET (1..n)
    OBVIOUS
  <2>2. Max(1..k) \in 1..k /\ Max(1..k) >= k
    BY <2>1, GreatestIs
  <2>3. Max(1..k) = k
    BY <2>1, <2>2
  <2>4. (1..k) \ {k} = 1..(k - 1)
    BY <2>1
  <2>5. g[1..k] = FoldedBy(fold, g[1..(k - 1)], seq[k])
    BY <1>1, <2>1, <2>3, <2>4 DEF FoldOf
  <2> QED
    BY <2>1, <2>5
<1>4. DOMAIN h = 0..n /\ n \in 0..n /\ h[n] = g[1..n]
  OBVIOUS
<1> HIDE DEF h
<1> QED
  BY <1>2, <1>3, <1>4 DEF Passes

LEMMA ChosenPasses ==
    ASSUME NEW fold, NEW base, NEW seq, NEW n \in Nat
    PROVE  \E h : Passes(fold, base, seq, n, h) /\ ChosenFold(fold, base, seq, n)[1..n] = h[n]
<1>1. IsFoldOf(fold, base, seq, 1..n, ChosenFold(fold, base, seq, n))
  BY FoldOfExists DEF ChosenFold
<1> QED
  BY <1>1, FoldPasses

LEMMA JoinedPasses ==
    ASSUME NEW seq, NEW n \in Nat, DOMAIN seq = 1..n
    PROVE  \E h : Passes("results", Voiced(<<>>), seq, n, h) /\ JoinedResults(seq) = h[n]
<1>1. JoinedResults(seq) = ChosenFold("results", Voiced(<<>>), seq, n)[1..n]
  BY DEF JoinedResults, FoldLeft, MapThenFoldSet, ChosenFold, IsFoldOf, FoldOf, FoldedBy
<1> QED
  BY <1>1, ChosenPasses

LEMMA TotalPasses ==
    ASSUME NEW seq, NEW n \in Nat, DOMAIN seq = 1..n
    PROVE  \E h : Passes("length", 0, seq, n, h) /\ TotalFrames(seq) = h[n]
<1>1. TotalFrames(seq) = ChosenFold("length", 0, seq, n)[1..n]
  BY DEF TotalFrames, FoldLeft, MapThenFoldSet, ChosenFold, IsFoldOf, FoldOf, FoldedBy, Overlap
<1> QED
  BY <1>1, ChosenPasses

Empty(seq) == [cursor |-> 0, frames |-> [p \in 1..TotalFrames(seq) |-> <<>>]]

LEMMA ConcatenatedPasses ==
    ASSUME NEW seq, NEW n \in Nat, DOMAIN seq = 1..n
    PROVE  \E h : Passes("buffer", Empty(seq), seq, n, h) /\ Concatenated(seq) = h[n].frames
<1>1. Concatenated(seq) = ChosenFold("buffer", Empty(seq), seq, n)[1..n].frames
  BY DEF Concatenated, FoldLeft, MapThenFoldSet, ChosenFold, IsFoldOf, FoldOf, FoldedBy, Buffered, Written, Empty
<1> QED
  BY <1>1, ChosenPasses

-----------------------------------------------------------------------------
(* Audio, and what a crossfade makes of it. *)
IsAudio(a) == \E S : a \in Seq(S)
IsResult(r) == r = Nothing \/ (r = Voiced(r.audio) /\ IsAudio(r.audio))

LEMMA AudioFacts ==
    ASSUME NEW a, IsAudio(a)
    PROVE  Len(a) \in Nat /\ DOMAIN a = 1..Len(a) /\ a = [i \in 1..Len(a) |-> a[i]]
BY DEF IsAudio

LEMMA AudioMade ==
    ASSUME NEW n \in Nat, NEW a, a = [i \in 1..n |-> a[i]]
    PROVE  IsAudio(a) /\ Len(a) = n
<1> DEFINE S == {a[i] : i \in 1..n}
<1>1. a \in [1..n -> S]
  OBVIOUS
<1>2. a \in Seq(S) /\ Len(a) = n
  <2> HIDE DEF S
  <2> QED
    BY <1>1
<1> QED
  BY <1>2 DEF IsAudio

LEMMA AudioEqual ==
    ASSUME NEW a, NEW b, IsAudio(a), IsAudio(b), Len(a) = Len(b), \A i \in 1..Len(a) : a[i] = b[i]
    PROVE  a = b
BY AudioFacts

LEMMA LeastOfThree ==
    ASSUME NEW a \in Nat, NEW b \in Nat, NEW c \in Nat
    PROVE  Min({a, b, c}) \in Nat /\ Min({a, b, c}) <= a /\ Min({a, b, c}) <= b /\ Min({a, b, c}) <= c
<1>1. \E x \in {a, b, c} : \A y \in {a, b, c} : x =< y
  OBVIOUS
<1>2. PICK m : m = Min({a, b, c}) /\ m \in {a, b, c} /\ \A y \in {a, b, c} : m =< y
  BY <1>1 DEF Min
<1> QED
  BY <1>2

LEMMA OverlapIs ==
    ASSUME NEW n \in Nat, NEW c, IsAudio(c)
    PROVE  Overlap(n, c) \in Nat /\ Overlap(n, c) <= n /\ Overlap(n, c) <= Len(c)
<1>1. Crossfade \in Nat /\ Len(c) \in Nat
  BY LongFormAssumption, AudioFacts
<1> QED
  BY <1>1, LeastOfThree DEF Overlap

LEMMA FirstOf ==
    ASSUME NEW S, NEW s \in Seq(S), NEW k \in Nat, k <= Len(s)
    PROVE  SubSeq(s, 1, k) \in Seq(S) /\ Len(SubSeq(s, 1, k)) = k /\ \A i \in 1..k : SubSeq(s, 1, k)[i] = s[i]
OBVIOUS

LEMMA LastOf ==
    ASSUME NEW S, NEW s \in Seq(S), NEW k \in Nat, NEW m \in Nat, m = Len(s), k <= m
    PROVE  /\ SubSeq(s, k + 1, m) \in Seq(S) /\ Len(SubSeq(s, k + 1, m)) = m - k
           /\ \A i \in 1..(m - k) : SubSeq(s, k + 1, m)[i] = s[k + i]
OBVIOUS

LEMMA LargerSeq == ASSUME NEW S, NEW T, S \subseteq T, NEW s \in Seq(S) PROVE s \in Seq(T)
<1>1. Len(s) \in Nat /\ s = [i \in 1..Len(s) |-> s[i]] /\ \A i \in 1..Len(s) : s[i] \in T
  OBVIOUS
<1>2. s \in [1..Len(s) -> T]
  BY <1>1
<1> QED
  BY <1>1, <1>2

LEMMA TwoPieces ==
    ASSUME NEW S, NEW s \in Seq(S), NEW t \in Seq(S), NEW n \in Nat, NEW m \in Nat, n = Len(s), m = Len(t)
    PROVE  /\ s \o t \in Seq(S) /\ Len(s \o t) = n + m
           /\ \A p \in 1..(n + m) : (s \o t)[p] = IF p <= n THEN s[p] ELSE t[p - n]
BY ConcatProperties

(* Three pieces, one after the other. *)
LEMMA ThreePieces ==
    ASSUME NEW a, NEW b, NEW c, IsAudio(a), IsAudio(b), IsAudio(c),
           NEW na \in Nat, NEW nb \in Nat, NEW nc \in Nat, na = Len(a), nb = Len(b), nc = Len(c)
    PROVE  /\ IsAudio(a \o b \o c) /\ Len(a \o b \o c) = na + nb + nc
           /\ \A p \in 1..(na + nb + nc) :
                 (a \o b \o c)[p] = IF p <= na THEN a[p] ELSE IF p <= na + nb THEN b[p - na] ELSE c[p - (na + nb)]
<1>1. PICK A, B, C : a \in Seq(A) /\ b \in Seq(B) /\ c \in Seq(C)
  BY DEF IsAudio
<1>2. PICK S : A \subseteq S /\ B \subseteq S /\ C \subseteq S
  <2>1. A \subseteq A \cup B \cup C /\ B \subseteq A \cup B \cup C /\ C \subseteq A \cup B \cup C
    OBVIOUS
  <2> QED
    BY <2>1
<1>3. a \in Seq(S) /\ b \in Seq(S) /\ c \in Seq(S)
  BY <1>1, <1>2, LargerSeq
<1>4. PICK nd \in Nat : nd = na + nb
  OBVIOUS
<1>41. PICK d : d = a \o b
  OBVIOUS
<1>5. d \in Seq(S) /\ Len(d) = nd /\ \A p \in 1..nd : d[p] = IF p <= na THEN a[p] ELSE b[p - na]
  BY <1>3, <1>4, <1>41, TwoPieces
<1>6. /\ d \o c \in Seq(S) /\ Len(d \o c) = nd + nc
      /\ \A p \in 1..(nd + nc) : (d \o c)[p] = IF p <= nd THEN d[p] ELSE c[p - nd]
  <2>1. d \in Seq(S) /\ c \in Seq(S) /\ nd = Len(d) /\ nc = Len(c)
    BY <1>3, <1>5
  <2> QED
    BY <2>1, TwoPieces
<1>7. ASSUME NEW p \in 1..(na + nb + nc)
      PROVE  (d \o c)[p] = IF p <= na THEN a[p] ELSE IF p <= na + nb THEN b[p - na] ELSE c[p - (na + nb)]
  <2>1. p <= nd => p \in 1..nd
    BY <1>4
  <2>2. p <= na => p <= nd
    BY <1>4
  <2> QED
    BY <1>4, <1>5, <1>6, <2>1, <2>2
<1>8. IsAudio(d \o c)
  BY <1>6 DEF IsAudio
<1> QED
  BY <1>4, <1>41, <1>6, <1>7, <1>8

(* The pieces of an append, with their lengths named. *)
Mixed(audio, c, kept, overlap) ==
    SubSeq(audio, 1, kept) \o [i \in 1..overlap |-> Blend(audio[kept + i], c[i], i, overlap)] \o SubSeq(c, overlap + 1, Len(c))

(* b is audio and c with an overlap, of the lengths n and m. *)
IsMix(b, audio, c, n, m, overlap, kept) ==
    /\ IsAudio(b) /\ Len(b) = kept + m
    /\ \A p \in 1..(kept + m) :
          b[p] = IF p <= kept THEN audio[p]
                 ELSE IF p <= n THEN Blend(audio[p], c[p - kept], p - kept, overlap) ELSE c[p - kept]

LEMMA MixedPieces ==
    ASSUME NEW audio, NEW c, NEW S, NEW T, audio \in Seq(S), c \in Seq(T),
           NEW n \in Nat, n = Len(audio), NEW m \in Nat, m = Len(c),
           NEW overlap \in Nat, overlap <= m, NEW kept \in Nat, n = kept + overlap
    PROVE  IsMix(Mixed(audio, c, kept, overlap), audio, c, n, m, overlap, kept)
<1>1. PICK first, mid, last, r : /\ first = SubSeq(audio, 1, kept)
                                 /\ mid = [i \in 1..overlap |-> Blend(audio[kept + i], c[i], i, overlap)]
                                 /\ last = SubSeq(c, overlap + 1, m)
                                 /\ r = Mixed(audio, c, kept, overlap)
  OBVIOUS
<1>2. r = first \o mid \o last
  BY <1>1 DEF Mixed
<1>3. IsAudio(first) /\ Len(first) = kept /\ \A p \in 1..kept : first[p] = audio[p]
  <2>1. kept <= Len(audio)
    OBVIOUS
  <2> QED
    BY <1>1, <2>1, FirstOf DEF IsAudio
<1>4. IsAudio(mid) /\ Len(mid) = overlap /\ \A p \in 1..overlap : mid[p] = Blend(audio[kept + p], c[p], p, overlap)
  <2>1. mid = [i \in 1..overlap |-> mid[i]] /\ \A p \in 1..overlap : mid[p] = Blend(audio[kept + p], c[p], p, overlap)
    BY <1>1
  <2> QED
    BY <2>1, AudioMade
<1>5. IsAudio(last) /\ Len(last) = m - overlap /\ \A p \in 1..(m - overlap) : last[p] = c[overlap + p]
  <2>1. SubSeq(c, overlap + 1, m) \in Seq(T) /\ Len(SubSeq(c, overlap + 1, m)) = m - overlap
    BY LastOf
  <2>2. \A i \in 1..(m - overlap) : SubSeq(c, overlap + 1, m)[i] = c[overlap + i]
    BY LastOf
  <2> QED
    BY <1>1, <2>1, <2>2 DEF IsAudio
<1>51. PICK rest \in Nat : rest = m - overlap
  <2>1. m - overlap \in Nat
    OBVIOUS
  <2> QED
    BY <2>1
<1>6. /\ IsAudio(r) /\ Len(r) = kept + overlap + rest
      /\ \A p \in 1..(kept + overlap + rest) :
            r[p] = IF p <= kept THEN first[p] ELSE IF p <= kept + overlap THEN mid[p - kept] ELSE last[p - (kept + overlap)]
  <2>1. IsAudio(first) /\ IsAudio(mid) /\ IsAudio(last) /\ kept = Len(first) /\ overlap = Len(mid) /\ rest = Len(last)
    BY <1>3, <1>4, <1>5, <1>51
  <2> QED
    BY <1>2, <2>1, ThreePieces
<1>7. kept + overlap + rest = kept + m
  BY <1>51
<1>8. ASSUME NEW p \in 1..(kept + m)
      PROVE  r[p] = IF p <= kept THEN audio[p]
                    ELSE IF p <= n THEN Blend(audio[p], c[p - kept], p - kept, overlap) ELSE c[p - kept]
  <2>1. CASE p <= kept
    <3>1. p \in 1..kept
      BY <2>1
    <3> QED
      BY <1>3, <1>6, <1>7, <2>1, <3>1
  <2>2. CASE ~(p <= kept) /\ p <= n
    <3>1. p - kept \in 1..overlap /\ kept + (p - kept) = p /\ p <= kept + overlap
      BY <2>2
    <3> QED
      BY <1>4, <1>6, <1>7, <2>2, <3>1
  <2>3. CASE ~(p <= kept) /\ ~(p <= n)
    <3>1. p - (kept + overlap) \in 1..(m - overlap) /\ overlap + (p - (kept + overlap)) = p - kept /\ ~(p <= kept + overlap)
      BY <2>3
    <3> QED
      BY <1>5, <1>6, <1>7, <2>3, <3>1
  <2> QED
    BY <2>1, <2>2, <2>3
<1> QED
  BY <1>1, <1>6, <1>7, <1>8 DEF IsMix

LEMMA AppendedIs ==
    ASSUME NEW audio, NEW c, IsAudio(audio), IsAudio(c)
    PROVE  \E n, m, overlap, kept :
              /\ n \in Nat /\ m \in Nat /\ overlap \in Nat /\ kept \in Nat /\ overlap <= m /\ n = kept + overlap
              /\ n = Len(audio) /\ m = Len(c) /\ overlap = Overlap(n, c)
              /\ IsMix(Appended(audio, c), audio, c, n, m, overlap, kept)
<1>1. PICK n \in Nat, m \in Nat : n = Len(audio) /\ m = Len(c)
  BY AudioFacts
<1>2. PICK overlap \in Nat : overlap = Overlap(n, c) /\ overlap <= n /\ overlap <= m
  BY <1>1, OverlapIs
<1>3. PICK kept \in Nat : n = kept + overlap
  <2>1. n - overlap \in Nat /\ n = (n - overlap) + overlap
    BY <1>2
  <2> QED
    BY <2>1
<1>4. PICK S, T : audio \in Seq(S) /\ c \in Seq(T)
  BY DEF IsAudio
<1>5. PICK r : r = Mixed(audio, c, kept, overlap)
  OBVIOUS
<1>6. Appended(audio, c) = r
  <2>1. Min({Crossfade, Len(audio), Len(c)}) = overlap
    BY <1>1, <1>2 DEF Overlap
  <2>2. Len(audio) - overlap = kept
    BY <1>1, <1>2, <1>3
  <2> QED
    BY <1>5, <2>1, <2>2 DEF Appended, Mixed
<1>7. IsMix(r, audio, c, n, m, overlap, kept)
  <2>1. /\ audio \in Seq(S) /\ c \in Seq(T) /\ n = Len(audio) /\ m = Len(c) /\ overlap <= m /\ n = kept + overlap
        /\ r = Mixed(audio, c, kept, overlap)
    BY <1>1, <1>2, <1>3, <1>4, <1>5
  <2> QED
    BY <2>1, MixedPieces
<1>8. /\ n \in Nat /\ m \in Nat /\ overlap \in Nat /\ kept \in Nat /\ overlap <= m /\ n = kept + overlap
      /\ n = Len(audio) /\ m = Len(c) /\ overlap = Overlap(n, c)
      /\ IsMix(Appended(audio, c), audio, c, n, m, overlap, kept)
  BY <1>1, <1>2, <1>3, <1>6, <1>7, Zenon
<1> QED
  BY <1>8, Zenon

-----------------------------------------------------------------------------
(* Results: nothing, or audio. *)
LEMMA ResultFacts ==
    /\ IsResult(Nothing) /\ ~Nothing.ok
    /\ \A a : Voiced(a).ok /\ Voiced(a).audio = a
    /\ \A a : IsAudio(a) => IsResult(Voiced(a))
    /\ \A r : IsResult(r) => /\ IsAudio(r.audio)
                             /\ r.ok => r = Voiced(r.audio)
<1>1. Nothing = [ok |-> FALSE, audio |-> <<>>] /\ \A a : Voiced(a) = [ok |-> TRUE, audio |-> a]
  BY DEF Nothing, Voiced
<1>2. Nothing.audio = <<>> /\ ~Nothing.ok /\ \A a : Voiced(a).ok /\ Voiced(a).audio = a
  BY <1>1
<1>3. IsAudio(<<>>)
  BY EmptySeq DEF IsAudio
<1> QED
  BY <1>2, <1>3 DEF IsResult

LEMMA AccumulatedIs ==
    ASSUME NEW v, NEW r, IsResult(v), IsResult(r)
    PROVE  /\ IsResult(Accumulated(v, r))
           /\ Accumulated(v, r).ok =>
                 /\ v.ok /\ r.ok /\ ~TooLong(v.audio, r.audio)
                 /\ Accumulated(v, r) = Voiced(Appended(v.audio, r.audio))
<1>1. CASE ~v.ok \/ ~r.ok \/ TooLong(v.audio, r.audio)
  <2>1. Accumulated(v, r) = Nothing
    BY <1>1 DEF Accumulated
  <2> QED
    BY <2>1, ResultFacts
<1>2. CASE v.ok /\ r.ok /\ ~TooLong(v.audio, r.audio)
  <2>1. Accumulated(v, r) = Voiced(Appended(v.audio, r.audio))
    BY <1>2 DEF Accumulated
  <2>2. IsAudio(v.audio) /\ IsAudio(r.audio)
    BY ResultFacts
  <2>3. IsAudio(Appended(v.audio, r.audio))
    BY <2>2, AppendedIs DEF IsMix
  <2> QED
    BY <1>2, <2>1, <2>3, ResultFacts
<1> QED
  BY <1>1, <1>2

LEMMA PassesTyped ==
    ASSUME NEW n \in Nat, NEW seq, \A i \in 1..n : IsResult(seq[i]), NEW h, Passes("results", Voiced(<<>>), seq, n, h)
    PROVE  \A k \in 0..n : IsResult(h[k])
<1> DEFINE T == {k \in Nat : k <= n => IsResult(h[k])}
<1>1. 0 \in T
  <2>1. IsAudio(<<>>)
    BY EmptySeq DEF IsAudio
  <2> QED
    BY <2>1, ResultFacts DEF Passes
<1>2. ASSUME NEW k \in T PROVE k + 1 \in T
  <2> SUFFICES ASSUME k + 1 <= n PROVE IsResult(h[k + 1])
    OBVIOUS
  <2>1. k \in Nat /\ k <= n /\ k + 1 \in 1..n /\ (k + 1) - 1 = k
    OBVIOUS
  <2>2. IsResult(h[k]) /\ IsResult(seq[k + 1])
    BY <2>1
  <2>3. h[k + 1] = Accumulated(h[k], seq[k + 1])
    BY <2>1 DEF Passes, FoldedBy
  <2> QED
    BY <2>2, <2>3, AccumulatedIs
<1>3. T = Nat
  <2> HIDE DEF T
  <2>1. T \in SUBSET Nat
    BY DEF T
  <2> QED
    BY <1>1, <1>2, <2>1, NatSetInduction
<1> QED
  BY <1>3

LEMMA JoinedTyped ==
    ASSUME NEW n \in Nat, NEW seq, DOMAIN seq = 1..n, \A i \in 1..n : IsResult(seq[i])
    PROVE  IsResult(JoinedResults(seq))
<1>1. PICK h : Passes("results", Voiced(<<>>), seq, n, h) /\ JoinedResults(seq) = h[n]
  BY JoinedPasses
<1>2. \A k \in 0..n : IsResult(h[k])
  BY <1>1, PassesTyped
<1> QED
  BY <1>1, <1>2

(* Pieces of a text are texts, and there are some. *)
LEMMA RoundedUp ==
    ASSUME NEW l \in Nat, NEW n \in Nat \ {0}
    PROVE  (l + n - 1) \div n \in Nat /\ (l > 0 => (l + n - 1) \div n > 0)
<1>1. PICK a \in Nat : a = l + n - 1
  <2>1. l + n - 1 \in Nat
    OBVIOUS
  <2> QED
    BY <2>1
<1>2. PICK q \in Int : q = a \div n
  OBVIOUS
<1>3. n * q <= a /\ a < n * q + n
  BY <1>2
<1>4. q >= 0
  <2> SUFFICES ASSUME q <= -1 PROVE FALSE
    BY <1>2
  <2>1. n * q <= n * (-1)
    BY <1>2
  <2> QED
    BY <1>1, <1>3, <2>1
<1>5. l > 0 => q > 0
  <2> SUFFICES ASSUME l > 0, q = 0 PROVE FALSE
    BY <1>2, <1>4
  <2>1. n * q = 0
    OBVIOUS
  <2> QED
    BY <1>1, <1>3, <2>1
<1> QED
  BY <1>1, <1>2, <1>4, <1>5

AreTexts(pieces, q) ==
    /\ q \in Nat /\ DOMAIN pieces = 1..q /\ pieces = [k \in 1..q |-> pieces[k]]
    /\ \A k \in 1..q : pieces[k] \in Seq(Words)

LEMMA PiecesAre ==
    ASSUME NEW words \in Seq(Words), NEW n \in Nat \ {0}
    PROVE  \E q : AreTexts(Pieces(words, n), q) /\ (words # <<>> => q > 0)
<1>1. PICK l \in Nat : l = Len(words)
  OBVIOUS
<1>2. PICK q \in Nat : q = (l + n - 1) \div n /\ (l > 0 => q > 0)
  BY RoundedUp
<1>3. Pieces(words, n) = [k \in 1..q |-> SubSeq(words, (k - 1) * n + 1, Min({k * n, l}))]
  BY <1>1, <1>2 DEF Pieces
<1>4. ASSUME NEW k \in 1..q PROVE SubSeq(words, (k - 1) * n + 1, Min({k * n, l})) \in Seq(Words)
  <2>1. (k - 1) * n \in Nat /\ k * n \in Nat
    OBVIOUS
  <2>2. PICK a, b : a = (k - 1) * n + 1 /\ b = Min({k * n, l}) /\ a \in Nat /\ a >= 1 /\ b \in Nat /\ b <= l
    <3>1. Min({k * n, l, l}) \in Nat /\ Min({k * n, l, l}) <= l
      BY <2>1, LeastOfThree
    <3>2. {k * n, l, l} = {k * n, l}
      OBVIOUS
    <3>3. (k - 1) * n + 1 \in Nat /\ (k - 1) * n + 1 >= 1
      BY <2>1
    <3> QED
      BY <3>1, <3>2, <3>3
  <2>3. \A i \in a..b : i \in 1..Len(words)
    BY <1>1, <2>2
  <2>4. \A i \in a..b : words[i] \in Words
    BY <2>3, ElementOfSeq
  <2>5. SubSeq(words, a, b) \in Seq(Words)
    <3>1. a \in Int /\ b \in Int
      BY <2>2
    <3> QED
      BY <2>4, <3>1, SubSeqProperties
  <2> QED
    BY <2>2, <2>5
<1>5. words # <<>> => l > 0
  BY <1>1
<1>6. PICK p : p = Pieces(words, n)
  OBVIOUS
<1>7. AreTexts(p, q)
  <2>1. p = [k \in 1..q |-> SubSeq(words, (k - 1) * n + 1, Min({k * n, l}))]
    BY <1>3, <1>6
  <2>2. DOMAIN p = 1..q /\ p = [k \in 1..q |-> p[k]] /\ \A k \in 1..q : p[k] \in Seq(Words)
    BY <1>4, <2>1
  <2> QED
    BY <2>2 DEF AreTexts
<1> QED
  BY <1>2, <1>5, <1>6, <1>7, Zenon

-----------------------------------------------------------------------------
(* generate_one: the recursion is at most MaxRetries deep, so there is a    *)
(* function that it defines.                                                *)
Depths == 0..MaxRetries
Texts3 == Engines \X Seq(Words) \X (0..Modulus - 1) \X Depths

Halves(words) == Pieces(words, Max({MinRetry, Len(words) \div 2}))
Half(x, i) == <<x[1], Halves(x[2])[i], Offset(x[3], (x[4] + 1) * 1000 + i - 1), x[4] + 1>>
Finished(x) == Tried(x[1], x[2], x[3]) # <<>> /\ Outcome(x[1], x[2], Tried(x[1], x[2], x[3])[1]) = "sound"
Given(x) == x[4] = MaxRetries \/ Len(x[2]) <= MinRetry \/ Len(Halves(x[2])) = 1
OneOf(g, x) ==
    IF Finished(x) THEN Voiced(Frames(x[2], Tried(x[1], x[2], x[3])[1]))
    ELSE IF Given(x) THEN Nothing
    ELSE JoinedResults([i \in DOMAIN Halves(x[2]) |-> g[Half(x, i)]])
IsOne(g) == g = [x \in Texts3 |-> OneOf(g, x)]

LEMMA OneIsChosen == One = CHOOSE g : IsOne(g)
BY DEF One, IsOne, OneOf, Texts3, Depths, Finished, Given, Halves, Half

LEMMA OffsetIs == ASSUME NEW seed \in Nat, NEW by \in Nat PROVE Offset(seed, by) \in 0..Modulus - 1
<1>1. Modulus \in Nat \ {0}
  BY LongFormAssumption
<1>2. seed + by \in Nat
  OBVIOUS
<1> QED
  BY <1>1, <1>2 DEF Offset

LEMMA HalvesAre ==
    ASSUME NEW words \in Seq(Words)
    PROVE  \E q : AreTexts(Halves(words), q)
<1>1. PICK m \in Nat \ {0} : m = MinRetry
  BY LongFormAssumption
<1>2. PICK l \in Nat : l = Len(words) \div 2
  OBVIOUS
<1>3. PICK n : n = Max({m, l})
  OBVIOUS
<1>4. n \in Nat \ {0}
  <2>1. \E x \in {m, l} : \A y \in {m, l} : x >= y
    OBVIOUS
  <2>2. n \in {m, l} /\ \A y \in {m, l} : n >= y
    BY <1>3, <2>1 DEF Max
  <2> QED
    BY <2>2
<1>5. Halves(words) = Pieces(words, n)
  BY <1>1, <1>2, <1>3 DEF Halves
<1>6. \E q : AreTexts(Pieces(words, n), q)
  BY <1>4, PiecesAre, Zenon
<1> QED
  BY <1>5, <1>6, Zenon

(* A half is a text one level deeper. *)
LEMMA HalfIs ==
    ASSUME NEW x \in Texts3, x[4] # MaxRetries
    PROVE  /\ \A i \in DOMAIN Halves(x[2]) : Half(x, i) \in Texts3 /\ Half(x, i)[4] = x[4] + 1
           /\ \E q \in Nat : DOMAIN Halves(x[2]) = 1..q
<1>1. x[1] \in Engines /\ x[2] \in Seq(Words) /\ x[3] \in 0..Modulus - 1 /\ x[4] \in Depths
  BY DEF Texts3
<1>2. PICK q \in Nat : DOMAIN Halves(x[2]) = 1..q /\ \A i \in 1..q : Halves(x[2])[i] \in Seq(Words)
  <2>1. PICK q : AreTexts(Halves(x[2]), q)
    BY <1>1, HalvesAre, Zenon
  <2> QED
    BY <2>1 DEF AreTexts
<1>3. x[4] + 1 \in Depths /\ x[3] \in Nat /\ x[4] \in Nat
  <2>1. Modulus \in Nat
    BY LongFormAssumption
  <2> QED
    BY <1>1, <2>1 DEF Depths, MaxRetries
<1>4. ASSUME NEW i \in 1..q PROVE Offset(x[3], (x[4] + 1) * 1000 + i - 1) \in 0..Modulus - 1
  <2>1. (x[4] + 1) * 1000 + i - 1 \in Nat
    BY <1>3
  <2>2. PICK by, seed : by = (x[4] + 1) * 1000 + i - 1 /\ seed = x[3]
    OBVIOUS
  <2>3. by \in Nat /\ seed \in Nat
    BY <1>3, <2>1, <2>2
  <2>4. Offset(seed, by) \in 0..Modulus - 1
    BY <2>3, OffsetIs
  <2> QED
    BY <2>2, <2>4, Zenon
<1>5. ASSUME NEW i \in 1..q PROVE Half(x, i) \in Texts3 /\ Half(x, i)[4] = x[4] + 1
  <2>1. PICK offset : offset = Offset(x[3], (x[4] + 1) * 1000 + i - 1)
    OBVIOUS
  <2>2. PICK half : half = Halves(x[2])[i]
    OBVIOUS
  <2>3. offset \in 0..Modulus - 1 /\ half \in Seq(Words)
    BY <1>2, <1>4, <2>1, <2>2
  <2>4. Half(x, i) = <<x[1], half, offset, x[4] + 1>>
    BY <2>1, <2>2 DEF Half
  <2>5. <<x[1], half, offset, x[4] + 1>> \in Texts3
    BY <1>1, <1>3, <2>3 DEF Texts3
  <2> QED
    BY <2>4, <2>5
<1> QED
  BY <1>2, <1>5

LEMMA OneOfAgrees ==
    ASSUME NEW g, NEW h, NEW x \in Texts3, \A y \in Texts3 : y[4] = x[4] + 1 => g[y] = h[y]
    PROVE  OneOf(g, x) = OneOf(h, x)
<1>1. CASE Finished(x) \/ Given(x)
  BY <1>1 DEF OneOf
<1>2. CASE ~Finished(x) /\ ~Given(x)
  <2>1. x[4] # MaxRetries
    BY <1>2 DEF Given
  <2>2. \A i \in DOMAIN Halves(x[2]) : g[Half(x, i)] = h[Half(x, i)]
    BY <2>1, HalfIs
  <2>3. [i \in DOMAIN Halves(x[2]) |-> g[Half(x, i)]] = [i \in DOMAIN Halves(x[2]) |-> h[Half(x, i)]]
    BY <2>2
  <2> QED
    BY <1>2, <2>3 DEF OneOf
<1> QED
  BY <1>1, <1>2

LEMMA OneExists == IsOne(One)
<1> DEFINE g2 == [x \in Texts3 |-> OneOf(<<>>, x)]
           g1 == [x \in Texts3 |-> OneOf(g2, x)]
           g0 == [x \in Texts3 |-> OneOf(g1, x)]
<1>1. \A x \in Texts3 : x[4] \in {0, 1, 2}
  BY DEF Texts3, Depths, MaxRetries
<1>2. \A x \in Texts3 : g2[x] = OneOf(<<>>, x) /\ g1[x] = OneOf(g2, x) /\ g0[x] = OneOf(g1, x)
  OBVIOUS
<1>20. g0 = [x \in Texts3 |-> OneOf(g1, x)]
  OBVIOUS
<1> HIDE DEF g0, g1, g2
<1>3. \A x \in Texts3 : x[4] = 2 => g1[x] = g2[x]
  <2> SUFFICES ASSUME NEW x \in Texts3, x[4] = 2 PROVE g1[x] = g2[x]
    OBVIOUS
  <2>1. \A y \in Texts3 : y[4] # x[4] + 1
    BY <1>1
  <2>2. OneOf(<<>>, x) = OneOf(g2, x)
    BY <2>1, OneOfAgrees
  <2> QED
    BY <1>2, <2>2
<1>4. \A x \in Texts3 : x[4] \in {1, 2} => g0[x] = g1[x]
  <2> SUFFICES ASSUME NEW x \in Texts3, x[4] \in {1, 2} PROVE g0[x] = g1[x]
    OBVIOUS
  <2>1. \A y \in Texts3 : y[4] = x[4] + 1 => g1[y] = g2[y]
    BY <1>1, <1>3
  <2>2. OneOf(g1, x) = OneOf(g2, x)
    BY <2>1, OneOfAgrees
  <2> QED
    BY <1>2, <2>2
<1>5. \A x \in Texts3 : OneOf(g1, x) = OneOf(g0, x)
  <2> SUFFICES ASSUME NEW x \in Texts3 PROVE OneOf(g1, x) = OneOf(g0, x)
    OBVIOUS
  <2>1. \A y \in Texts3 : y[4] = x[4] + 1 => g1[y] = g0[y]
    BY <1>1, <1>4
  <2> QED
    BY <2>1, OneOfAgrees
<1>6. IsOne(g0)
  BY <1>20, <1>5 DEF IsOne
<1> QED
  BY <1>6, OneIsChosen

LEMMA OneTyped == \A x \in Texts3 : IsResult(One[x])
<1>1. \A x \in Texts3 : One[x] = OneOf(One, x) /\ x[4] \in {0, 1, 2}
  BY OneExists DEF IsOne, Texts3, Depths, MaxRetries
<1>2. ASSUME NEW x \in Texts3, \A y \in Texts3 : y[4] = x[4] + 1 => IsResult(One[y])
      PROVE  IsResult(One[x])
  <2>1. CASE Finished(x)
    <3>1. PICK seed : seed = Tried(x[1], x[2], x[3])[1]
      OBVIOUS
    <3>2. PICK words : words = x[2] /\ words \in Seq(Words)
      BY DEF Texts3
    <3>3. PICK n \in Nat : n = Len(words) /\ DOMAIN words = 1..n
      BY <3>2
    <3>4. PICK a : a = Frames(words, seed)
      OBVIOUS
    <3>5. a = [i \in 1..n |-> a[i]]
      BY <3>3, <3>4 DEF Frames
    <3>6. IsAudio(a)
      BY <3>5, AudioMade
    <3>7. One[x] = Voiced(a)
      BY <1>1, <2>1, <3>1, <3>2, <3>4 DEF OneOf
    <3> QED
      BY <3>6, <3>7, ResultFacts
  <2>2. CASE ~Finished(x) /\ Given(x)
    BY <1>1, <2>2, ResultFacts DEF OneOf
  <2>3. CASE ~Finished(x) /\ ~Given(x)
    <3>1. x[4] # MaxRetries
      BY <2>3 DEF Given
    <3>2. PICK q \in Nat : DOMAIN Halves(x[2]) = 1..q
      BY <3>1, HalfIs
    <3>3. PICK seq : seq = [i \in DOMAIN Halves(x[2]) |-> One[Half(x, i)]]
      OBVIOUS
    <3>4. DOMAIN seq = 1..q /\ \A i \in 1..q : IsResult(seq[i])
      BY <1>2, <3>1, <3>2, <3>3, HalfIs
    <3>5. IsResult(JoinedResults(seq))
      BY <3>4, JoinedTyped
    <3> QED
      BY <1>1, <2>3, <3>3, <3>5 DEF OneOf
  <2> QED
    BY <2>1, <2>2, <2>3
<1>3. \A x \in Texts3 : x[4] = 2 => IsResult(One[x])
  <2>1. \A x, y \in Texts3 : x[4] = 2 => y[4] # x[4] + 1
    BY <1>1
  <2> QED
    BY <1>2, <2>1
<1>4. \A x \in Texts3 : x[4] = 1 => IsResult(One[x])
  <2>1. 1 + 1 = 2
    OBVIOUS
  <2> QED
    BY <1>2, <1>3, <2>1
<1>5. \A x \in Texts3 : x[4] = 0 => IsResult(One[x])
  <2>1. 0 + 1 = 1
    OBVIOUS
  <2> QED
    BY <1>2, <1>4, <2>1
<1> QED
  BY <1>1, <1>3, <1>4, <1>5

-----------------------------------------------------------------------------
(* A row of results appended one by one, as a job does it, is what          *)
(* concatenate_audio_chunks makes of all of them.                           *)

Agree(frames, audio, n, room) == \A p \in 1..room : p <= n => frames[p] = audio[p]

(* The buffer holds what was appended, and room for the rest. *)
Holds(buffer, audio, n, room) ==
    /\ n \in Nat /\ room \in Nat /\ IsAudio(audio) /\ Len(audio) = n /\ buffer.cursor = n
    /\ buffer.frames = [p \in 1..room |-> buffer.frames[p]]
    /\ Agree(buffer.frames, audio, n, room)

LEMMA WrittenIs ==
    ASSUME NEW frames, NEW audio, NEW c, NEW mix, NEW n \in Nat, NEW m \in Nat, NEW overlap \in Nat, NEW first \in Nat,
           NEW room \in Nat, NEW k \in Nat, n = first + overlap, k = first + m, k <= room,
           frames = [p \in 1..room |-> frames[p]], Agree(frames, audio, n, room),
           IsMix(mix, audio, c, n, m, overlap, first)
    PROVE  Agree(Written(frames, c, n, m, overlap, first), mix, k, room)
<1> SUFFICES ASSUME NEW p \in 1..room, p <= first + m
             PROVE  Written(frames, c, n, m, overlap, first)[p] = mix[p]
  BY DEF Agree
<1>0. /\ p <= n => frames[p] = audio[p]
      /\ mix[p] = IF p <= first THEN audio[p]
                  ELSE IF p <= n THEN Blend(audio[p], c[p - first], p - first, overlap) ELSE c[p - first]
  <2>1. p \in 1..(first + m)
    OBVIOUS
  <2> QED
    BY <2>1 DEF Agree, IsMix
<1>1. p \in 1..(first + m) /\ p \in DOMAIN frames
  OBVIOUS
<1>2. CASE p <= first
  <2>1. p <= n
    BY <1>2
  <2> QED
    BY <1>0, <1>1, <1>2, <2>1 DEF Written
<1>3. CASE ~(p <= first) /\ p <= n
  <2>1. p > first /\ ~(p > first + m)
    BY <1>1, <1>3
  <2> QED
    BY <1>0, <1>1, <1>3, <2>1 DEF Written
<1>4. CASE ~(p <= first) /\ ~(p <= n)
  <2>1. ~(p > first + m)
    BY <1>1
  <2> QED
    BY <1>0, <1>1, <1>4, <2>1 DEF Written
<1> QED
  BY <1>2, <1>3, <1>4

(* One chunk more. *)
LEMMA AppendStep ==
    ASSUME NEW buffer, NEW audio, NEW c, NEW n, NEW room, Holds(buffer, audio, n, room), IsAudio(c)
    PROVE  \E k \in Nat : /\ k = n + Len(c) - Overlap(n, c) /\ n <= k /\ Len(Appended(audio, c)) = k
                          /\ k <= room => Holds(Buffered(buffer, c), Appended(audio, c), k, room)
<1>1. PICK m, overlap, first :
         /\ n \in Nat /\ m \in Nat /\ overlap \in Nat /\ first \in Nat /\ overlap <= m /\ n = first + overlap
         /\ m = Len(c) /\ overlap = Overlap(n, c)
         /\ IsMix(Appended(audio, c), audio, c, n, m, overlap, first)
  <2>1. IsAudio(audio) /\ n = Len(audio)
    BY DEF Holds
  <2>2. PICK x, m, overlap, first :
         /\ x \in Nat /\ m \in Nat /\ overlap \in Nat /\ first \in Nat /\ overlap <= m /\ x = first + overlap
         /\ x = Len(audio) /\ m = Len(c) /\ overlap = Overlap(x, c)
         /\ IsMix(Appended(audio, c), audio, c, x, m, overlap, first)
    BY <2>1, AppendedIs, Zenon
  <2>3. x = n
    BY <2>1, <2>2
  <2>4. /\ n \in Nat /\ m \in Nat /\ overlap \in Nat /\ first \in Nat /\ overlap <= m /\ n = first + overlap
        /\ m = Len(c) /\ overlap = Overlap(n, c)
        /\ IsMix(Appended(audio, c), audio, c, n, m, overlap, first)
    BY <2>2, <2>3, Zenon
  <2> QED
    BY <2>4, Zenon
<1>2. PICK mix : mix = Appended(audio, c)
  OBVIOUS
<1>3. PICK k \in Nat : k = first + m /\ n <= k
  <2>1. first + m \in Nat /\ n <= first + m
    BY <1>1
  <2> QED
    BY <2>1
<1>4. k = n + Len(c) - Overlap(n, c)
  <2>1. k = n + m - overlap
    BY <1>1, <1>3
  <2> QED
    BY <1>1, <2>1
<1>5. IsAudio(mix) /\ Len(mix) = k
  BY <1>1, <1>2, <1>3 DEF IsMix
<1>6. ASSUME k <= room PROVE Holds(Buffered(buffer, c), mix, k, room)
  <2>1. PICK frames : frames = buffer.frames
    OBVIOUS
  <2>2. /\ room \in Nat /\ frames = [p \in 1..room |-> frames[p]] /\ buffer.cursor = n
        /\ Agree(frames, audio, n, room)
    BY <2>1 DEF Holds
  <2>4. Agree(Written(frames, c, n, m, overlap, first), mix, k, room)
    <3>1. IsMix(mix, audio, c, n, m, overlap, first)
      BY <1>1, <1>2
    <3> QED
      BY <1>1, <1>3, <1>6, <2>2, <3>1, WrittenIs
  <2>5. /\ Buffered(buffer, c).cursor = first + m
        /\ Buffered(buffer, c).frames = Written(frames, c, n, m, overlap, first)
    <3>1. Min({Crossfade, buffer.cursor, Len(c)}) = overlap /\ buffer.cursor - overlap = first
      <4>1. Min({Crossfade, buffer.cursor, Len(c)}) = overlap
        BY <1>1, <2>2 DEF Overlap
      <4>2. n - overlap = first
        BY <1>1
      <4> QED
        BY <2>2, <4>1, <4>2
    <3> QED
      BY <1>1, <2>1, <2>2, <3>1 DEF Buffered
  <2>6. DOMAIN frames = 1..room
    BY <2>2
  <2>7. Written(frames, c, n, m, overlap, first) = [p \in 1..room |-> Written(frames, c, n, m, overlap, first)[p]]
    BY <2>6 DEF Written
  <2> QED
    BY <1>3, <1>5, <2>2, <2>4, <2>5, <2>7 DEF Holds
<1>7. /\ k \in Nat /\ k = n + Len(c) - Overlap(n, c) /\ n <= k /\ Len(Appended(audio, c)) = k
      /\ k <= room => Holds(Buffered(buffer, c), Appended(audio, c), k, room)
  BY <1>2, <1>3, <1>4, <1>5, <1>6, Zenon
<1> QED
  BY <1>7, Zenon

LEMMA Upward ==
    ASSUME NEW n \in Nat, NEW S, S \in SUBSET Nat, 0 \in S, \A k \in Nat : k \in S /\ k + 1 <= n => k + 1 \in S
    PROVE  \A k \in 0..n : k \in S
<1> DEFINE T == {k \in Nat : k <= n => k \in S}
<1>1. T \in SUBSET Nat /\ 0 \in T
  OBVIOUS
<1>2. \A k \in T : k + 1 \in T
  OBVIOUS
<1>3. T = Nat
  <2> HIDE DEF T
  <2> QED
    BY <1>1, <1>2, NatSetInduction
<1> QED
  BY <1>3

LEMMA Downward ==
    ASSUME NEW n \in Nat, NEW S, S \in SUBSET Nat, n \in S, \A k \in Nat : k + 1 \in S /\ k + 1 <= n => k \in S
    PROVE  \A k \in 0..n : k \in S
<1> DEFINE T == {j \in Nat : j <= n => n - j \in S}
<1>1. T \in SUBSET Nat /\ 0 \in T
  OBVIOUS
<1>2. ASSUME NEW j \in T PROVE j + 1 \in T
  <2> SUFFICES ASSUME j + 1 <= n PROVE n - (j + 1) \in S
    OBVIOUS
  <2>1. n - j \in S /\ n - (j + 1) \in Nat /\ (n - (j + 1)) + 1 = n - j /\ n - j <= n
    OBVIOUS
  <2> QED
    BY <2>1
<1>3. T = Nat
  <2> HIDE DEF T
  <2> QED
    BY <1>1, <1>2, NatSetInduction
<1>4. \A k \in 0..n : n - k \in Nat /\ n - k <= n /\ n - (n - k) = k
  OBVIOUS
<1> QED
  BY <1>3, <1>4

LEMMA LengthStep ==
    ASSUME NEW audio, NEW c, NEW n, IsAudio(audio), IsAudio(c), n = Len(audio)
    PROVE  \E k \in Nat : k = n + Len(c) - Overlap(n, c) /\ n <= k /\ Len(Appended(audio, c)) = k /\ IsAudio(Appended(audio, c))
<1>1. PICK x, m, overlap, first :
         /\ x \in Nat /\ m \in Nat /\ overlap \in Nat /\ first \in Nat /\ overlap <= m /\ x = first + overlap
         /\ x = Len(audio) /\ m = Len(c) /\ overlap = Overlap(x, c)
         /\ IsMix(Appended(audio, c), audio, c, x, m, overlap, first)
  BY AppendedIs, Zenon
<1>2. PICK k \in Nat : k = first + m
  <2>1. first + m \in Nat
    BY <1>1
  <2> QED
    BY <2>1
<1>3. n <= k /\ k = x + m - overlap
  BY <1>1, <1>2
<1>4. Len(Appended(audio, c)) = k /\ IsAudio(Appended(audio, c))
  BY <1>1, <1>2 DEF IsMix
<1>5. k = n + Len(c) - Overlap(n, c)
  BY <1>1, <1>3
<1> QED
  BY <1>3, <1>4, <1>5, Zenon

LEMMA WholePasses ==
    ASSUME NEW n \in Nat \ {0}, NEW results, \A i \in 1..n : IsResult(results[i]),
           NEW audios, DOMAIN audios = 1..n, \A i \in 1..n : audios[i] = results[i].audio,
           NEW h, Passes("results", Voiced(<<>>), results, n, h), h[n].ok
    PROVE  /\ \A i \in 1..n : results[i].ok
           /\ TotalFrames(audios) <= MaxFrames
           /\ Voiced(Concatenated(audios)) = h[n]
<1>0. MaxFrames \in Nat /\ n \in 0..n /\ n \in 1..n /\ 0 \in 0..n
  BY LongFormAssumption
<1>1. \A k \in 0..n : IsResult(h[k])
  BY PassesTyped
<1>2. ASSUME NEW k \in Nat, k + 1 <= n
      PROVE  /\ k + 1 \in 1..n /\ k \in 0..n /\ k + 1 \in 0..n
             /\ h[k + 1] = Accumulated(h[k], results[k + 1])
             /\ IsResult(h[k]) /\ IsResult(results[k + 1])
  <2>1. k + 1 \in 1..n /\ k \in 0..n /\ k + 1 \in 0..n /\ (k + 1) - 1 = k
    BY <1>2
  <2> QED
    BY <1>1, <2>1 DEF Passes, FoldedBy
<1>3. \A k \in 0..n : h[k].ok
  <2> DEFINE S == {k \in Nat : h[k].ok}
  <2>1. S \in SUBSET Nat /\ n \in S
    OBVIOUS
  <2>2. ASSUME NEW k \in Nat, k + 1 \in S, k + 1 <= n PROVE k \in S
    <3>1. h[k + 1].ok /\ h[k + 1] = Accumulated(h[k], results[k + 1]) /\ IsResult(h[k]) /\ IsResult(results[k + 1])
      BY <1>2, <2>2
    <3>2. h[k].ok
      BY <3>1, AccumulatedIs
    <3> QED
      BY <3>2
  <2>3. \A k \in 0..n : k \in S
    <3> HIDE DEF S
    <3> QED
      BY <2>1, <2>2, Downward
  <2> QED
    BY <2>3
<1>4. ASSUME NEW k \in Nat, k + 1 <= n
      PROVE  /\ results[k + 1].ok /\ ~TooLong(h[k].audio, audios[k + 1])
             /\ h[k + 1].audio = Appended(h[k].audio, audios[k + 1])
             /\ IsAudio(h[k].audio) /\ IsAudio(audios[k + 1])
  <2>1. PICK v, r, w : v = h[k] /\ r = results[k + 1] /\ w = h[k + 1]
    OBVIOUS
  <2>2. w = Accumulated(v, r) /\ IsResult(v) /\ IsResult(r) /\ w.ok /\ audios[k + 1] = r.audio
    BY <1>2, <1>3, <1>4, <2>1
  <2>3. /\ r.ok /\ ~TooLong(v.audio, r.audio) /\ w = Voiced(Appended(v.audio, r.audio))
        /\ IsAudio(v.audio) /\ IsAudio(r.audio)
    BY <2>2, AccumulatedIs, ResultFacts
  <2>4. w.audio = Appended(v.audio, r.audio)
    BY <2>3, ResultFacts
  <2> QED
    BY <2>1, <2>2, <2>3, <2>4
<1>5. PICK t : Passes("length", 0, audios, n, t) /\ TotalFrames(audios) = t[n]
  BY TotalPasses
<1>6. PICK b : Passes("buffer", Empty(audios), audios, n, b) /\ Concatenated(audios) = b[n].frames
  BY ConcatenatedPasses
<1>7. ASSUME NEW k \in Nat, k + 1 <= n
      PROVE  /\ t[k + 1] = t[k] + Len(audios[k + 1]) - Overlap(t[k], audios[k + 1])
             /\ b[k + 1] = Buffered(b[k], audios[k + 1])
  <2>1. k + 1 \in 1..n /\ (k + 1) - 1 = k
    BY <1>7
  <2> QED
    BY <1>5, <1>6, <2>1 DEF Passes, FoldedBy
<1>8. h[0].audio = <<>> /\ t[0] = 0 /\ b[0] = Empty(audios)
  BY <1>5, <1>6, ResultFacts DEF Passes
<1>9. \A k \in 0..n : t[k] \in Nat /\ t[k] = Len(h[k].audio)
  <2> DEFINE S == {k \in Nat : t[k] \in Nat /\ t[k] = Len(h[k].audio)}
  <2>1. S \in SUBSET Nat /\ 0 \in S
    BY <1>8
  <2>2. ASSUME NEW k \in Nat, k \in S, k + 1 <= n PROVE k + 1 \in S
    <3>1. PICK x, c, m : x = h[k].audio /\ c = audios[k + 1] /\ m = t[k]
      OBVIOUS
    <3>2. IsAudio(x) /\ IsAudio(c) /\ m = Len(x) /\ h[k + 1].audio = Appended(x, c)
      BY <1>4, <2>2, <3>1
    <3>3. PICK j \in Nat : j = m + Len(c) - Overlap(m, c) /\ Len(Appended(x, c)) = j
      BY <3>2, LengthStep
    <3>4. t[k + 1] = j
      BY <1>7, <2>2, <3>1, <3>3
    <3> QED
      BY <3>2, <3>3, <3>4
  <2>3. \A k \in 0..n : k \in S
    <3> HIDE DEF S
    <3> QED
      BY <2>1, <2>2, Upward
  <2> QED
    BY <2>3
<1>10. ASSUME NEW k \in Nat, k + 1 <= n PROVE t[k] <= t[k + 1]
  <2>1. PICK x, c, m : x = h[k].audio /\ c = audios[k + 1] /\ m = t[k]
    OBVIOUS
  <2>2. IsAudio(x) /\ IsAudio(c) /\ m = Len(x)
    BY <1>2, <1>4, <1>9, <1>10, <2>1
  <2>3. PICK j \in Nat : j = m + Len(c) - Overlap(m, c) /\ m <= j
    BY <2>2, LengthStep
  <2> QED
    BY <1>7, <1>10, <2>1, <2>3
<1>11. \A k \in 0..n : t[k] <= t[n]
  <2> DEFINE S == {k \in Nat : k <= n => t[k] <= t[n]}
  <2>1. S \in SUBSET Nat /\ n \in S
    BY <1>0, <1>9
  <2>2. ASSUME NEW k \in Nat, k + 1 \in S, k + 1 <= n PROVE k \in S
    <3>1. t[k] <= t[k + 1] /\ t[k + 1] <= t[n]
      BY <1>10, <2>2
    <3>2. t[k] \in Nat /\ t[k + 1] \in Nat /\ t[n] \in Nat
      BY <1>0, <1>2, <1>9, <2>2
    <3> QED
      BY <3>1, <3>2
  <2>3. \A k \in 0..n : k \in S
    <3> HIDE DEF S
    <3> QED
      BY <2>1, <2>2, Downward
  <2> QED
    BY <2>3
<1>12. PICK room \in Nat : room = t[n]
  BY <1>0, <1>9
<1>13. \A k \in 0..n : Holds(b[k], h[k].audio, t[k], room)
  <2> DEFINE S == {k \in Nat : Holds(b[k], h[k].audio, t[k], room)}
  <2>1. S \in SUBSET Nat /\ 0 \in S
    <3>1. TotalFrames(audios) = room
      BY <1>5, <1>12
    <3>2. b[0].cursor = 0 /\ b[0].frames = [p \in 1..room |-> <<>>]
      BY <1>8, <3>1 DEF Empty
    <3>3. IsAudio(<<>>) /\ Len(<<>>) = 0
      BY EmptySeq DEF IsAudio
    <3>4. Holds(b[0], <<>>, 0, room)
      BY <3>2, <3>3 DEF Holds, Agree
    <3> QED
      BY <1>8, <3>4
  <2>2. ASSUME NEW k \in Nat, k \in S, k + 1 <= n PROVE k + 1 \in S
    <3>1. PICK buffer, x, c, m : buffer = b[k] /\ x = h[k].audio /\ c = audios[k + 1] /\ m = t[k]
      OBVIOUS
    <3>2. IsAudio(c) /\ Holds(buffer, x, m, room) /\ h[k + 1].audio = Appended(x, c)
      BY <1>4, <2>2, <3>1
    <3>3. PICK j \in Nat : j = m + Len(c) - Overlap(m, c) /\ (j <= room => Holds(Buffered(buffer, c), Appended(x, c), j, room))
      BY <3>2, AppendStep
    <3>4. t[k + 1] = j /\ b[k + 1] = Buffered(buffer, c)
      BY <1>7, <2>2, <3>1, <3>3
    <3>5. j <= room
      BY <1>2, <1>11, <1>12, <2>2, <3>4
    <3>6. Holds(b[k + 1], h[k + 1].audio, t[k + 1], room)
      BY <3>2, <3>3, <3>4, <3>5
    <3> QED
      BY <3>6
  <2>3. \A k \in 0..n : k \in S
    <3> HIDE DEF S
    <3> QED
      BY <2>1, <2>2, Upward
  <2> QED
    BY <2>3
<1>14. b[n].frames = h[n].audio
  <2>1. PICK x, y : x = b[n].frames /\ y = h[n].audio
    OBVIOUS
  <2>2. /\ IsAudio(y) /\ Len(y) = room /\ x = [p \in 1..room |-> x[p]] /\ Agree(x, y, room, room)
    BY <1>0, <1>12, <1>13, <2>1 DEF Holds
  <2>3. IsAudio(x) /\ Len(x) = room
    BY <2>2, AudioMade
  <2>4. \A p \in 1..room : x[p] = y[p]
    BY <2>2 DEF Agree
  <2> QED
    BY <2>1, <2>2, <2>3, <2>4, AudioEqual
<1>15. Voiced(Concatenated(audios)) = h[n]
  <2>1. h[n] = Voiced(h[n].audio)
    BY <1>0, <1>1, ResultFacts
  <2> QED
    BY <1>6, <1>14, <2>1
<1>16. ASSUME NEW i \in 1..n PROVE results[i].ok
  <2>1. i - 1 \in Nat /\ (i - 1) + 1 <= n /\ (i - 1) + 1 = i
    OBVIOUS
  <2> QED
    BY <1>4, <2>1
<1>17. TotalFrames(audios) <= MaxFrames
  <2>1. n - 1 \in Nat /\ (n - 1) + 1 <= n /\ (n - 1) + 1 = n /\ n - 1 \in 0..n
    OBVIOUS
  <2>2. PICK x, c, m : x = h[n - 1].audio /\ c = audios[n] /\ m = t[n - 1]
    OBVIOUS
  <2>3. ~TooLong(x, c) /\ m = Len(x) /\ t[n] = m + Len(c) - Overlap(m, c)
    BY <1>4, <1>7, <1>9, <2>1, <2>2
  <2>4. ~(t[n] > MaxFrames)
    BY <2>3 DEF TooLong, Overlap
  <2> QED
    BY <1>0, <1>5, <1>9, <2>4
<1> QED
  BY <1>15, <1>16, <1>17

(* The chunks of a request and what they become. *)
Results(e, r) == [i \in DOMAIN Chunks(r) |-> Chunk(e, r, i)]

LEMMA ChunkFacts ==
    ASSUME NEW e \in Engines, NEW a \in Attempts
    PROVE  \E n \in Nat \ {0} :
              /\ Len(Chunks(RequestOf[a])) = n /\ DOMAIN Chunks(RequestOf[a]) = 1..n
              /\ \A i \in 1..n : IsResult(Chunk(e, RequestOf[a], i)) /\ Results(e, RequestOf[a])[i] = Chunk(e, RequestOf[a], i)
<1>1. PICK r : r = RequestOf[a]
  OBVIOUS
<1>2. r.words \in Seq(Words) /\ r.words # <<>> /\ r.seed \in Nat
  BY <1>1, RequestsAssumption
<1>3. ChunkWords \in Nat \ {0} /\ Modulus \in Nat \ {0}
  BY LongFormAssumption
<1>4. PICK words, length : words = r.words /\ length = ChunkWords
  OBVIOUS
<1>5. PICK n : AreTexts(Pieces(words, length), n) /\ (words # <<>> => n > 0)
  BY <1>2, <1>3, <1>4, PiecesAre
<1>6. PICK chunks : chunks = Chunks(r) /\ chunks = Pieces(words, length)
  BY <1>4 DEF Chunks
<1>7. /\ n \in Nat \ {0} /\ DOMAIN chunks = 1..n /\ chunks = [k \in 1..n |-> chunks[k]]
      /\ \A k \in 1..n : chunks[k] \in Seq(Words)
  BY <1>2, <1>4, <1>5, <1>6 DEF AreTexts
<1>8. Len(chunks) = n
  BY <1>7, AudioMade
<1>9. ASSUME NEW i \in 1..n PROVE IsResult(Chunk(e, r, i)) /\ Results(e, r)[i] = Chunk(e, r, i)
  <2>1. PICK seed, by, text, offset : seed = r.seed /\ by = i - 1 /\ text = chunks[i] /\ offset = ChunkSeed(r, i)
    OBVIOUS
  <2>2. seed \in Nat /\ by \in Nat /\ text \in Seq(Words)
    BY <1>2, <1>7, <2>1
  <2>3. offset = Offset(seed, by)
    BY <2>1 DEF ChunkSeed
  <2>4. offset \in 0..Modulus - 1
    BY <2>2, <2>3, OffsetIs
  <2>5. <<e, text, offset, 0>> \in Texts3
    BY <2>2, <2>4 DEF Texts3, Depths, MaxRetries
  <2>6. Chunk(e, r, i) = One[<<e, text, offset, 0>>]
    BY <1>6, <2>1 DEF Chunk
  <2>7. IsResult(One[<<e, text, offset, 0>>])
    BY <2>5, OneTyped
  <2> QED
    BY <1>6, <1>7, <2>6, <2>7 DEF Results
<1> QED
  BY <1>1, <1>6, <1>7, <1>8, <1>9

(* v is what the first k chunks of a request have become. *)
IsSoFar(e, r, k, v) == v.ok /\ \E h : Passes("results", Voiced(<<>>), Results(e, r), k, h) /\ h[k] = v

LEMMA SoFarBegins == ASSUME NEW e, NEW r PROVE IsSoFar(e, r, 0, Voiced(<<>>))
<1>1. PICK h : h = [k \in 0..0 |-> Voiced(<<>>)]
  OBVIOUS
<1>2. Passes("results", Voiced(<<>>), Results(e, r), 0, h) /\ h[0] = Voiced(<<>>)
  BY <1>1 DEF Passes
<1> QED
  BY <1>2, ResultFacts DEF IsSoFar

LEMMA SoFarGrows ==
    ASSUME NEW e, NEW r, NEW k \in Nat, NEW v, IsSoFar(e, r, k, v), NEW w,
           w = Accumulated(v, Results(e, r)[k + 1]), w.ok
    PROVE  IsSoFar(e, r, k + 1, w)
<1>1. PICK h : Passes("results", Voiced(<<>>), Results(e, r), k, h) /\ h[k] = v
  BY DEF IsSoFar
<1>2. PICK g : g = [j \in 0..(k + 1) |-> IF j = k + 1 THEN w ELSE h[j]]
  OBVIOUS
<1>3. DOMAIN g = 0..(k + 1) /\ g[k + 1] = w /\ \A j \in 0..k : g[j] = h[j]
  BY <1>2
<1>4. g[0] = Voiced(<<>>)
  BY <1>1, <1>3 DEF Passes
<1>5. ASSUME NEW j \in 1..(k + 1) PROVE g[j] = FoldedBy("results", g[j - 1], Results(e, r)[j])
  <2>1. CASE j = k + 1
    <3>1. j - 1 = k /\ g[k] = v
      BY <1>1, <1>3, <2>1
    <3> QED
      BY <1>3, <2>1, <3>1 DEF FoldedBy
  <2>2. CASE j # k + 1
    <3>1. j \in 1..k /\ j \in 0..k /\ j - 1 \in 0..k
      BY <2>2
    <3> QED
      BY <1>1, <1>3, <3>1 DEF Passes
  <2> QED
    BY <2>1, <2>2
<1> QED
  BY <1>3, <1>4, <1>5 DEF IsSoFar, Passes

(* What all of them have become is the request, synthesised in one go. *)
LEMMA SoFarIsFresh ==
    ASSUME NEW e \in Engines, NEW a \in Attempts, NEW v, IsSoFar(e, RequestOf[a], Len(Chunks(RequestOf[a])), v)
    PROVE  v = Fresh(e, RequestOf[a]) /\ v = Voiced(v.audio)
<1>1. PICK r : r = RequestOf[a]
  OBVIOUS
<1>2. PICK n \in Nat \ {0} :
              /\ Len(Chunks(r)) = n /\ DOMAIN Chunks(r) = 1..n
              /\ \A i \in 1..n : IsResult(Chunk(e, r, i)) /\ Results(e, r)[i] = Chunk(e, r, i)
  BY <1>1, ChunkFacts
<1>3. PICK h : Passes("results", Voiced(<<>>), Results(e, r), n, h) /\ h[n] = v /\ v.ok
  BY <1>1, <1>2 DEF IsSoFar
<1>4. PICK results : results = Results(e, r)
  OBVIOUS
<1>5. PICK audios : audios = [i \in DOMAIN results |-> results[i].audio]
  OBVIOUS
<1>6. DOMAIN results = 1..n /\ \A i \in 1..n : IsResult(results[i])
  BY <1>2, <1>4 DEF Results
<1>7. DOMAIN audios = 1..n /\ \A i \in 1..n : audios[i] = results[i].audio
  BY <1>5, <1>6
<1>8. /\ \A i \in 1..n : results[i].ok
      /\ TotalFrames(audios) <= MaxFrames
      /\ Voiced(Concatenated(audios)) = v
  <2>1. Passes("results", Voiced(<<>>), results, n, h) /\ h[n].ok /\ h[n] = v
    BY <1>3, <1>4
  <2>2. /\ \A i \in 1..n : results[i].ok
        /\ TotalFrames(audios) <= MaxFrames
        /\ Voiced(Concatenated(audios)) = h[n]
    BY <1>6, <1>7, <2>1, WholePasses
  <2> QED
    BY <2>1, <2>2
<1>9. Fresh(e, r) = IF (\A i \in DOMAIN results : results[i].ok) /\ TotalFrames(audios) <= MaxFrames
                    THEN Voiced(Concatenated(audios)) ELSE Nothing
  BY <1>4, <1>5, Zenon DEF Fresh, Results
<1>10. v = Voiced(v.audio)
  BY <1>8, ResultFacts
<1> QED
  BY <1>1, <1>6, <1>8, <1>9, <1>10

-----------------------------------------------------------------------------
(* What is heard is what would have been synthesised in one go. *)

(* A file that reads back well holds its chunk. *)
IsTrue(f) == f.intact => Chunk(engine, f.key.request, f.key.index) = Voiced(f.audio)
FilesAreTrue == \A f \in checkpoints : IsTrue(f)

Sounds(a) == Voiced(heard[a].frames) = Fresh(engine, RequestOf[a])

HeardTypes == DOMAIN heard = Attempts /\ \A a \in Attempts : DOMAIN heard[a] = {"frames", "synced"}

(* What the running job has made so far. *)
JobIsTrue ==
    /\ work.at \in {"load", "infer", "save", "replace", "fsync", "append"} =>
          /\ work.chunk \in Nat \ {0} /\ work.chunk <= Len(Chunks(Request))
          /\ IsSoFar(engine, Request, work.chunk - 1, work.sofar)
    /\ work.at \in {"save", "replace", "fsync", "append"} => Chunk(engine, Request, work.chunk) = Voiced(work.held)
    /\ work.at = "publish" => Voiced(work.sofar.audio) = Fresh(engine, Request)
    /\ work.at \in {"sync", "complete"} => Sounds(work.of)
    /\ work.at = "complete" => heard[work.of].synced

CompletedSound == \A a \in Attempts \ Paired : row[a] = "completed" => Sounds(a) /\ heard[a].synced

FreshInv == engine \in Engines /\ HeardTypes /\ FilesAreTrue /\ JobIsTrue /\ CompletedSound

LEMMA FreshInit == Init => FreshInv
<1> SUFFICES ASSUME Init PROVE FreshInv
  OBVIOUS
<1>1. work.at = "idle" /\ checkpoints = {} /\ engine \in Engines
  BY DEF Init, Idle
<1>2. HeardTypes
  BY DEF Init, HeardTypes, NoAudio
<1>3. CompletedSound
  BY DEF Init, CompletedSound
<1> QED
  BY <1>1, <1>2, <1>3 DEF FreshInv, FilesAreTrue, JobIsTrue

(* What happens to each part. *)
LEMMA FilesStayTrue ==
    ASSUME FilesAreTrue, engine' = engine, \A f \in checkpoints' : f \in checkpoints \/ IsTrue(f)
    PROVE  FilesAreTrue'
BY DEF FilesAreTrue, IsTrue

LEMMA JobStaysTrue ==
    ASSUME JobIsTrue, engine' = engine, work' = work,
           work.at \in {"sync", "complete"} => heard'[work.of] = heard[work.of]
    PROVE  JobIsTrue'
<1>1. Request' = Request
  BY DEF Request
<1>2. work.at \in {"sync", "complete"} => (Sounds(work.of) => Sounds(work.of)')
  BY DEF Sounds
<1> QED
  BY <1>1, <1>2 DEF JobIsTrue

LEMMA NoJobIsTrue == ASSUME work' = Idle PROVE JobIsTrue'
<1>1. work'.at = "idle"
  BY DEF Idle
<1> QED
  BY <1>1 DEF JobIsTrue

LEMMA CompletedStaySound ==
    ASSUME CompletedSound, engine' = engine,
           \A a \in Attempts \ Paired : row'[a] = "completed" =>
               (row[a] = "completed" /\ heard'[a].frames = heard[a].frames /\ (heard[a].synced => heard'[a].synced))
    PROVE  CompletedSound'
BY DEF CompletedSound, Sounds

LEMMA FreshIsWhole ==
    ASSUME engine \in Engines, engine' = engine, HeardTypes', FilesAreTrue', JobIsTrue', CompletedSound'
    PROVE  FreshInv'
BY DEF FreshInv

LEMMA FreshQueueStep ==
    ASSUME StoreInv, FreshInv, NEW a \in Attempts, Submit(a) \/ CancelQueued(a)
    PROVE  FreshInv'
<1>1. UNCHANGED <<engine, heard, checkpoints, work>>
  BY DEF Submit, CancelQueued
<1>2. \A b \in Attempts : row'[b] = "completed" => row[b] = "completed"
  BY DEF StoreInv, StoreTypes, Submit, CancelQueued
<1>3. HeardTypes' /\ FilesAreTrue' /\ JobIsTrue' /\ CompletedSound'
  BY <1>1, <1>2, FilesStayTrue, JobStaysTrue, CompletedStaySound DEF FreshInv, HeardTypes
<1> QED
  BY <1>1, <1>3, FreshIsWhole DEF FreshInv

LEMMA FreshDeleteStep ==
    ASSUME StoreInv, FreshInv, NEW S \in SUBSET Attempts, DeleteRows(S), \A a \in S : row[a] \in {"completed", "failed"}
    PROVE  FreshInv'
<1>1. /\ UNCHANGED <<engine, work>>
      /\ row' = [a \in Attempts |-> IF a \in S THEN "deleted" ELSE row[a]]
      /\ heard' = [a \in Attempts |-> IF a \in S THEN NoAudio ELSE heard[a]]
      /\ checkpoints' \subseteq checkpoints
  BY DEF DeleteRows, Collect
<1>2. HeardTypes'
  BY <1>1 DEF FreshInv, HeardTypes, NoAudio
<1>3. work.at \in {"sync", "complete"} => heard'[work.of] = heard[work.of]
  BY <1>1, WorkedOn
<1>4. \A a \in Attempts : row'[a] = "completed" => row[a] = "completed" /\ heard'[a] = heard[a]
  BY <1>1
<1>5. FilesAreTrue' /\ JobIsTrue' /\ CompletedSound'
  BY <1>1, <1>3, <1>4, FilesStayTrue, JobStaysTrue, CompletedStaySound DEF FreshInv
<1> QED
  BY <1>1, <1>2, <1>5, FreshIsWhole DEF FreshInv

LEMMA FreshStartStep ==
    ASSUME StoreInv, FreshInv, NEW a \in Attempts, Start(a)
    PROVE  FreshInv'
<1>1. /\ UNCHANGED <<engine, heard, checkpoints>>
      /\ work' = [at |-> "load", of |-> a, chunk |-> 1, held |-> <<>>, sofar |-> Voiced(<<>>)]
      /\ row' = [row EXCEPT ![a] = "generating"]
  BY DEF Start
<1>2. \A b \in Attempts : row'[b] = "completed" => row[b] = "completed"
  BY <1>1 DEF StoreInv, StoreTypes
<1>3. PICK n \in Nat \ {0} : Len(Chunks(RequestOf[a])) = n
  BY ChunkFacts DEF FreshInv
<1>4. PICK r, e : r = RequestOf[a] /\ e = engine
  OBVIOUS
<1>5. Request' = r /\ engine' = e /\ Len(Chunks(r)) = n
  BY <1>1, <1>3, <1>4 DEF Request
<1>6. IsSoFar(e, r, 0, Voiced(<<>>))
  BY SoFarBegins
<1>7. JobIsTrue'
  <2>1. work'.at = "load" /\ work'.chunk = 1 /\ work'.sofar = Voiced(<<>>) /\ 1 - 1 = 0 /\ 1 <= n
    BY <1>1
  <2> QED
    BY <1>5, <1>6, <2>1 DEF JobIsTrue
<1>8. HeardTypes' /\ FilesAreTrue' /\ CompletedSound'
  BY <1>1, <1>2, FilesStayTrue, CompletedStaySound DEF FreshInv, HeardTypes
<1> QED
  BY <1>1, <1>7, <1>8, FreshIsWhole DEF FreshInv

LEMMA FreshPairedStep ==
    ASSUME StoreInv, FreshInv, NEW a \in Attempts, RunPaired(a)
    PROVE  FreshInv'
<1>1. UNCHANGED <<engine, checkpoints, work>> /\ work.at = "idle" /\ a \in Paired
  BY DEF RunPaired, JobIs
<1>2. /\ \A b \in Attempts \ Paired : row'[b] = row[b] /\ heard'[b] = heard[b]
      /\ HeardTypes'
  BY <1>1 DEF StoreInv, StoreTypes, FreshInv, HeardTypes, RunPaired
<1>3. FilesAreTrue' /\ JobIsTrue' /\ CompletedSound'
  BY <1>1, <1>2, FilesStayTrue, JobStaysTrue, CompletedStaySound DEF FreshInv
<1> QED
  BY <1>1, <1>2, <1>3, FreshIsWhole DEF FreshInv

LEMMA FreshFailStep ==
    ASSUME StoreInv, FreshInv, work.at \notin {"idle", "collect"}, JobFails, checkpoints' \subseteq checkpoints
    PROVE  FreshInv'
<1>1. work' = Idle /\ UNCHANGED <<engine, heard>> /\ row' = [row EXCEPT ![work.of] = "failed"]
  BY DEF JobFails
<1>2. \A b \in Attempts : row'[b] = "completed" => row[b] = "completed"
  BY <1>1, WorkedOn DEF StoreInv, StoreTypes
<1>3. HeardTypes' /\ FilesAreTrue' /\ JobIsTrue' /\ CompletedSound'
  BY <1>1, <1>2, FilesStayTrue, NoJobIsTrue, CompletedStaySound DEF FreshInv, HeardTypes
<1> QED
  BY <1>1, <1>3, FreshIsWhole DEF FreshInv

(* A job goes on; everything but the job itself stays. *)
LEMMA FreshGoesOn ==
    ASSUME StoreInv, FreshInv, UNCHANGED <<engine, row, heard>>, JobIsTrue',
           \A f \in checkpoints' : f \in checkpoints \/ IsTrue(f)
    PROVE  FreshInv'
<1>1. HeardTypes' /\ FilesAreTrue' /\ CompletedSound'
  BY FilesStayTrue, CompletedStaySound DEF FreshInv, HeardTypes
<1> QED
  BY <1>1, FreshIsWhole DEF FreshInv

LEMMA HereIs == Here.request = Request /\ Here.index = work.chunk
BY DEF Here, Key

LEMMA FreshLoadStep ==
    ASSUME StoreInv, FreshInv, LoadCheckpoint
    PROVE  FreshInv'
<1>1. UNCHANGED <<engine, row, heard>> /\ work.at = "load" /\ IsJob(work)
  BY JobFacts DEF LoadCheckpoint, JobIs
<1>2. \A f \in checkpoints' : f \in checkpoints
  BY DEF LoadCheckpoint, Discarded
<1>3. CASE Intact(Here) # {} /\ ~OneChunk
  <2>1. PICK f : f = CHOOSE g \in Intact(Here) : TRUE
    OBVIOUS
  <2>2. f \in Intact(Here)
    BY <1>3, <2>1
  <2>3. f \in checkpoints /\ f.intact /\ f.key.request = Request /\ f.key.index = work.chunk
    BY <2>2, HereIs DEF Intact, Named
  <2>4. Chunk(engine, Request, work.chunk) = Voiced(f.audio)
    BY <2>3 DEF FreshInv, FilesAreTrue, IsTrue
  <2>5. work' = [work EXCEPT !.held = f.audio, !.at = "append"]
    BY <1>3, <2>1 DEF LoadCheckpoint
  <2>6. /\ work'.at = "append" /\ work'.held = f.audio
        /\ UNCHANGED <<work.of, work.chunk, work.sofar>>
    BY <1>1, <2>5 DEF IsJob
  <2>7. Request' = Request
    BY <2>6 DEF Request
  <2>8. JobIsTrue'
    BY <1>1, <2>4, <2>6, <2>7 DEF FreshInv, JobIsTrue
  <2> QED
    BY <1>1, <1>2, <2>8, FreshGoesOn
<1>4. CASE ~(Intact(Here) # {} /\ ~OneChunk)
  <2>1. ToJob("infer")
    BY <1>4 DEF LoadCheckpoint
  <2>2. work'.at = "infer" /\ UNCHANGED <<work.of, work.chunk, work.held, work.sofar>>
    BY <1>1, <2>1, ToJobIs DEF JobPlaces
  <2>3. Request' = Request
    BY <2>2 DEF Request
  <2>4. JobIsTrue'
    BY <1>1, <2>2, <2>3 DEF FreshInv, JobIsTrue
  <2> QED
    BY <1>1, <1>2, <2>4, FreshGoesOn
<1> QED
  BY <1>3, <1>4

LEMMA FreshInferStep ==
    ASSUME StoreInv, FreshInv, Infer
    PROVE  FreshInv'
<1>1. work.at = "infer" /\ IsJob(work) /\ work.of \in Attempts
  BY JobFacts DEF Infer, JobIs, IsJob
<1>2. PICK result : result = Chunk(engine, Request, work.chunk)
  OBVIOUS
<1>3. CASE result.ok
  <2>1. /\ work' = [work EXCEPT !.held = result.audio, !.at = IF OneChunk THEN "append" ELSE "save"]
        /\ UNCHANGED <<engine, row, heard, checkpoints>>
    BY <1>2, <1>3 DEF Infer
  <2>2. PICK n \in Nat \ {0} : Len(Chunks(Request)) = n /\ \A i \in 1..n : IsResult(Chunk(engine, Request, i))
    BY <1>1, ChunkFacts DEF FreshInv, Request
  <2>3. work.chunk \in 1..n
    BY <1>1, <2>2 DEF FreshInv, JobIsTrue
  <2>4. result = Voiced(result.audio)
    BY <1>2, <1>3, <2>2, <2>3, ResultFacts
  <2>5. /\ work'.at \in {"append", "save"} /\ work'.held = result.audio
        /\ UNCHANGED <<work.of, work.chunk, work.sofar>>
    BY <1>1, <2>1 DEF IsJob
  <2>6. Request' = Request
    BY <2>5 DEF Request
  <2>7. JobIsTrue'
    BY <1>1, <1>2, <2>1, <2>4, <2>5, <2>6 DEF FreshInv, JobIsTrue
  <2> QED
    BY <2>1, <2>7, FreshGoesOn
<1>4. CASE ~result.ok
  <2>1. JobFails /\ UNCHANGED checkpoints
    BY <1>2, <1>4 DEF Infer
  <2> QED
    BY <1>1, <2>1, FreshFailStep
<1> QED
  BY <1>3, <1>4

(* A file of the running chunk is true when it holds what the job holds. *)
LEMMA OwnFilesAreTrue ==
    ASSUME FreshInv, work.at \in {"save", "replace", "fsync"}
    PROVE  IsTrue(TempFile) /\ IsTrue(Replaced) /\ IsTrue([Replaced EXCEPT !.durable = TRUE])
<1>1. Chunk(engine, Request, work.chunk) = Voiced(work.held)
  BY DEF FreshInv, JobIsTrue
<1>2. TempFile.key = Here /\ TempFile.audio = work.held /\ Replaced.key = Here /\ Replaced.audio = work.held
  BY DEF TempFile, Replaced, Entry
<1>3. [Replaced EXCEPT !.durable = TRUE].key = Here /\ [Replaced EXCEPT !.durable = TRUE].audio = work.held
  BY DEF Replaced, Entry
<1> QED
  BY <1>1, <1>2, <1>3, HereIs DEF IsTrue

LEMMA FreshSaveStep ==
    ASSUME StoreInv, FreshInv, Save \/ ReplaceFile \/ FsyncDirectory
    PROVE  FreshInv'
<1>1. work.at \in {"save", "replace", "fsync"} /\ IsJob(work)
  BY JobFacts DEF Save, ReplaceFile, FsyncDirectory, JobIs
<1>2. CASE JobFails
  <2>1. checkpoints' \subseteq checkpoints
    <3>1. work'.at = "idle"
      BY <1>2 DEF JobFails, Idle
    <3>2. ~ToJob("replace") /\ ~ToJob("fsync") /\ ~ToJob("append")
      BY <1>1, <3>1, ToJobIs DEF JobPlaces
    <3> QED
      BY <3>2 DEF Save, ReplaceFile, FsyncDirectory
  <2> QED
    BY <1>1, <1>2, <2>1, FreshFailStep
<1>3. CASE ~JobFails
  <2>1. /\ UNCHANGED <<engine, row, heard>>
        /\ ToJob("replace") \/ ToJob("fsync") \/ ToJob("append")
        /\ \A f \in checkpoints' : f \in checkpoints \/ f \in {TempFile, Replaced, [Replaced EXCEPT !.durable = TRUE]}
    BY <1>3 DEF Save, ReplaceFile, FsyncDirectory, TempFile
  <2>2. work'.at \in {"replace", "fsync", "append"} /\ UNCHANGED <<work.of, work.chunk, work.held, work.sofar>>
    BY <1>1, <2>1, ToJobIs DEF JobPlaces
  <2>3. Request' = Request
    BY <2>2 DEF Request
  <2>4. JobIsTrue'
    BY <1>1, <2>1, <2>2, <2>3 DEF FreshInv, JobIsTrue
  <2>5. \A f \in checkpoints' : f \in checkpoints \/ IsTrue(f)
    BY <1>1, <2>1, OwnFilesAreTrue
  <2> QED
    BY <2>1, <2>4, <2>5, FreshGoesOn
<1> QED
  BY <1>2, <1>3

LEMMA FreshAppendStep ==
    ASSUME StoreInv, FreshInv, AppendChunk
    PROVE  FreshInv'
<1>1. work.at = "append" /\ IsJob(work) /\ work.of \in Attempts
  BY JobFacts DEF AppendChunk, JobIs, IsJob
<1>2. PICK sofar : sofar = Accumulated(work.sofar, Voiced(work.held))
  OBVIOUS
<1>3. CASE ~sofar.ok
  <2>1. JobFails /\ UNCHANGED checkpoints
    BY <1>2, <1>3 DEF AppendChunk
  <2> QED
    BY <1>1, <2>1, FreshFailStep
<1>4. CASE sofar.ok
  <2>1. PICK n \in Nat \ {0} :
           /\ Len(Chunks(Request)) = n
           /\ \A i \in 1..n : Results(engine, Request)[i] = Chunk(engine, Request, i)
    BY <1>1, ChunkFacts DEF FreshInv, Request
  <2>2. /\ UNCHANGED <<engine, row, heard, checkpoints>>
        /\ work' = [work EXCEPT !.sofar = sofar, !.held = <<>>,
                         !.chunk = IF @ = n THEN @ ELSE @ + 1,
                         !.at = IF work.chunk = n THEN "publish" ELSE "load"]
    BY <1>2, <1>4, <2>1 DEF AppendChunk
  <2>3. /\ work'.sofar = sofar /\ work'.of = work.of
        /\ work'.chunk = (IF work.chunk = n THEN n ELSE work.chunk + 1)
        /\ work'.at = (IF work.chunk = n THEN "publish" ELSE "load")
    BY <1>1, <2>2 DEF IsJob
  <2>4. Request' = Request
    BY <2>3 DEF Request
  <2>5. PICK k \in Nat : k = work.chunk - 1 /\ k + 1 = work.chunk /\ k + 1 \in 1..n /\ IsSoFar(engine, Request, k, work.sofar)
    <3>1. work.chunk \in Nat \ {0} /\ work.chunk <= n /\ IsSoFar(engine, Request, work.chunk - 1, work.sofar)
      BY <1>1, <2>1 DEF FreshInv, JobIsTrue
    <3>2. work.chunk - 1 \in Nat /\ (work.chunk - 1) + 1 = work.chunk
      BY <3>1
    <3> QED
      BY <3>1, <3>2
  <2>6. Voiced(work.held) = Results(engine, Request)[k + 1]
    <3>1. Chunk(engine, Request, work.chunk) = Voiced(work.held)
      BY <1>1 DEF FreshInv, JobIsTrue
    <3> QED
      BY <2>1, <2>5, <3>1
  <2>7. PICK e, r : e = engine /\ r = Request
    OBVIOUS
  <2>8. IsSoFar(e, r, k + 1, sofar)
    <3>1. IsSoFar(e, r, k, work.sofar) /\ sofar = Accumulated(work.sofar, Results(e, r)[k + 1]) /\ sofar.ok
      BY <1>2, <1>4, <2>5, <2>6, <2>7
    <3> QED
      BY <3>1, SoFarGrows
  <2>9. CASE work.chunk = n
    <3>1. IsSoFar(engine, RequestOf[work.of], Len(Chunks(RequestOf[work.of])), sofar)
      BY <2>1, <2>5, <2>7, <2>8, <2>9 DEF Request
    <3>2. sofar = Fresh(engine, RequestOf[work.of]) /\ sofar = Voiced(sofar.audio)
      BY <1>1, <3>1, SoFarIsFresh DEF FreshInv
    <3>3. work'.at = "publish" /\ Voiced(work'.sofar.audio) = Fresh(engine', Request')
      BY <2>2, <2>3, <2>4, <2>9, <3>2 DEF Request
    <3> QED
      BY <2>2, <3>3, FreshGoesOn DEF JobIsTrue
  <2>10. CASE work.chunk # n
    <3>1. work'.at = "load" /\ work'.chunk = k + 2 /\ k + 2 <= n /\ (k + 2) - 1 = k + 1 /\ k + 2 \in Nat \ {0}
      BY <2>3, <2>5, <2>10
    <3>2. IsSoFar(engine', Request', work'.chunk - 1, work'.sofar) /\ Len(Chunks(Request')) = n
      BY <2>1, <2>2, <2>3, <2>4, <2>7, <2>8, <3>1
    <3>3. JobIsTrue'
      BY <3>1, <3>2 DEF JobIsTrue
    <3> QED
      BY <2>2, <3>3, FreshGoesOn
  <2> QED
    BY <2>9, <2>10
<1> QED
  BY <1>3, <1>4

LEMMA FreshPublishStep ==
    ASSUME StoreInv, FreshInv, PublishAudio \/ SyncAudio
    PROVE  FreshInv'
<1>1. work.at \in {"publish", "sync"} /\ IsJob(work) /\ work.of \in Attempts /\ row[work.of] = "generating"
  BY JobFacts, WorkedOn DEF PublishAudio, SyncAudio, JobIs, IsJob
<1>2. CASE JobFails /\ UNCHANGED checkpoints
  BY <1>1, <1>2, FreshFailStep
<1>3. CASE ~(JobFails /\ UNCHANGED checkpoints)
  <2>1. UNCHANGED <<engine, row, checkpoints>>
    BY <1>3 DEF PublishAudio, SyncAudio
  <2>2. /\ HeardTypes' /\ \A a \in Attempts : a # work.of => heard'[a] = heard[a]
        /\ UNCHANGED work.of /\ work'.at \in {"sync", "complete"} /\ Sounds(work.of)'
        /\ work'.at = "complete" => heard'[work.of].synced
    <3>1. CASE PublishAudio
      <4>1. /\ heard' = [heard EXCEPT ![work.of] = [frames |-> work.sofar.audio, synced |-> FALSE]]
            /\ ToJob("sync")
        BY <1>3, <3>1 DEF PublishAudio
      <4>2. UNCHANGED work.of /\ work'.at = "sync" /\ work.at = "publish"
        BY <1>1, <3>1, <4>1, ToJobIs DEF JobPlaces, PublishAudio, JobIs
      <4>3. /\ HeardTypes' /\ \A a \in Attempts : a # work.of => heard'[a] = heard[a]
            /\ heard'[work.of].frames = work.sofar.audio
        BY <1>1, <4>1 DEF FreshInv, HeardTypes
      <4>4. Voiced(work.sofar.audio) = Fresh(engine, RequestOf[work.of])
        BY <4>2 DEF FreshInv, JobIsTrue, Request
      <4> QED
        BY <2>1, <4>2, <4>3, <4>4 DEF Sounds
    <3>2. CASE SyncAudio
      <4>1. heard' = [heard EXCEPT ![work.of].synced = TRUE] /\ ToJob("complete")
        BY <1>3, <3>2 DEF SyncAudio
      <4>2. UNCHANGED work.of /\ work'.at = "complete" /\ work.at = "sync"
        BY <1>1, <3>2, <4>1, ToJobIs DEF JobPlaces, SyncAudio, JobIs
      <4>3. /\ HeardTypes' /\ \A a \in Attempts : a # work.of => heard'[a] = heard[a]
            /\ heard'[work.of].frames = heard[work.of].frames /\ heard'[work.of].synced
        BY <1>1, <4>1 DEF FreshInv, HeardTypes
      <4>4. Voiced(heard[work.of].frames) = Fresh(engine, RequestOf[work.of])
        BY <4>2 DEF FreshInv, JobIsTrue, Sounds
      <4> QED
        BY <2>1, <4>2, <4>3, <4>4 DEF Sounds
    <3> QED
      BY <3>1, <3>2
  <2>3. JobIsTrue'
    BY <2>2 DEF JobIsTrue, Sounds
  <2>4. CompletedSound'
    BY <1>1, <2>1, <2>2, CompletedStaySound DEF FreshInv
  <2>5. FilesAreTrue'
    BY <2>1, FilesStayTrue DEF FreshInv
  <2> QED
    BY <2>1, <2>2, <2>3, <2>4, <2>5, FreshIsWhole DEF FreshInv
<1> QED
  BY <1>2, <1>3

LEMMA FreshCompleteStep ==
    ASSUME StoreInv, FreshInv, Complete \/ CollectOwn
    PROVE  FreshInv'
<1>1. UNCHANGED <<engine, heard>> /\ checkpoints' \subseteq checkpoints /\ IsJob(work) /\ work.of \in Attempts
  BY JobFacts DEF Complete, CollectOwn, Collect, JobIs, IsJob
<1>2. CASE Complete
  <2>1. Sounds(work.of) /\ heard[work.of].synced
    BY <1>2 DEF Complete, JobIs, FreshInv, JobIsTrue
  <2>2. row' = [row EXCEPT ![work.of] = "completed"]
    BY <1>2 DEF Complete
  <2>3. CompletedSound'
    BY <1>1, <2>1, <2>2 DEF StoreInv, StoreTypes, FreshInv, CompletedSound, Sounds
  <2>4. JobIsTrue'
    <3>1. work' = Idle \/ ToJob("collect")
      BY <1>2 DEF Complete
    <3>2. work'.at \in {"idle", "collect"}
      BY <1>1, <3>1, ToJobIs DEF JobPlaces, Idle
    <3> QED
      BY <3>2 DEF JobIsTrue
  <2> QED
    BY <1>1, <2>3, <2>4, FilesStayTrue, FreshIsWhole DEF FreshInv, HeardTypes
<1>3. CASE CollectOwn
  <2>1. work' = Idle /\ row' = row
    BY <1>3 DEF CollectOwn
  <2> QED
    BY <1>1, <2>1, NoJobIsTrue, FreshGoesOn
<1> QED
  BY <1>2, <1>3

LEMMA SurvivorsAreTrue ==
    ASSUME StoreInv, FilesAreTrue, NEW T \in Survivors
    PROVE  \A g \in T : IsTrue(g)
<1>1. PICK choice : T = UNION {choice[f] : f \in checkpoints} /\ \A f \in checkpoints : choice[f] \in Settled(f)
  BY DEF Survivors
<1>2. ASSUME NEW f \in checkpoints, NEW g \in choice[f] PROVE IsTrue(g)
  <2>1. PICK renamed : renamed = [f EXCEPT !.kind = "temp", !.tag = crashes]
    OBVIOUS
  <2>2. g = f \/ g = renamed
    BY <1>1, <2>1 DEF Settled
  <2>3. renamed.key = f.key /\ renamed.audio = f.audio /\ renamed.intact = f.intact
    BY <2>1 DEF StoreInv, StoreTypes, IsCheckpoint
  <2> QED
    BY <2>2, <2>3 DEF FilesAreTrue, IsTrue
<1> QED
  BY <1>1, <1>2

LEMMA FreshCrashStep ==
    ASSUME StoreInv, FreshInv, Crash
    PROVE  FreshInv'
<1>1. work' = Idle /\ UNCHANGED <<engine, row>> /\ checkpoints' \in Survivors
  BY DEF Crash
<1>2. PICK lost \in SUBSET {a \in Attempts : ~heard[a].synced} :
         heard' = [a \in Attempts |-> IF a \in lost THEN NoAudio ELSE [heard[a] EXCEPT !.synced = TRUE]]
  BY DEF Crash
<1>3. HeardTypes' /\ \A a \in Attempts : heard[a].synced => heard'[a].synced /\ heard'[a].frames = heard[a].frames
  BY <1>2 DEF FreshInv, HeardTypes, NoAudio
<1>4. CompletedSound'
  BY <1>1, <1>3 DEF FreshInv, CompletedSound, Sounds
<1>5. FilesAreTrue'
  BY <1>1, SurvivorsAreTrue, FilesStayTrue DEF FreshInv
<1> QED
  BY <1>1, <1>3, <1>4, <1>5, NoJobIsTrue, FreshIsWhole DEF FreshInv

LEMMA FreshOtherStep ==
    ASSUME StoreInv, FreshInv,
           Reconcile \/ PruneTemporary \/ CollectAll \/ (\E f \in checkpoints : Rot(f)) \/ (\E r \in Requests : Stray(r))
    PROVE  FreshInv'
<1>1. UNCHANGED <<engine, heard, work>>
  BY DEF Reconcile, PruneTemporary, CollectAll, Rot, Stray
<1>2. \A a \in Attempts : row'[a] = "completed" => row[a] = "completed"
  BY DEF Reconcile, PruneTemporary, CollectAll, Rot, Stray
<1>3. \A f \in checkpoints' : f \in checkpoints \/ IsTrue(f)
  <2>1. CASE \E f \in checkpoints : Rot(f)
    <3>1. PICK f \in checkpoints : Rot(f)
      BY <2>1
    <3>2. PICK g : g = [f EXCEPT !.intact = FALSE, !.audio = <<>>]
      OBVIOUS
    <3>3. checkpoints' = (checkpoints \ {f}) \cup {g}
      BY <3>1, <3>2 DEF Rot
    <3>4. ~g.intact
      BY <3>2 DEF StoreInv, StoreTypes, IsCheckpoint
    <3> QED
      BY <3>3, <3>4 DEF IsTrue
  <2>2. CASE Reconcile \/ PruneTemporary \/ CollectAll \/ (\E r \in Requests : Stray(r))
    BY <2>2 DEF Reconcile, PruneTemporary, CollectAll, Stray
  <2> QED
    BY <2>1, <2>2
<1> QED
  BY <1>1, <1>2, <1>3, FilesStayTrue, JobStaysTrue, CompletedStaySound, FreshIsWhole DEF FreshInv, HeardTypes

LEMMA FreshStep ==
    ASSUME StoreInv, FreshInv, [Next]_vars
    PROVE  FreshInv'
<1>1. CASE UNCHANGED vars
  BY <1>1, FilesStayTrue, JobStaysTrue, CompletedStaySound, FreshIsWhole DEF vars, FreshInv, HeardTypes
<1>2. ASSUME NEW a \in Attempts, Submit(a) \/ CancelQueued(a) \/ DeleteOne(a) \/ Start(a) \/ RunPaired(a)
      PROVE  FreshInv'
  <2>1. CASE Submit(a) \/ CancelQueued(a)
    BY <2>1, FreshQueueStep
  <2>2. CASE DeleteOne(a)
    <3>1. DeleteRows({a}) /\ {a} \in SUBSET Attempts /\ \A b \in {a} : row[b] \in {"completed", "failed"}
      BY <2>2 DEF DeleteOne
    <3> QED
      BY <3>1, FreshDeleteStep
  <2>3. CASE Start(a) \/ RunPaired(a)
    BY <2>3, FreshStartStep, FreshPairedStep
  <2> QED
    BY <1>2, <2>1, <2>2, <2>3
<1>3. CASE ClearFailed
  <2>1. PICK S : S = {a \in Attempts : row[a] = "failed"}
    OBVIOUS
  <2>2. S \in SUBSET Attempts /\ DeleteRows(S) /\ \A a \in S : row[a] \in {"completed", "failed"}
    BY <1>3, <2>1 DEF ClearFailed
  <2> QED
    BY <2>2, FreshDeleteStep
<1>4. CASE Cancelled
  <2>1. work.at \notin {"idle", "collect"} /\ JobFails /\ checkpoints' = checkpoints
    BY <1>4 DEF Cancelled
  <2> QED
    BY <2>1, FreshFailStep
<1>5. CASE LoadCheckpoint \/ Infer \/ Save \/ ReplaceFile \/ FsyncDirectory
  BY <1>5, FreshLoadStep, FreshInferStep, FreshSaveStep
<1>6. CASE AppendChunk \/ PublishAudio \/ SyncAudio \/ Complete \/ CollectOwn
  BY <1>6, FreshAppendStep, FreshPublishStep, FreshCompleteStep
<1>7. CASE Crash \/ Reconcile \/ PruneTemporary \/ CollectAll
  BY <1>7, FreshCrashStep, FreshOtherStep
<1>8. CASE (\E f \in checkpoints : Rot(f)) \/ (\E r \in Requests : Stray(r))
  BY <1>8, FreshOtherStep
<1> QED
  BY <1>1, <1>2, <1>3, <1>4, <1>5, <1>6, <1>7, <1>8 DEF Next

(* For any engines, texts and seeds, any number of attempts, crashes and    *)
(* rotten files: an attempt that is completed sounds like its request,      *)
(* synthesised in one go, wherever its chunks came from                     *)
(* (generate_chunked; exact_chunk_checkpoints.py).                          *)
THEOREM ResumedAlwaysEqualsFresh == Spec => []ResumedEqualsFresh
<1>1. Init => StoreInv /\ FreshInv
  BY StoreInit, FreshInit
<1>2. StoreInv /\ FreshInv /\ [Next]_vars => StoreInv' /\ FreshInv'
  BY StoreStep, FreshStep
<1>3. FreshInv => ResumedEqualsFresh
  BY DEF FreshInv, CompletedSound, Sounds, Voiced, ResumedEqualsFresh
<1> QED
  BY <1>1, <1>2, <1>3, PTL DEF Spec

=============================================================================
