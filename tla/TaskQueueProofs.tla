--------------------------- MODULE TaskQueueProofs ---------------------------
(***************************************************************************)
(* Theorems about TaskQueue for every set of IDs, every set of jobs and    *)
(* every queue bound.  The inductive invariant is the conjunction of the   *)
(* invariants TLC checks: none of them is inductive alone, because what    *)
(* keeps an ID with one job is the agreement of all four tables.           *)
(***************************************************************************)
EXTENDS TaskQueue, TLAPS, SequenceTheorems

QueueInv ==
  /\ TypeOK
  /\ SingleOwner
  /\ TablesExact
  /\ CancelWhole
  /\ CancelReachesChild
  /\ WorkerHoldsJob
  /\ NothingOwnedWhenDown

USE JobsAssumption, MaxQueuedAssumption

-----------------------------------------------------------------------------
(* What Append and Tail do to the positions of a queue of jobs. *)
LEMMA AppendPositions ==
  ASSUME NEW q \in Seq(Jobs), NEW x \in Jobs
  PROVE  /\ Append(q, x) \in Seq(Jobs)
         /\ Len(Append(q, x)) = Len(q) + 1
         /\ DOMAIN q = 1..Len(q)
         /\ DOMAIN Append(q, x) = 1..(Len(q) + 1)
         /\ \A k \in 1..Len(q) : Append(q, x)[k] = q[k]
         /\ Append(q, x)[Len(q) + 1] = x
  OBVIOUS

LEMMA TailPositions ==
  ASSUME NEW q \in Seq(Jobs), q # <<>>
  PROVE  /\ Tail(q) \in Seq(Jobs)
         /\ Head(q) = q[1] /\ 1 \in DOMAIN q /\ Head(q) \in Jobs
         /\ DOMAIN q = 1..Len(q)
         /\ Len(Tail(q)) = Len(q) - 1
         /\ DOMAIN Tail(q) = 1..(Len(q) - 1)
         /\ \A k \in 1..(Len(q) - 1) : Tail(q)[k] = q[k + 1]
  OBVIOUS

LEMMA QueuedJob ==
  ASSUME TypeOK, TablesExact, NEW i \in queued
  PROVE  \E k \in DOMAIN queue : i \in queue[k] /\ jobOf[i] = queue[k]
  BY DEF TypeOK, TablesExact, QueuedJobIds

-----------------------------------------------------------------------------
LEMMA InitInv == QueueInit => QueueInv
<1> SUFFICES ASSUME QueueInit PROVE QueueInv
  OBVIOUS
<1>1. queue = <<>> /\ DOMAIN queue = {} /\ queue \in Seq(Jobs) /\ Len(queue) = 0
  BY DEF QueueInit
<1>2. TypeOK
  <2>1. jobOf \in [Ids -> Jobs \cup {{}}]
    BY DEF QueueInit
  <2>2. Len(queue) <= MaxQueued
    BY <1>1
  <2> QED
    BY <1>1, <2>1, <2>2 DEF QueueInit, TypeOK
<1>3. SingleOwner /\ TablesExact /\ CancelWhole /\ CancelReachesChild
  BY <1>1 DEF QueueInit, SingleOwner, TablesExact, CancelWhole,
              CancelReachesChild, QueuedJobIds, Owned
<1>4. WorkerHoldsJob /\ NothingOwnedWhenDown
  BY DEF QueueInit, WorkerHoldsJob, NothingOwnedWhenDown
<1> QED
  BY <1>2, <1>3, <1>4 DEF QueueInv

(* Restarting and crashing both leave an empty queue. *)
LEMMA ResetInv ==
  ASSUME InitQueue \/ QueueCrash
  PROVE  QueueInv'
<1>1. queue' = <<>>
  BY DEF InitQueue, QueueCrash
<1>2. DOMAIN queue' = {} /\ queue' \in Seq(Jobs) /\ Len(queue') = 0
  BY <1>1
<1>3. TypeOK'
  <2>1. (jobOf \in [Ids -> Jobs \cup {{}}])'
    BY DEF InitQueue, QueueCrash
  <2>2. Len(queue') <= MaxQueued
    BY <1>2
  <2> QED
    BY <1>2, <2>1, <2>2 DEF InitQueue, QueueCrash, TypeOK
<1>4. (SingleOwner /\ TablesExact /\ CancelWhole /\ CancelReachesChild)'
  BY <1>1, <1>2 DEF InitQueue, QueueCrash, SingleOwner, TablesExact, CancelWhole,
              CancelReachesChild, QueuedJobIds, Owned
<1>5. (WorkerHoldsJob /\ NothingOwnedWhenDown)'
  BY <1>1, <1>2 DEF InitQueue, QueueCrash, WorkerHoldsJob, NothingOwnedWhenDown, Owned
<1> QED
  BY <1>3, <1>4, <1>5 DEF QueueInv

LEMMA EnqueueInv ==
  ASSUME QueueInv, NEW ids \in Jobs, Enqueue(ids)
  PROVE  QueueInv'
<1> USE DEF QueueInv
<1>1. /\ queue' \in Seq(Jobs) /\ Len(queue') = Len(queue) + 1
      /\ DOMAIN queue = 1..Len(queue) /\ DOMAIN queue' = 1..(Len(queue) + 1)
      /\ \A k \in 1..Len(queue) : queue'[k] = queue[k]
      /\ queue'[Len(queue) + 1] = ids
      /\ Len(queue) \in Nat
  BY AppendPositions DEF Enqueue, TypeOK
<1>2. ids # {} /\ ids \subseteq Ids
  OBVIOUS
<1>3. \A k \in DOMAIN queue : queue[k] \cap ids = {}
  BY <1>1 DEF Enqueue, CanEnqueue, TablesExact, QueuedJobIds
<1>4. job \cap ids = {}
  BY DEF Enqueue, CanEnqueue, TablesExact
<1>5. TypeOK'
  <2>1. Len(queue') <= MaxQueued
    BY <1>1 DEF Enqueue, CanEnqueue
  <2>2. jobOf' \in [Ids -> Jobs \cup {{}}]
    BY DEF Enqueue, TypeOK
  <2> QED
    BY <1>1, <1>2, <2>1, <2>2
    DEF TypeOK, Enqueue, workerVars, childVars
<1>6. SingleOwner'
  BY <1>1, <1>3, <1>4 DEF SingleOwner, Enqueue, childVars
<1>7. TablesExact'
  <2>1. queued' = QueuedJobIds'
    BY <1>1 DEF TablesExact, QueuedJobIds, Enqueue
  <2>2. \A k \in DOMAIN queue' : \A i \in queue'[k] : jobOf'[i] = queue'[k]
    BY <1>1, <1>2, <1>3 DEF TablesExact, Enqueue, TypeOK
  <2>3. running' = job' /\ \A i \in job' : jobOf'[i] = job'
    BY <1>4 DEF TablesExact, Enqueue, TypeOK, childVars
  <2>4. \A i \in Ids : Owned(i)' => i \in queued' \cup running'
    BY DEF TablesExact, Enqueue, Owned
  <2> QED
    BY <2>1, <2>2, <2>3, <2>4 DEF TablesExact
<1>8. CancelWhole'
  <2>1. \A i \in cancelled : i \notin ids /\ i \in Ids
    BY DEF CancelWhole, TablesExact, Enqueue, CanEnqueue, TypeOK
  <2> QED
    BY <2>1 DEF CancelWhole, Enqueue, Owned
<1>9. (CancelReachesChild /\ WorkerHoldsJob /\ NothingOwnedWhenDown)'
  BY DEF CancelReachesChild, WorkerHoldsJob, NothingOwnedWhenDown,
         Enqueue, CanEnqueue, workerVars, childVars
<1> QED
  BY <1>5, <1>6, <1>7, <1>8, <1>9
-----------------------------------------------------------------------------
(* A cancel marks one whole job. *)
LEMMA CancelInv ==
  ASSUME QueueInv, NEW i \in Ids, CancelRunning(i) \/ CancelQueued(i)
  PROVE  QueueInv'
<1> USE DEF QueueInv
<1>1. /\ Owned(i) /\ JobIds(i) = jobOf[i] /\ jobOf[i] \subseteq Ids
      /\ \A j \in jobOf[i] : j \in Ids /\ jobOf[j] = jobOf[i]
  <2>1. CASE i \in running
    BY <2>1 DEF TablesExact, TypeOK, Owned, JobIds
  <2>2. CASE i \in queued
    <3>1. PICK k \in DOMAIN queue : i \in queue[k] /\ jobOf[i] = queue[k]
      BY <2>2, QueuedJob
    <3> QED
      BY <3>1 DEF TablesExact, TypeOK, Owned, JobIds
  <2> QED
    BY <2>1, <2>2 DEF CancelRunning, CancelQueued
<1>2. /\ UNCHANGED <<accepting, queue, queued, running, jobOf, workerVars, job, child>>
      /\ cancelled' = cancelled \cup jobOf[i]
      /\ childCancel' \in BOOLEAN
  <2>1. CASE CancelRunning(i)
    BY <2>1, <1>1 DEF CancelRunning, LiveChild
  <2>2. CASE CancelQueued(i)
    BY <2>2, <1>1 DEF CancelQueued, childVars, TypeOK
  <2> QED
    BY <2>1, <2>2
<1>3. TypeOK'
  BY <1>1, <1>2 DEF TypeOK, workerVars
<1>4. (SingleOwner /\ TablesExact /\ NothingOwnedWhenDown)'
  BY <1>2 DEF SingleOwner, TablesExact, NothingOwnedWhenDown, QueuedJobIds,
              Owned, workerVars
<1>5. CancelWhole'
  BY <1>1, <1>2 DEF CancelWhole, Owned
<1>6. CancelReachesChild'
  <2>1. CASE CancelRunning(i)
    BY <2>1, ZenonT(30) DEF CancelRunning, CancelReachesChild
  <2>2. CASE CancelQueued(i)
    <3>1. PICK k \in DOMAIN queue : i \in queue[k] /\ jobOf[i] = queue[k]
      BY <2>2, QueuedJob DEF CancelQueued
    <3>2. jobOf[i] \cap job = {}
      BY <3>1 DEF SingleOwner
    <3> QED
      BY <2>2, <3>2, <1>2 DEF CancelQueued, CancelReachesChild, childVars
  <2> QED
    BY <2>1, <2>2
<1>7. WorkerHoldsJob'
  BY <1>2 DEF WorkerHoldsJob, workerVars
<1> QED
  BY <1>3, <1>4, <1>5, <1>6, <1>7

-----------------------------------------------------------------------------
(* Both ways in which the worker removes the head of the queue shift the   *)
(* other jobs by one position.                                             *)
LEMMA RestOfQueue ==
  ASSUME QueueInv, queue # <<>>, queue' = Tail(queue)
  PROVE  /\ Head(queue) \in Jobs /\ Head(queue) # {} /\ Head(queue) \subseteq Ids
         /\ \A i \in Head(queue) : jobOf[i] = Head(queue)
         /\ queue' \in Seq(Jobs) /\ Len(queue') <= MaxQueued
         /\ \A k \in DOMAIN queue' : /\ k + 1 \in DOMAIN queue
                                     /\ queue'[k] = queue[k + 1]
                                     /\ queue'[k] \cap Head(queue) = {}
         /\ QueuedJobIds' = QueuedJobIds \ Head(queue)
         /\ SingleOwner => \A k, l \in DOMAIN queue' : k # l => queue'[k] \cap queue'[l] = {}
         /\ Head(queue) \cap job = {}
<1> USE DEF QueueInv
<1>1. /\ queue' \in Seq(Jobs)
      /\ Head(queue) = queue[1] /\ 1 \in DOMAIN queue /\ Head(queue) \in Jobs
      /\ DOMAIN queue = 1..Len(queue) /\ Len(queue) \in Nat
      /\ Len(queue') = Len(queue) - 1
      /\ DOMAIN queue' = 1..(Len(queue) - 1)
      /\ \A k \in 1..(Len(queue) - 1) : queue'[k] = queue[k + 1]
  BY TailPositions DEF TypeOK
<1>2. \A k \in DOMAIN queue' : /\ k + 1 \in DOMAIN queue /\ k + 1 # 1
                               /\ queue'[k] = queue[k + 1]
  BY <1>1
<1>3. \A k \in DOMAIN queue' : queue'[k] \cap Head(queue) = {}
  BY <1>1, <1>2 DEF SingleOwner
<1>4. QueuedJobIds' = QueuedJobIds \ Head(queue)
  <2>1. ASSUME NEW x \in QueuedJobIds'
        PROVE  x \in QueuedJobIds \ Head(queue)
    BY <2>1, <1>2, <1>3 DEF QueuedJobIds
  <2>2. ASSUME NEW x \in QueuedJobIds, x \notin Head(queue)
        PROVE  x \in QueuedJobIds'
    <3>1. PICK k \in DOMAIN queue : x \in queue[k]
      BY DEF QueuedJobIds
    <3>2. k # 1 /\ k - 1 \in DOMAIN queue' /\ queue'[k - 1] = queue[k]
      BY <3>1, <2>2, <1>1
    <3> QED
      BY <3>1, <3>2 DEF QueuedJobIds
  <2> QED
    BY <2>1, <2>2
<1>5. \A k, l \in DOMAIN queue' : k # l => queue'[k] \cap queue'[l] = {}
  BY <1>1, <1>2 DEF SingleOwner
<1>6. Len(queue') <= MaxQueued
  BY <1>1 DEF TypeOK
<1>7. \A i \in Head(queue) : jobOf[i] = Head(queue)
  BY <1>1 DEF TablesExact
<1>8. Head(queue) \cap job = {}
  BY <1>1 DEF SingleOwner
<1> QED
  BY <1>1, <1>2, <1>3, <1>4, <1>5, <1>6, <1>7, <1>8

-----------------------------------------------------------------------------
LEMMA TakeInv ==
  ASSUME QueueInv, WorkerTake
  PROVE  QueueInv'
<1> USE DEF QueueInv
<1> DEFINE h == Head(queue)
<1>1. queue # <<>> /\ queue' = Tail(queue) /\ worker = "idle" /\ job = {}
  BY DEF WorkerTake, Listening, WorkerHoldsJob
<1>2. /\ h \in Jobs /\ h # {} /\ h \subseteq Ids
      /\ \A i \in h : jobOf[i] = h
      /\ queue' \in Seq(Jobs) /\ Len(queue') <= MaxQueued
      /\ \A k \in DOMAIN queue' : /\ k + 1 \in DOMAIN queue
                                  /\ queue'[k] = queue[k + 1]
                                  /\ queue'[k] \cap h = {}
      /\ QueuedJobIds' = QueuedJobIds \ h
      /\ \A k, l \in DOMAIN queue' : k # l => queue'[k] \cap queue'[l] = {}
  BY <1>1, RestOfQueue
<1>3. /\ job' = h /\ child' = "fresh" /\ childCancel' = FALSE
      /\ running' = running \cup h /\ queued' = queued \ h
      /\ worker' = "awaiting"
      /\ UNCHANGED <<accepting, cancelled, jobOf, cancelling, pending>>
      /\ h \cap cancelled = {}
  BY DEF WorkerTake
<1> HIDE DEF h
<1>4. TypeOK'
  BY <1>2, <1>3, ZenonT(30) DEF TypeOK, LiveChild
<1>5. SingleOwner'
  BY <1>2, <1>3 DEF SingleOwner
<1>6. TablesExact'
  <2>1. queued' = QueuedJobIds' /\ running' = job'
    BY <1>1, <1>2, <1>3 DEF TablesExact
  <2>2. \A k \in DOMAIN queue' : \A i \in queue'[k] : jobOf'[i] = queue'[k]
    BY <1>2, <1>3 DEF TablesExact
  <2>3. \A i \in Ids : Owned(i)' => i \in queued' \cup running'
    BY <1>3 DEF TablesExact, Owned
  <2> QED
    BY <1>2, <1>3, <2>1, <2>2, <2>3 DEF TablesExact
<1>7. CancelWhole' /\ CancelReachesChild'
  BY <1>3 DEF CancelWhole, CancelReachesChild, Owned
<1>8. WorkerHoldsJob' /\ NothingOwnedWhenDown'
  BY <1>1, <1>2, <1>3 DEF WorkerHoldsJob, NothingOwnedWhenDown
<1> QED
  BY <1>4, <1>5, <1>6, <1>7, <1>8

LEMMA SkipInv ==
  ASSUME QueueInv, WorkerSkip
  PROVE  QueueInv'
<1> USE DEF QueueInv
<1> DEFINE h == Head(queue)
<1>1. queue # <<>> /\ queue' = Tail(queue) /\ worker = "idle" /\ job = {}
  BY DEF WorkerSkip, Listening, WorkerHoldsJob
<1>2. /\ h \in Jobs /\ h # {} /\ h \subseteq Ids
      /\ \A i \in h : jobOf[i] = h
      /\ queue' \in Seq(Jobs) /\ Len(queue') <= MaxQueued
      /\ \A k \in DOMAIN queue' : /\ k + 1 \in DOMAIN queue
                                  /\ queue'[k] = queue[k + 1]
                                  /\ queue'[k] \cap h = {}
      /\ QueuedJobIds' = QueuedJobIds \ h
      /\ \A k, l \in DOMAIN queue' : k # l => queue'[k] \cap queue'[l] = {}
  BY <1>1, RestOfQueue
<1>3. /\ running' = running \ h /\ queued' = queued \ h
      /\ cancelled' = cancelled \ h
      /\ jobOf' = [i \in Ids |-> IF i \in h THEN {} ELSE jobOf[i]]
      /\ UNCHANGED <<accepting, worker, cancelling, pending, job, child, childCancel>>
  BY DEF WorkerSkip, Release, workerVars, childVars
<1> HIDE DEF h
<1>4. TypeOK'
  <2>1. jobOf' \in [Ids -> Jobs \cup {{}}]
    BY <1>3 DEF TypeOK
  <2> QED
    BY <1>2, <1>3, <2>1 DEF TypeOK
<1>5. SingleOwner'
  BY <1>1, <1>2, <1>3 DEF SingleOwner
<1>6. TablesExact'
  <2>1. queued' = QueuedJobIds' /\ running' = job'
    BY <1>1, <1>2, <1>3 DEF TablesExact
  <2>2. \A k \in DOMAIN queue' : \A i \in queue'[k] : jobOf'[i] = queue'[k]
    <3> TAKE k \in DOMAIN queue'
    <3> TAKE i \in queue'[k]
    <3>1. queue'[k] \in Jobs
      BY <1>2
    <3> QED
      BY <1>2, <1>3, <3>1 DEF TablesExact
  <2>3. \A i \in Ids : Owned(i)' => i \in queued' \cup running'
    BY <1>3 DEF TablesExact, Owned
  <2> QED
    BY <1>1, <1>3, <2>1, <2>2, <2>3, ZenonT(30) DEF TablesExact
<1>7. CancelWhole'
  <2> SUFFICES ASSUME NEW i \in cancelled'
               PROVE  Owned(i)' /\ jobOf'[i] \subseteq cancelled'
    BY DEF CancelWhole
  <2>1. i \in cancelled /\ i \notin h /\ i \in Ids
    BY <1>3 DEF TypeOK
  <2>2. Owned(i) /\ jobOf[i] \subseteq cancelled /\ jobOf'[i] = jobOf[i]
    BY <2>1, <1>3 DEF CancelWhole
  <2>3. \E k \in DOMAIN queue : i \in queue[k] /\ jobOf[i] = queue[k]
    BY <2>1, <2>2, <1>1, QueuedJob DEF TablesExact
  <2>4. jobOf[i] \cap h = {}
    <3> SUFFICES ASSUME NEW j \in jobOf[i], j \in h
                 PROVE  FALSE
      OBVIOUS
    <3>1. jobOf[j] = h /\ jobOf[j] = jobOf[i]
      BY <1>2, <2>3 DEF TablesExact
    <3> QED
      BY <2>1, <2>3, <3>1
  <2> QED
    BY <2>2, <2>4, <1>3 DEF Owned
<1>8. (CancelReachesChild /\ WorkerHoldsJob /\ NothingOwnedWhenDown)'
  BY <1>1, <1>3 DEF CancelReachesChild, WorkerHoldsJob, NothingOwnedWhenDown
<1> QED
  BY <1>4, <1>5, <1>6, <1>7, <1>8

-----------------------------------------------------------------------------
(* The executing job gives back its own IDs only. *)
LEMMA FinishInv ==
  ASSUME QueueInv, WorkerFinish
  PROVE  QueueInv'
<1> USE DEF QueueInv
<1>1. /\ worker = "awaiting" /\ job # {} /\ running = job
      /\ \A i \in job : jobOf[i] = job
  BY DEF WorkerFinish, WorkerHoldsJob, TablesExact
<1>2. /\ running' = {} /\ queued' = queued \ job /\ cancelled' = cancelled \ job
      /\ jobOf' = [i \in Ids |-> IF i \in job THEN {} ELSE jobOf[i]]
      /\ job' = {} /\ child' = "none" /\ childCancel' = FALSE
      /\ worker' \in {"idle", "exited"}
      /\ UNCHANGED <<accepting, queue, cancelling, pending>>
  BY <1>1 DEF WorkerFinish, Release
<1>3. \A k \in DOMAIN queue : queue[k] \in Jobs /\ queue[k] \subseteq Ids /\ queue[k] \cap job = {}
  BY DEF SingleOwner, TypeOK
<1>4. queued \cap job = {}
  BY <1>3 DEF TablesExact, QueuedJobIds
<1>5. TypeOK'
  <2>1. jobOf' \in [Ids -> Jobs \cup {{}}]
    BY <1>2 DEF TypeOK
  <2> QED
    BY <1>2, <2>1, ZenonT(30) DEF TypeOK
<1>6. SingleOwner'
  BY <1>2 DEF SingleOwner
<1>7. TablesExact'
  <2>1. queued' = QueuedJobIds'
    BY <1>2, <1>4 DEF TablesExact, QueuedJobIds
  <2>2. \A k \in DOMAIN queue' : \A i \in queue'[k] : jobOf'[i] = queue'[k]
    BY <1>2, <1>3 DEF TablesExact
  <2>3. \A i \in Ids : Owned(i)' => i \in queued' \cup running'
    BY <1>1, <1>2 DEF TablesExact, Owned
  <2> QED
    BY <1>2, <2>1, <2>2, <2>3 DEF TablesExact
<1>8. CancelWhole'
  <2> SUFFICES ASSUME NEW i \in cancelled'
               PROVE  Owned(i)' /\ jobOf'[i] \subseteq cancelled'
    BY DEF CancelWhole
  <2>1. i \in cancelled /\ i \notin job /\ i \in Ids
    BY <1>2 DEF TypeOK
  <2>2. Owned(i) /\ jobOf[i] \subseteq cancelled /\ jobOf'[i] = jobOf[i]
    BY <2>1, <1>2 DEF CancelWhole
  <2>3. \E k \in DOMAIN queue : i \in queue[k] /\ jobOf[i] = queue[k]
    BY <2>1, <2>2, <1>1, QueuedJob DEF TablesExact
  <2> QED
    BY <2>2, <2>3, <1>2, <1>3 DEF Owned
<1>9. (CancelReachesChild /\ WorkerHoldsJob /\ NothingOwnedWhenDown)'
  <2>1. accepting' => worker' \in {"idle", "awaiting"} /\ ~cancelling'
    BY <1>1, <1>2 DEF WorkerFinish, WorkerLeaves, WorkerHoldsJob
  <2> QED
    BY <1>1, <1>2, <2>1 DEF CancelReachesChild, WorkerHoldsJob, NothingOwnedWhenDown
<1> QED
  BY <1>5, <1>6, <1>7, <1>8, <1>9

-----------------------------------------------------------------------------
(* Steps that touch neither the queue nor the tables. *)
LEMMA ControlInv ==
  ASSUME QueueInv,
         \/ WorkerStop \/ ChildStart \/ ChildNeverStarts
         \/ \E how \in DoneChild : ChildEnd(how)
         \/ ShutdownRequest
  PROVE  QueueInv'
<1> USE DEF QueueInv
<1>1. UNCHANGED <<queue, queued, running, cancelled, jobOf, job>>
  BY DEF WorkerStop, ChildStart, ChildNeverStarts, ChildEnd, ShutdownRequest,
         tableVars, childVars
<1>2. (SingleOwner /\ TablesExact /\ CancelWhole)'
  BY <1>1 DEF SingleOwner, TablesExact, CancelWhole, Owned, QueuedJobIds
<1>3. CASE WorkerStop
  BY <1>1, <1>2, <1>3
  DEF WorkerStop, childVars, TypeOK, CancelReachesChild, WorkerHoldsJob,
      NothingOwnedWhenDown
<1>4. CASE \/ ChildStart \/ ChildNeverStarts
           \/ \E how \in DoneChild : ChildEnd(how)
  <2>1. /\ child \in LiveChild /\ child' \in {"running"} \cup DoneChild
        /\ child' = "running" => ~childCancel /\ child = "fresh"
        /\ UNCHANGED <<accepting, worker, cancelling, pending, childCancel>>
    BY <1>4 DEF ChildStart, ChildNeverStarts, ChildEnd, LiveChild, DoneChild, workerVars
  <2>2. TypeOK'
    BY <1>1, <2>1 DEF TypeOK, LiveChild, DoneChild
  <2>3. CancelReachesChild'
    BY <1>1, <2>1 DEF CancelReachesChild, LiveChild, DoneChild
  <2>4. (WorkerHoldsJob /\ NothingOwnedWhenDown)'
    BY <1>1, <2>1 DEF WorkerHoldsJob, NothingOwnedWhenDown, LiveChild, DoneChild, Owned
  <2> QED
    BY <1>2, <2>2, <2>3, <2>4
<1>5. CASE ShutdownRequest
  <2>1. /\ accepting' = FALSE /\ cancelling' = TRUE /\ pending' \in BOOLEAN
        /\ childCancel' = (child \in LiveChild) /\ childCancel' \in BOOLEAN
        /\ UNCHANGED <<worker, child>>
    BY <1>5 DEF ShutdownRequest
  <2>2. TypeOK'
    BY <1>1, <2>1, ZenonT(30) DEF TypeOK
  <2>3. (CancelReachesChild /\ WorkerHoldsJob /\ NothingOwnedWhenDown)'
    BY <1>1, <2>1, ZenonT(30) DEF CancelReachesChild, WorkerHoldsJob, NothingOwnedWhenDown, Owned
  <2> QED
    BY <1>2, <2>2, <2>3
<1> QED
  BY <1>3, <1>4, <1>5

(* Draining gives back every ID that is still owned. *)
LEMMA DrainInv ==
  ASSUME QueueInv, ShutdownDrain
  PROVE  QueueInv'
<1> USE DEF QueueInv
<1>1. /\ worker = "exited" /\ job = {} /\ child = "none" /\ running = {}
      /\ queued = QueuedJobIds
  BY DEF ShutdownDrain, WorkerHoldsJob, TablesExact
<1>2. /\ queue' = <<>> /\ running' = {} /\ queued' = {}
      /\ cancelled' = cancelled \ QueuedJobIds
      /\ jobOf' = [i \in Ids |-> IF i \in QueuedJobIds THEN {} ELSE jobOf[i]]
      /\ worker' = "none" /\ cancelling' = FALSE /\ pending' = FALSE
      /\ ~accepting' /\ accepting' \in BOOLEAN
      /\ UNCHANGED <<job, child, childCancel>>
  BY <1>1 DEF ShutdownDrain, Release, childVars, TypeOK
<1>3. \A i \in Ids : ~Owned(i)'
  BY <1>1, <1>2 DEF TablesExact, Owned
<1>4. cancelled' = {}
  BY <1>1, <1>2 DEF CancelWhole, TablesExact, TypeOK
<1>5. DOMAIN queue' = {} /\ queue' \in Seq(Jobs) /\ Len(queue') = 0
  BY <1>2
<1>6. TypeOK'
  <2>1. jobOf' \in [Ids -> Jobs \cup {{}}]
    BY <1>2 DEF TypeOK
  <2>2. Len(queue') <= MaxQueued
    BY <1>5
  <2>3. worker' \in {"none", "idle", "awaiting", "exited"}
    BY <1>2
  <2>4. /\ job' \in Jobs \cup {{}} /\ childCancel' \in BOOLEAN
        /\ child' \in {"none"} \cup LiveChild \cup DoneChild
    BY <1>2 DEF TypeOK
  <2> QED
    BY <1>2, <1>4, <1>5, <2>1, <2>2, <2>3, <2>4 DEF TypeOK
<1>7. (SingleOwner /\ TablesExact /\ CancelWhole)'
  BY <1>1, <1>2, <1>3, <1>4, <1>5 DEF SingleOwner, TablesExact, CancelWhole, QueuedJobIds
<1>8. (CancelReachesChild /\ WorkerHoldsJob /\ NothingOwnedWhenDown)'
  BY <1>1, <1>2, <1>3 DEF CancelReachesChild, WorkerHoldsJob, NothingOwnedWhenDown
<1> QED
  BY <1>6, <1>7, <1>8

(* What the invariant says of the place of an ID, for the modules that     *)
(* compose the queue with its callers.                                     *)
LEMMA QueueFacts ==
  ASSUME QueueInv
  PROVE  /\ queued \subseteq Ids /\ job \subseteq Ids
         /\ queued \cap job = {}
         /\ running = job
         /\ \A i \in Ids : Owned(i) <=> i \in queued \cup job
         /\ queue # <<>> => Head(queue) \subseteq queued
         /\ QueuedJobIds = queued
         /\ child \in DoneChild \cup {"fresh", "running"} <=> job # {}
<1> USE DEF QueueInv
<1>1. queued \subseteq Ids /\ running = job /\ QueuedJobIds = queued
  BY DEF TypeOK, TablesExact
<1>2. job \subseteq Ids
  BY DEF TypeOK
<1>3. queued \cap job = {}
  BY DEF SingleOwner, TablesExact, QueuedJobIds
<1>4. ASSUME NEW i \in Ids
      PROVE  Owned(i) <=> i \in queued \cup job
  <2>1. i \in job => jobOf[i] = job /\ job # {}
    BY DEF TablesExact
  <2>2. i \in queued => jobOf[i] # {}
    BY QueuedJob
  <2> QED
    BY <2>1, <2>2 DEF TablesExact, Owned
<1>5. ASSUME queue # <<>> PROVE Head(queue) \subseteq queued
  <2>1. 1 \in DOMAIN queue /\ Head(queue) = queue[1]
    BY <1>5, TailPositions DEF TypeOK
  <2> QED
    BY <2>1, <1>1 DEF QueuedJobIds
<1>6. child \in DoneChild \cup {"fresh", "running"} <=> job # {}
  BY DEF TypeOK, WorkerHoldsJob, LiveChild, DoneChild
<1> QED
  BY <1>1, <1>2, <1>3, <1>4, <1>5, <1>6

(* Cancelling one ID of an uncancelled waiting job: its siblings wait too, *)
(* and none of them is cancelled.                                          *)
LEMMA WaitingSiblings ==
  ASSUME QueueInv, NEW i \in Ids, i \in queued, i \notin cancelled
  PROVE  JobIds(i) \subseteq queued /\ JobIds(i) \cap cancelled = {} /\ i \in JobIds(i)
<1> USE DEF QueueInv
<1>1. PICK k \in DOMAIN queue : i \in queue[k] /\ jobOf[i] = queue[k]
  BY QueuedJob
<1>2. JobIds(i) = queue[k] /\ queue[k] # {}
  BY <1>1 DEF JobIds, Owned
<1>3. queue[k] \subseteq queued
  BY QueueFacts DEF QueuedJobIds
<1>4. ASSUME NEW j \in queue[k] PROVE j \notin cancelled
  BY <1>1, <1>4 DEF CancelWhole, TablesExact
<1> QED
  BY <1>1, <1>2, <1>3, <1>4

-----------------------------------------------------------------------------
(* QueueInv is inductive. *)
LEMMA StepInv == QueueInv /\ [QueueNext]_queueVars => QueueInv'
<1> SUFFICES ASSUME QueueInv, [QueueNext]_queueVars
             PROVE  QueueInv'
  OBVIOUS
<1>1. ASSUME NEW ids \in Jobs, Enqueue(ids) PROVE QueueInv'
  BY <1>1, EnqueueInv
<1>2. ASSUME NEW i \in Ids, CancelRunning(i) \/ CancelQueued(i) PROVE QueueInv'
  BY <1>2, CancelInv
<1>3. CASE WorkerTake
  BY <1>3, TakeInv
<1>4. CASE WorkerSkip
  BY <1>4, SkipInv
<1>5. CASE WorkerFinish
  BY <1>5, FinishInv
<1>6. CASE \/ WorkerStop \/ ChildStart \/ ChildNeverStarts
           \/ \E how \in DoneChild : ChildEnd(how)
           \/ ShutdownRequest
  BY <1>6, ControlInv
<1>7. CASE ShutdownDrain
  BY <1>7, DrainInv
<1>8. CASE QueueCrash \/ InitQueue
  BY <1>8, ResetInv
<1>9. CASE UNCHANGED queueVars
  BY <1>9 DEF queueVars, tableVars, workerVars, childVars, QueueInv, TypeOK,
     SingleOwner, TablesExact, CancelWhole, CancelReachesChild, WorkerHoldsJob,
     NothingOwnedWhenDown, Owned, QueuedJobIds
<1> QED
  BY <1>1, <1>2, <1>3, <1>4, <1>5, <1>6, <1>7, <1>8, <1>9 DEF QueueNext

(* The state of the queue always has its type, and never more waiting jobs *)
(* than the configured bound (enqueue_generation_batch, worker, shutdown). *)
THEOREM TypeCorrect == QueueSpec => []TypeOK
<1>1. QueueInv => TypeOK
  BY DEF QueueInv
<1> QED
  BY <1>1, InitInv, StepInv, PTL DEF QueueSpec

(* No ID is ever owned by two jobs (task_queue.py:268-272, 307-308). *)
THEOREM SingleOwnerAlways == QueueSpec => []SingleOwner
<1>1. QueueInv => SingleOwner
  BY DEF QueueInv
<1> QED
  BY <1>1, InitInv, StepInv, PTL DEF QueueSpec

(* The dictionaries and sets of the module always agree with the queue and *)
(* the worker: what the routes read from them is the truth.                *)
THEOREM TablesAlwaysExact == QueueSpec => []TablesExact
<1>1. QueueInv => TablesExact
  BY DEF QueueInv
<1> QED
  BY <1>1, InitInv, StepInv, PTL DEF QueueSpec

(* A cancel covers its whole job, and no mark survives the job. *)
THEOREM CancelAlwaysWhole == QueueSpec => [](CancelWhole /\ CancelReachesChild)
<1>1. QueueInv => CancelWhole /\ CancelReachesChild
  BY DEF QueueInv
<1> QED
  BY <1>1, InitInv, StepInv, PTL DEF QueueSpec

(* After shutdown, or a crash, nothing is owned by the queue. *)
THEOREM NothingOwnedWhenDownAlways == QueueSpec => []NothingOwnedWhenDown
<1>1. QueueInv => NothingOwnedWhenDown
  BY DEF QueueInv
<1> QED
  BY <1>1, InitInv, StepInv, PTL DEF QueueSpec

(* An accepted cancel of a waiting job wins over the worker: the only step *)
(* that makes a job execute is the one that looked for a cancelled ID.     *)
THEOREM CancelledJobNeverStarts == QueueSpec => CancelledNeverStarts
<1>1. ASSUME QueueInv, [QueueNext]_queueVars, job' # job
      PROVE  job' \cap cancelled = {}
  <2>1. CASE WorkerTake
    BY <2>1 DEF WorkerTake
  <2>2. CASE WorkerFinish \/ InitQueue \/ QueueCrash
    BY <2>2 DEF WorkerFinish, InitQueue, QueueCrash
  <2>3. CASE ~(WorkerTake \/ WorkerFinish \/ InitQueue \/ QueueCrash)
    <3>1. job' = job
      BY <1>1, <2>3 DEF QueueNext, Enqueue, CancelRunning, CancelQueued, WorkerSkip, WorkerStop,
         ChildStart, ChildNeverStarts, ChildEnd, ShutdownRequest, ShutdownDrain, queueVars, childVars
    <3> QED
      BY <1>1, <3>1
  <2> QED
    BY <2>1, <2>2, <2>3
<1>2. QueueInv /\ [QueueNext]_queueVars => [job' # job => job' \cap cancelled = {}]_queueVars
  BY <1>1
<1> QED
  BY <1>2, InitInv, StepInv, PTL DEF QueueSpec, CancelledNeverStarts

(* What Release does to the record of one ID. *)
LEMMA Released ==
  ASSUME NEW ids \in SUBSET Ids, Release(ids), NEW i \in Ids
  PROVE  Owned(i)' <=> Owned(i) /\ i \notin ids
BY DEF Release, Owned

(* Siblings become free together, whether their job ends, is dropped, is   *)
(* drained by shutdown or dies with the process.                           *)
THEOREM SiblingsReleasedTogether == QueueSpec => ReleasedTogether
<1>1. ASSUME QueueInv, [QueueNext]_queueVars, NEW i \in Ids, Owned(i), ~Owned(i)', NEW j \in jobOf[i]
      PROVE  ~Owned(j)'
  <2>1. j \in Ids
    BY <1>1 DEF QueueInv, TypeOK
  <2>2. CASE WorkerSkip
    <3>1. /\ Head(queue) \in SUBSET Ids /\ Release(Head(queue))
          /\ \A x \in Head(queue) : jobOf[x] = Head(queue)
      BY <1>1, <2>2, RestOfQueue DEF WorkerSkip, Listening
    <3>2. i \in Head(queue) /\ j \in Head(queue)
      BY <1>1, <3>1, Released
    <3> QED
      BY <2>1, <3>1, <3>2, Released
  <2>3. CASE WorkerFinish
    <3>1. job \in SUBSET Ids /\ Release(job)
      BY <1>1, <2>3, QueueFacts DEF WorkerFinish
    <3>2. i \in job /\ jobOf[i] = job
      BY <1>1, <3>1, Released DEF QueueInv, TablesExact
    <3> QED
      BY <1>1, <2>1, <3>1, <3>2, Released
  <2>4. CASE ShutdownDrain
    <3>1. QueuedJobIds \in SUBSET Ids /\ Release(QueuedJobIds) /\ QueuedJobIds = queued
      BY <1>1, <2>4, QueueFacts DEF ShutdownDrain
    <3>2. i \in queued
      BY <1>1, <3>1, Released
    <3>3. jobOf[i] \subseteq queued
      BY <1>1, <3>2, QueuedJob, <3>1 DEF QueueInv, QueuedJobIds
    <3> QED
      BY <1>1, <2>1, <3>1, <3>3, Released
  <2>5. CASE InitQueue \/ QueueCrash
    BY <2>1, <2>5 DEF InitQueue, QueueCrash, Owned
  <2>6. CASE \E ids \in Jobs : Enqueue(ids)
    BY <1>1, <2>6 DEF Enqueue, Owned
  <2>7. CASE ~(\/ WorkerSkip \/ WorkerFinish \/ ShutdownDrain \/ InitQueue \/ QueueCrash
               \/ \E ids \in Jobs : Enqueue(ids))
    <3>1. jobOf' = jobOf
      BY <1>1, <2>7 DEF QueueNext, CancelRunning, CancelQueued, WorkerTake, WorkerStop,
         ChildStart, ChildNeverStarts, ChildEnd, ShutdownRequest, queueVars, tableVars
    <3> QED
      BY <1>1, <3>1 DEF Owned
  <2> QED
    BY <2>2, <2>3, <2>4, <2>5, <2>6, <2>7
<1>2. QueueInv /\ [QueueNext]_queueVars =>
        [\A i \in Ids : Owned(i) /\ ~Owned(i)' => \A j \in jobOf[i] : ~Owned(j)']_queueVars
  BY <1>1
<1> QED
  BY <1>2, InitInv, StepInv, PTL DEF QueueSpec, ReleasedTogether
(* Whichever of the tables is asked, an ID has one owner, and cancelling    *)
(* one member has cancelled the whole job and reached its task.             *)
THEOREM OwnershipAlwaysExact == QueueSpec => []OwnershipIsExact
<1>1. SingleOwner /\ TablesExact /\ (CancelWhole /\ CancelReachesChild) => OwnershipIsExact
  BY DEF OwnershipIsExact
<1> QED
  BY <1>1, SingleOwnerAlways, TablesAlwaysExact, CancelAlwaysWhole, PTL

(* A job is not started once a member is cancelled, and is released whole.  *)
THEOREM JobsAreAlwaysUnits == QueueSpec => JobsAreUnits
BY CancelledJobNeverStarts, SiblingsReleasedTogether DEF JobsAreUnits

-----------------------------------------------------------------------------
(* The queue as its callers see it: every waiting job with the one mark of *)
(* the serial executor, derived from the marks of its IDs.                 *)
Marked(q, marks) ==
  [k \in DOMAIN q |-> [ids |-> q[k], dropped |-> q[k] \cap marks # {}]]

Entries == [ids : Jobs, dropped : BOOLEAN]

LEMMA EntryFields ==
  ASSUME NEW e, NEW x, NEW marks, e = [ids |-> x, dropped |-> x \cap marks # {}]
  PROVE  e.ids = x /\ (e.dropped <=> x \cap marks # {})
BY   ZenonT(30)

LEMMA DropEntry ==
  ASSUME NEW e \in Entries
  PROVE  /\ [e EXCEPT !.dropped = TRUE] \in Entries
         /\ [e EXCEPT !.dropped = TRUE].ids = e.ids
         /\ [e EXCEPT !.dropped = TRUE].dropped
BY ZenonT(30) DEF Entries

LEMMA MarkedSequence ==
  ASSUME NEW q \in Seq(Jobs), NEW marks
  PROVE  /\ Marked(q, marks) \in Seq(Entries)
         /\ Len(Marked(q, marks)) = Len(q) /\ DOMAIN Marked(q, marks) = DOMAIN q
         /\ DOMAIN q = 1..Len(q) /\ Len(q) \in Nat
         /\ \A k \in DOMAIN q : /\ Marked(q, marks)[k].ids = q[k]
                                /\ Marked(q, marks)[k].dropped <=> q[k] \cap marks # {}
         /\ Marked(q, marks) = <<>> <=> q = <<>>
<1>1. DOMAIN q = 1..Len(q) /\ Len(q) \in Nat /\ \A k \in DOMAIN q : q[k] \in Jobs
  OBVIOUS
<1>2. \A k \in DOMAIN q : Marked(q, marks)[k] = [ids |-> q[k], dropped |-> q[k] \cap marks # {}]
  BY DEF Marked
<1>3. Marked(q, marks) \in [1..Len(q) -> Entries]
  BY <1>1 DEF Marked, Entries
<1>4. Marked(q, marks) \in Seq(Entries) /\ Len(Marked(q, marks)) = Len(q)
  BY <1>1, <1>3, SeqDef
<1>5. Marked(q, marks) = <<>> <=> q = <<>>
  BY <1>1, <1>4, EmptySeq
<1>6. ASSUME NEW k \in DOMAIN q
      PROVE  /\ Marked(q, marks)[k].ids = q[k]
             /\ Marked(q, marks)[k].dropped <=> q[k] \cap marks # {}
  <2>1. PICK e : e = Marked(q, marks)[k]
    OBVIOUS
  <2>2. e = [ids |-> q[k], dropped |-> q[k] \cap marks # {}]
    BY <1>2, <1>6, <2>1
  <2>3. e.ids = q[k] /\ (e.dropped <=> q[k] \cap marks # {})
    BY ONLY <2>2, EntryFields, Zenon
  <2> QED
    BY ONLY <2>1, <2>3
<1>7. DOMAIN Marked(q, marks) = DOMAIN q
  BY DEF Marked
<1> QED
  BY <1>1, <1>4, <1>5, <1>6, <1>7

LEMMA EmptyMarked ==
  ASSUME NEW marks
  PROVE  Marked(<<>>, marks) = <<>>
<1>1. <<>> \in Seq(Jobs)
  OBVIOUS
<1>2. PICK q \in Seq(Jobs) : q = <<>>
  BY ONLY <1>1, Zenon
<1> QED
  BY <1>2, MarkedSequence, ZenonT(30)

(* Two sequences of entries that agree at every position are equal. *)
LEMMA SameEntries ==
  ASSUME NEW s \in Seq(Entries), NEW t \in Seq(Entries), Len(s) = Len(t),
         \A k \in 1..Len(s) : s[k].ids = t[k].ids /\ (s[k].dropped <=> t[k].dropped)
  PROVE  s = t
<1>1. \A k \in 1..Len(s) : s[k] \in Entries /\ t[k] \in Entries
  OBVIOUS
<1>2. \A k \in 1..Len(s) : s[k] = t[k]
  BY <1>1 DEF Entries
<1> QED
  BY <1>2, SeqEqual

LEMMA MarkedAppend ==
  ASSUME NEW q \in Seq(Jobs), NEW x \in Jobs, NEW marks, x \cap marks = {}
  PROVE  Marked(Append(q, x), marks) = Append(Marked(q, marks), [ids |-> x, dropped |-> FALSE])
<1> DEFINE e == [ids |-> x, dropped |-> FALSE]
<1>1. e \in Entries /\ e.ids = x /\ ~e.dropped
  BY DEF Entries
<1> HIDE DEF e
<1>2. Append(q, x) \in Seq(Jobs) /\ Len(Append(q, x)) = Len(q) + 1 /\ Len(q) \in Nat
  OBVIOUS
<1>3. Append(Marked(q, marks), e) \in Seq(Entries) /\ Len(Append(Marked(q, marks), e)) = Len(q) + 1
  BY <1>1, MarkedSequence
<1>4. ASSUME NEW k \in 1..(Len(q) + 1)
      PROVE  /\ Marked(Append(q, x), marks)[k].ids = Append(Marked(q, marks), e)[k].ids
             /\ Marked(Append(q, x), marks)[k].dropped <=> Append(Marked(q, marks), e)[k].dropped
  <2>1. /\ Marked(Append(q, x), marks)[k].ids = Append(q, x)[k]
        /\ Marked(Append(q, x), marks)[k].dropped <=> Append(q, x)[k] \cap marks # {}
    <3>1. k \in DOMAIN Append(q, x)
      BY <1>2, AppendPositions
    <3>2. PICK r \in Seq(Jobs) : r = Append(q, x)
      BY <1>2, ZenonT(30)
    <3>3. /\ Marked(r, marks)[k].ids = r[k]
          /\ (Marked(r, marks)[k].dropped <=> r[k] \cap marks # {})
      <4>1. k \in DOMAIN r
        BY <3>1, <3>2
      <4> QED
        BY ONLY r \in Seq(Jobs), <4>1, MarkedSequence, Zenon
    <3> QED
      BY <3>2, <3>3
  <2>2. CASE k = Len(q) + 1
    <3>1. Append(Marked(q, marks), e)[k] = e
      BY <2>2, MarkedSequence, <1>1
    <3>2. Append(q, x)[k] = x
      BY <2>2, AppendPositions
    <3>3. e.ids = x /\ ~e.dropped
      BY <1>1
    <3>4. x \cap marks = {}
      OBVIOUS
    <3> QED
      BY ONLY <2>1, <3>1, <3>2, <3>3, <3>4, Zenon
  <2>3. CASE k \in 1..Len(q)
    <3>1. Append(Marked(q, marks), e)[k] = Marked(q, marks)[k]
      BY <2>3, MarkedSequence, <1>1
    <3>2. Append(q, x)[k] = q[k] /\ k \in DOMAIN q
      BY <2>3, AppendPositions
    <3>3. /\ Marked(q, marks)[k].ids = q[k]
          /\ (Marked(q, marks)[k].dropped <=> q[k] \cap marks # {})
      BY <3>2, MarkedSequence
    <3> QED
      BY <2>1, <3>1, <3>2, <3>3
  <2>4. k = Len(q) + 1 \/ k \in 1..Len(q)
    BY <1>2
  <2> QED
    BY ONLY <2>2, <2>3, <2>4, Zenon
<1>5. Marked(Append(q, x), marks) \in Seq(Entries) /\ Len(Marked(Append(q, x), marks)) = Len(q) + 1
  BY <1>2, MarkedSequence, ZenonT(30)
<1>6. Marked(Append(q, x), marks) = Append(Marked(q, marks), e)
  BY <1>3, <1>4, <1>5, SameEntries, ZenonT(30)
<1> QED
  BY <1>6 DEF e

LEMMA MarkedTail ==
  ASSUME NEW q \in Seq(Jobs), q # <<>>, NEW marks
  PROVE  /\ Marked(Tail(q), marks) = Tail(Marked(q, marks))
         /\ Marked(q, marks) # <<>>
         /\ Head(Marked(q, marks)).ids = Head(q)
         /\ Head(Marked(q, marks)).dropped <=> Head(q) \cap marks # {}
<1> DEFINE m == Marked(q, marks)
<1>1. /\ m \in Seq(Entries) /\ m # <<>> /\ Len(m) = Len(q)
      /\ \A k \in DOMAIN q : m[k].ids = q[k] /\ (m[k].dropped <=> q[k] \cap marks # {})
  BY MarkedSequence
<1>2. /\ Tail(q) \in Seq(Jobs) /\ Head(q) = q[1] /\ 1 \in DOMAIN q
      /\ DOMAIN q = 1..Len(q) /\ Len(Tail(q)) = Len(q) - 1
      /\ DOMAIN Tail(q) = 1..(Len(q) - 1) /\ Len(q) \in Nat
      /\ \A k \in 1..(Len(q) - 1) : Tail(q)[k] = q[k + 1] /\ k + 1 \in DOMAIN q
  BY TailPositions
<1>3. /\ Marked(Tail(q), marks) \in Seq(Entries) /\ Len(Marked(Tail(q), marks)) = Len(q) - 1
      /\ \A k \in DOMAIN Tail(q) : /\ Marked(Tail(q), marks)[k].ids = Tail(q)[k]
                                   /\ Marked(Tail(q), marks)[k].dropped <=> Tail(q)[k] \cap marks # {}
  <2>1. PICK r \in Seq(Jobs) : r = Tail(q)
    BY <1>2, ZenonT(30)
  <2>2. Marked(r, marks) \in Seq(Entries) /\ Len(Marked(r, marks)) = Len(r)
    BY ONLY r \in Seq(Jobs), MarkedSequence, Zenon
  <2>3. \A k \in DOMAIN r : /\ Marked(r, marks)[k].ids = r[k]
                            /\ (Marked(r, marks)[k].dropped <=> r[k] \cap marks # {})
    BY ONLY r \in Seq(Jobs), MarkedSequence, Zenon
  <2> QED
    BY ONLY <1>2, <2>1, <2>2, <2>3, Zenon
<1> HIDE DEF m
<1>4. /\ Tail(m) \in Seq(Entries) /\ Len(Tail(m)) = Len(m) - 1 /\ Head(m) = m[1]
      /\ \A k \in 1..(Len(m) - 1) : Tail(m)[k] = m[k + 1]
  BY <1>1
<1>5. Marked(Tail(q), marks) = Tail(m)
  <2>1. ASSUME NEW k \in 1..(Len(q) - 1)
        PROVE  /\ Marked(Tail(q), marks)[k].ids = Tail(m)[k].ids
               /\ Marked(Tail(q), marks)[k].dropped <=> Tail(m)[k].dropped
    <3>1. k + 1 \in DOMAIN q /\ Tail(q)[k] = q[k + 1] /\ k \in DOMAIN Tail(q)
      BY <1>2
    <3>2. Tail(m)[k] = m[k + 1]
      BY <1>1, <1>4
    <3> QED
      BY ONLY <1>1, <1>3, <3>1, <3>2
  <2>2. Len(Tail(m)) = Len(q) - 1
    BY <1>1, <1>2, <1>4
  <2>3. PICK r \in Seq(Entries), t \in Seq(Entries) : r = Marked(Tail(q), marks) /\ t = Tail(m)
    BY ONLY <1>3, <1>4, Zenon
  <2>4. Len(r) = Len(t) /\ \A k \in 1..Len(r) : r[k].ids = t[k].ids /\ (r[k].dropped <=> t[k].dropped)
    BY ONLY <1>3, <2>1, <2>2, <2>3, Zenon
  <2>5. r = t
    BY ONLY r \in Seq(Entries), t \in Seq(Entries), <2>4, SameEntries, Zenon
  <2> QED
    BY ONLY <2>3, <2>5, Zenon
<1> QED
  BY <1>1, <1>2, <1>4, <1>5 DEF m

(* Marks that drop the same jobs are the same marks. *)
LEMMA MarkedSame ==
  ASSUME NEW q \in Seq(Jobs), NEW marks, NEW others,
         \A k \in DOMAIN q : q[k] \cap marks # {} <=> q[k] \cap others # {}
  PROVE  Marked(q, marks) = Marked(q, others)
<1>1. \A k \in 1..Len(q) : /\ Marked(q, marks)[k].ids = Marked(q, others)[k].ids
                           /\ Marked(q, marks)[k].dropped <=> Marked(q, others)[k].dropped
  BY MarkedSequence
<1> QED
  BY <1>1, MarkedSequence, SameEntries

(* Marking the IDs of one waiting job drops that job and no other. *)
LEMMA MarkedDrop ==
  ASSUME NEW q \in Seq(Jobs), NEW marks, NEW k \in DOMAIN q,
         \A j, l \in DOMAIN q : j # l => q[j] \cap q[l] = {}
  PROVE  Marked(q, marks \cup q[k]) = [Marked(q, marks) EXCEPT ![k].dropped = TRUE]
<1> DEFINE m == Marked(q, marks)
           n == Marked(q, marks \cup q[k])
           d == [m[k] EXCEPT !.dropped = TRUE]
<1>1. /\ m \in Seq(Entries) /\ Len(m) = Len(q) /\ DOMAIN m = DOMAIN q
      /\ n \in Seq(Entries) /\ Len(n) = Len(q)
      /\ DOMAIN q = 1..Len(q)
      /\ \A j \in DOMAIN q : /\ m[j].ids = q[j] /\ (m[j].dropped <=> q[j] \cap marks # {})
                             /\ n[j].ids = q[j]
                             /\ (n[j].dropped <=> q[j] \cap (marks \cup q[k]) # {})
  BY MarkedSequence
<1>2. q[k] # {}
  OBVIOUS
<1> HIDE DEF m, n
<1>3. m[k] \in Entries
  BY <1>1
<1>4. d \in Entries /\ d.ids = q[k] /\ d.dropped
  BY <1>1, <1>3, DropEntry
<1>5. [m EXCEPT ![k].dropped = TRUE] = [m EXCEPT ![k] = d]
  OBVIOUS
<1> HIDE DEF d
<1>6. /\ [m EXCEPT ![k] = d] \in Seq(Entries) /\ Len([m EXCEPT ![k] = d]) = Len(q)
      /\ \A j \in DOMAIN q : [m EXCEPT ![k] = d][j] = IF j = k THEN d ELSE m[j]
  BY <1>1, <1>4
<1>7. ASSUME NEW j \in 1..Len(q)
      PROVE  /\ n[j].ids = [m EXCEPT ![k] = d][j].ids
             /\ n[j].dropped <=> [m EXCEPT ![k] = d][j].dropped
  <2>1. CASE j = k
    <3>1. q[k] \cap (marks \cup q[k]) # {}
      BY <1>2
    <3> QED
      BY <1>1, <1>4, <1>6, <2>1, <3>1
  <2>2. CASE j # k
    <3>1. q[j] \cap (marks \cup q[k]) # {} <=> q[j] \cap marks # {}
      BY <1>1, <2>2
    <3> QED
      BY <1>1, <1>6, <2>2, <3>1
  <2> QED
    BY <2>1, <2>2
<1>8. n = [m EXCEPT ![k] = d]
  <2>1. PICK p \in Seq(Entries) : p = [m EXCEPT ![k] = d]
    BY ONLY <1>6, Zenon
  <2>2. Len(n) = Len(p) /\ \A j \in 1..Len(n) : n[j].ids = p[j].ids /\ (n[j].dropped <=> p[j].dropped)
    BY <1>1, <1>6, <1>7, <2>1
  <2> QED
    BY <1>1, <2>1, <2>2, SameEntries, ZenonT(30)
<1> QED
  BY <1>5, <1>8 DEF m, n
-----------------------------------------------------------------------------
(* The state of the executor that the queue maps to. *)
Waiting == Marked(queue, cancelled)

(* A step that keeps the queue and drops no other job leaves it alone. *)
LEMMA SameWaiting ==
  ASSUME QueueInv, queue' = queue,
         \A k \in DOMAIN queue : queue[k] \cap cancelled # {} <=> queue[k] \cap cancelled' # {}
  PROVE  Waiting' = Waiting
<1>1. queue \in Seq(Jobs)
  BY DEF QueueInv, TypeOK
<1>2. Marked(queue, cancelled) = Marked(queue, cancelled')
  BY <1>1, MarkedSame
<1> QED
  BY <1>2 DEF Waiting

(* The first waiting job leaves and takes its own marks with it. *)
LEMMA WaitingWithoutHead ==
  ASSUME QueueInv, queue # <<>>, queue' = Tail(queue),
         cancelled' = cancelled \/ cancelled' = cancelled \ Head(queue)
  PROVE  /\ Waiting' = Tail(Waiting) /\ Waiting # <<>>
         /\ Head(Waiting).ids = Head(queue)
         /\ (Head(Waiting).dropped <=> Head(queue) \cap cancelled # {})
<1>1. /\ queue \in Seq(Jobs) /\ queue' \in Seq(Jobs)
      /\ \A k \in DOMAIN queue' : queue'[k] \cap Head(queue) = {}
  BY RestOfQueue DEF QueueInv, TypeOK
<1>2. \A k \in DOMAIN queue' : queue'[k] \cap cancelled # {} <=> queue'[k] \cap cancelled' # {}
  BY <1>1
<1>3. Marked(queue', cancelled) = Marked(queue', cancelled')
  <2>1. PICK q \in Seq(Jobs), c \in {cancelled}, d \in {cancelled'} : q = queue'
    BY <1>1
  <2>2. \A k \in DOMAIN q : q[k] \cap c # {} <=> q[k] \cap d # {}
    BY <1>2, <2>1
  <2>3. Marked(q, c) = Marked(q, d)
    BY ONLY q \in Seq(Jobs), <2>2, MarkedSame
  <2> QED
    BY <2>1, <2>3
<1>4. /\ Marked(Tail(queue), cancelled) = Tail(Marked(queue, cancelled))
      /\ Marked(queue, cancelled) # <<>>
      /\ Head(Marked(queue, cancelled)).ids = Head(queue)
      /\ (Head(Marked(queue, cancelled)).dropped <=> Head(queue) \cap cancelled # {})
  BY ONLY queue # <<>>, <1>1, MarkedTail, Zenon
<1> QED
  BY <1>3, <1>4 DEF Waiting

(* The IDs the executor holds are those that wait or execute. *)
LEMMA WaitingIds ==
  ASSUME QueueInv
  PROVE  UNION {Waiting[k].ids : k \in DOMAIN Waiting} = queued
<1>1. /\ DOMAIN Waiting = DOMAIN queue
      /\ \A k \in DOMAIN queue : Waiting[k].ids = queue[k]
  BY MarkedSequence DEF Waiting, QueueInv, TypeOK
<1>2. {Waiting[k].ids : k \in DOMAIN Waiting} = {queue[k] : k \in DOMAIN queue}
  BY <1>1
<1> QED
  BY <1>2, QueueFacts, ZenonT(30) DEF QueuedJobIds

-----------------------------------------------------------------------------
(* The actions of the executor, said of the mapped state. *)
LEMMA ExecutorActions ==
  /\ \A ids \in Jobs : Executor!Submit(ids) <=>
       /\ accepting /\ Len(Waiting) < MaxQueued
       /\ ids \cap (job \cup UNION {Waiting[k].ids : k \in DOMAIN Waiting}) = {}
       /\ Waiting' = Append(Waiting, [ids |-> ids, dropped |-> FALSE])
       /\ UNCHANGED <<accepting, job>>
  /\ \A k \in DOMAIN queue : Executor!Drop(k) <=>
       /\ ~Waiting[k].dropped
       /\ Waiting' = [Waiting EXCEPT ![k].dropped = TRUE]
       /\ UNCHANGED <<accepting, job>>
  /\ Executor!Begin <=>
       /\ job = {} /\ Waiting # <<>> /\ ~Head(Waiting).dropped
       /\ job' = Head(Waiting).ids /\ Waiting' = Tail(Waiting)
       /\ UNCHANGED accepting
  /\ Executor!Discard <=>
       /\ job = {} /\ Waiting # <<>> /\ Head(Waiting).dropped
       /\ Waiting' = Tail(Waiting) /\ UNCHANGED <<accepting, job>>
  /\ Executor!End <=> job # {} /\ job' = {} /\ UNCHANGED <<accepting, Waiting>>
  /\ Executor!Close <=> accepting /\ accepting' = FALSE /\ UNCHANGED <<Waiting, job>>
  /\ Executor!Abandon <=> ~accepting /\ job = {} /\ Waiting' = <<>> /\ UNCHANGED <<accepting, job>>
  /\ Executor!Lose <=> accepting' = FALSE /\ Waiting' = <<>> /\ job' = {}
  /\ Executor!Reopen <=>
       /\ ~accepting /\ Waiting = <<>> /\ job = {}
       /\ accepting' = TRUE /\ UNCHANGED <<Waiting, job>>
<1> QED
  BY ZenonT(40) DEF Executor!Submit, Executor!Drop, Executor!Begin, Executor!Discard, Executor!End,
     Executor!Close, Executor!Abandon, Executor!Lose, Executor!Reopen, Executor!HeldIds,
     Waiting, Marked
-----------------------------------------------------------------------------
(* What each step of the queue is to the executor. *)
LEMMA EnqueueSubmits ==
  ASSUME QueueInv, NEW ids \in Jobs, Enqueue(ids)
  PROVE  Executor!Submit(ids)
<1>1. queue \in Seq(Jobs) /\ running = job /\ ids \cap (queued \cup running) = {}
  BY QueueFacts DEF QueueInv, TypeOK, Enqueue, CanEnqueue
<1>2. ids \cap cancelled = {}
  BY <1>1, QueueFacts DEF QueueInv, CancelWhole, TypeOK
<1>3. Waiting' = Append(Waiting, [ids |-> ids, dropped |-> FALSE])
  <2>1. Marked(Append(queue, ids), cancelled) = Append(Marked(queue, cancelled), [ids |-> ids, dropped |-> FALSE])
    BY <1>1, <1>2, MarkedAppend
  <2> QED
    BY <2>1 DEF Waiting, Enqueue
<1>4. Len(Waiting) < MaxQueued
  BY <1>1, MarkedSequence DEF Waiting, Enqueue, CanEnqueue
<1>5. ids \cap (job \cup UNION {Waiting[k].ids : k \in DOMAIN Waiting}) = {}
  BY <1>1, WaitingIds
<1>6. accepting /\ UNCHANGED <<accepting, job>>
  BY DEF Enqueue, CanEnqueue, childVars
<1> QED
  BY ONLY ids \in Jobs, <1>3, <1>4, <1>5, <1>6, ExecutorActions, Zenon

LEMMA CancelDrops ==
  ASSUME QueueInv, NEW i \in Ids, CancelQueued(i)
  PROVE  \E k \in DOMAIN queue : Executor!Drop(k)
<1>1. queue \in Seq(Jobs) /\ i \in queued /\ i \notin cancelled
  BY DEF QueueInv, TypeOK, CancelQueued
<1>2. PICK k \in DOMAIN queue : i \in queue[k] /\ jobOf[i] = queue[k]
  BY <1>1, QueuedJob DEF QueueInv
<1>3. JobIds(i) = queue[k]
  BY <1>2 DEF JobIds, Owned
<1>4. \A j, l \in DOMAIN queue : j # l => queue[j] \cap queue[l] = {}
  BY DEF QueueInv, SingleOwner
<1>5. queue[k] \cap cancelled = {}
  BY <1>1, <1>3, WaitingSiblings
<1>6. ~Waiting[k].dropped
  <2>1. Waiting[k].dropped <=> queue[k] \cap cancelled # {}
    <3>1. PICK q \in Seq(Jobs) : q = queue
      BY <1>1
    <3>2. k \in DOMAIN q
      BY <3>1
    <3>3. Marked(q, cancelled)[k].dropped <=> q[k] \cap cancelled # {}
      BY ONLY q \in Seq(Jobs), <3>2, MarkedSequence, Zenon
    <3> QED
      BY ONLY <3>1, <3>3, Zenon DEF Waiting
  <2> QED
    BY <1>5, <2>1
<1>7. Waiting' = [Waiting EXCEPT ![k].dropped = TRUE]
  <2>1. queue' = queue /\ cancelled' = cancelled \cup queue[k]
    BY <1>3 DEF CancelQueued
  <2>2. Marked(queue, cancelled \cup queue[k]) = [Marked(queue, cancelled) EXCEPT ![k].dropped = TRUE]
    <3>1. PICK q \in Seq(Jobs) : q = queue
      BY <1>1
    <3>2. k \in DOMAIN q /\ \A j, l \in DOMAIN q : j # l => q[j] \cap q[l] = {}
      BY <1>4, <3>1
    <3>3. Marked(q, cancelled \cup q[k]) = [Marked(q, cancelled) EXCEPT ![k].dropped = TRUE]
      BY ONLY q \in Seq(Jobs), <3>2, MarkedDrop
    <3> QED
      BY ONLY <3>1, <3>3, Zenon
  <2> QED
    BY <2>1, <2>2 DEF Waiting
<1>8. UNCHANGED <<accepting, job>>
  BY DEF CancelQueued, childVars
<1> QED
  BY ONLY k \in DOMAIN queue, <1>6, <1>7, <1>8, ExecutorActions, Zenon

LEMMA TakeBegins ==
  ASSUME QueueInv, WorkerTake
  PROVE  Executor!Begin
<1>1. /\ queue # <<>> /\ queue' = Tail(queue) /\ job = {} /\ cancelled' = cancelled
      /\ job' = Head(queue) /\ accepting' = accepting /\ Head(queue) \cap cancelled = {}
  BY DEF WorkerTake, Listening, QueueInv, WorkerHoldsJob
<1>2. /\ Waiting' = Tail(Waiting) /\ Waiting # <<>>
      /\ Head(Waiting).ids = Head(queue)
      /\ (Head(Waiting).dropped <=> Head(queue) \cap cancelled # {})
  BY <1>1, WaitingWithoutHead
<1> QED
  BY ONLY <1>1, <1>2, ExecutorActions, Zenon

LEMMA SkipDiscards ==
  ASSUME QueueInv, WorkerSkip
  PROVE  Executor!Discard
<1>1. /\ queue # <<>> /\ queue' = Tail(queue) /\ job = {}
      /\ cancelled' = cancelled \ Head(queue)
      /\ job' = job /\ accepting' = accepting /\ Head(queue) \cap cancelled # {}
  BY DEF WorkerSkip, Listening, Release, QueueInv, WorkerHoldsJob, childVars
<1>2. /\ Waiting' = Tail(Waiting) /\ Waiting # <<>>
      /\ (Head(Waiting).dropped <=> Head(queue) \cap cancelled # {})
  BY <1>1, WaitingWithoutHead
<1> QED
  BY ONLY <1>1, <1>2, ExecutorActions, Zenon

LEMMA FinishEnds ==
  ASSUME QueueInv, WorkerFinish
  PROVE  Executor!End
<1>1. job # {} /\ job' = {} /\ accepting' = accepting /\ queue' = queue /\ cancelled' = cancelled \ job
  BY DEF WorkerFinish, Release, QueueInv, WorkerHoldsJob
<1>2. \A k \in DOMAIN queue : queue[k] \cap job = {}
  BY DEF QueueInv, SingleOwner
<1>3. Waiting' = Waiting
  <2>1. \A k \in DOMAIN queue : queue[k] \cap cancelled # {} <=> queue[k] \cap cancelled' # {}
    BY <1>1, <1>2
  <2> QED
    BY <1>1, <2>1, SameWaiting
<1>4. UNCHANGED <<accepting, Waiting>>
  BY <1>1, <1>3
<1> QED
  BY ONLY <1>1, <1>4, ExecutorActions, Zenon

(* The worker's control, its task, and a cancel of the executing job are   *)
(* nothing to the executor.                                                *)
LEMMA ControlStutters ==
  ASSUME QueueInv,
         \/ \E i \in Ids : CancelRunning(i)
         \/ WorkerStop \/ ChildStart \/ ChildNeverStarts
         \/ \E how \in DoneChild : ChildEnd(how)
         \/ UNCHANGED queueVars
  PROVE  UNCHANGED <<accepting, Waiting, job>>
<1>1. CASE \E i \in Ids : CancelRunning(i)
  <2>1. PICK i \in Ids : CancelRunning(i)
    BY <1>1
  <2>2. /\ i \in job /\ jobOf[i] = job /\ JobIds(i) = job
    BY <2>1 DEF CancelRunning, QueueInv, TablesExact, JobIds, Owned
  <2>3. cancelled' = cancelled \cup job /\ queue' = queue /\ UNCHANGED <<accepting, job>>
    BY <2>1, <2>2 DEF CancelRunning
  <2>4. \A k \in DOMAIN queue : queue[k] \cap job = {}
    BY DEF QueueInv, SingleOwner
  <2>5. \A k \in DOMAIN queue : queue[k] \cap cancelled # {} <=> queue[k] \cap cancelled' # {}
    BY <2>3, <2>4
  <2> QED
    BY <2>3, <2>5, SameWaiting
<1>2. CASE ~\E i \in Ids : CancelRunning(i)
  <2>1. UNCHANGED <<accepting, queue, cancelled, job>>
    BY <1>2 DEF WorkerStop, ChildStart, ChildNeverStarts, ChildEnd, queueVars, tableVars, childVars
  <2>2. Waiting' = Waiting
    BY <2>1 DEF Waiting
  <2> QED
    BY <2>1, <2>2
<1> QED
  BY <1>1, <1>2

(* Opening, closing, draining and dying. *)
LEMMA ShutdownSteps ==
  ASSUME QueueInv
  PROVE  /\ ShutdownRequest => Executor!Close
         /\ ShutdownDrain => Executor!Abandon
         /\ QueueCrash => Executor!Lose
         /\ InitQueue => Executor!Reopen
<1>1. ASSUME NEW marks PROVE Marked(<<>>, marks) = <<>>
  BY EmptyMarked
<1>2. ASSUME ShutdownRequest PROVE Executor!Close
  <2>1. accepting /\ accepting' = FALSE /\ UNCHANGED <<queue, cancelled, job>>
    BY <1>2 DEF ShutdownRequest, tableVars
  <2>2. UNCHANGED <<Waiting, job>>
    BY <2>1 DEF Waiting
  <2> QED
    BY ONLY <2>1, <2>2, ExecutorActions, Zenon
<1>3. ASSUME ShutdownDrain PROVE Executor!Abandon
  <2>1. ~accepting /\ job = {} /\ queue' = <<>> /\ UNCHANGED <<accepting, job>>
    BY <1>3 DEF ShutdownDrain, childVars, QueueInv, WorkerHoldsJob
  <2>2. Waiting' = <<>>
    BY <1>1, <2>1 DEF Waiting
  <2> QED
    BY ONLY <2>1, <2>2, ExecutorActions, Zenon
<1>4. ASSUME QueueCrash PROVE Executor!Lose
  <2>1. accepting' = FALSE /\ job' = {} /\ queue' = <<>>
    BY <1>4 DEF QueueCrash
  <2>2. Waiting' = <<>>
    BY <1>1, <2>1 DEF Waiting
  <2> QED
    BY ONLY <2>1, <2>2, ExecutorActions, Zenon
<1>5. ASSUME InitQueue PROVE Executor!Reopen
  <2>1. /\ queue = <<>> /\ job = {} /\ ~accepting
        /\ accepting' = TRUE /\ job' = {} /\ queue' = <<>>
    BY <1>5 DEF InitQueue, QueueInv, WorkerHoldsJob, NothingOwnedWhenDown, TypeOK
  <2>2. Waiting = <<>> /\ Waiting' = <<>>
    BY <1>1, <2>1 DEF Waiting
  <2>3. UNCHANGED <<Waiting, job>>
    BY <2>1, <2>2
  <2> QED
    BY ONLY <2>1, <2>2, <2>3, ExecutorActions, Zenon
<1> QED
  BY <1>2, <1>3, <1>4, <1>5

(* Every step of the queue is a step of the executor, or none. *)
THEOREM QueueStepsAreExecutorSteps ==
  QueueInv /\ [QueueNext]_queueVars => [Executor!Next]_(<<accepting, Waiting, job>>)
<1> SUFFICES ASSUME QueueInv, [QueueNext]_queueVars
             PROVE  [Executor!Next]_(<<accepting, Waiting, job>>)
  OBVIOUS
<1>1. Executor!Next <=>
        \/ \E ids \in Jobs : Executor!Submit(ids)
        \/ \E k \in DOMAIN Waiting : Executor!Drop(k)
        \/ Executor!Begin \/ Executor!Discard \/ Executor!End
        \/ Executor!Close \/ Executor!Abandon \/ Executor!Lose \/ Executor!Reopen
  BY ZenonT(40) DEF Executor!Next, Waiting, Marked
<1>2. DOMAIN Waiting = DOMAIN queue
  BY MarkedSequence DEF Waiting, QueueInv, TypeOK
<1>3. ASSUME NEW ids \in Jobs, Enqueue(ids) PROVE Executor!Next
  BY <1>1, <1>3, EnqueueSubmits
<1>4. ASSUME NEW i \in Ids, CancelQueued(i) PROVE Executor!Next
  BY <1>1, <1>2, <1>4, CancelDrops
<1>5. CASE WorkerTake
  BY <1>1, <1>5, TakeBegins
<1>6. CASE WorkerSkip
  BY <1>1, <1>6, SkipDiscards
<1>7. CASE WorkerFinish
  BY <1>1, <1>7, FinishEnds
<1>8. CASE ShutdownRequest \/ ShutdownDrain \/ QueueCrash \/ InitQueue
  BY <1>1, <1>8, ShutdownSteps
<1>9. CASE \/ \E i \in Ids : CancelRunning(i)
           \/ WorkerStop \/ ChildStart \/ ChildNeverStarts
           \/ \E how \in DoneChild : ChildEnd(how)
           \/ UNCHANGED queueVars
  BY <1>9, ControlStutters
<1> QED
  BY <1>3, <1>4, <1>5, <1>6, <1>7, <1>8, <1>9 DEF QueueNext

(* The queue, with its four tables and its worker, is a serial executor of *)
(* whole jobs: they begin in the order of their submission, one at a time, *)
(* a job dropped while it waits never begins, and no ID is held twice.     *)
THEOREM QueueIsSerialExecutor == QueueSpec => ImplementsSerialExecutor
<1>1. QueueInit => Executor!Init
  <2> SUFFICES ASSUME QueueInit PROVE Executor!Init
    OBVIOUS
  <2>1. queue = <<>> /\ accepting = TRUE /\ job = {}
    BY DEF QueueInit
  <2>2. Waiting = <<>>
    BY <2>1, EmptyMarked DEF Waiting
  <2> QED
    BY <2>1, <2>2 DEF Executor!Init, Waiting, Marked
<1>2. QueueInv /\ [QueueNext]_queueVars => [Executor!Next]_(Executor!vars)
  BY QueueStepsAreExecutorSteps, ZenonT(40) DEF Executor!vars, Waiting, Marked
<1> QED
  BY <1>1, <1>2, InitInv, StepInv, PTL DEF QueueSpec, ImplementsSerialExecutor, Executor!Spec
=============================================================================
