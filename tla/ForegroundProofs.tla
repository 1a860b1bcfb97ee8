--------------------------- MODULE ForegroundProofs ---------------------------
(***************************************************************************)
(* Theorems about ForegroundGeneration for every number of requests and    *)
(* every queue bound.  The queue's own invariant, proved in                *)
(* TaskQueueProofs, holds here because every step is a queue step or none; *)
(* on top of it each request has an invariant of its own.                  *)
(***************************************************************************)
EXTENDS ForegroundGeneration, TaskQueueProofs

ReqTypes ==
  /\ caller \in [Ids -> {"none", "waiting"} \cup Gone]
  /\ future \in [Ids -> {"none", "pending", "value", "error", "interrupted", "cancelled"}]
  /\ coro \in [Ids -> {"none", "open", "running", "over", "closed"}]
  /\ file \in [Ids -> {"none", "held", "handed", "deleted"}]

(* How far a request's coroutine is says where its job can be, and what    *)
(* its future holds says who knows the file.                               *)
ReqInv(i) ==
  /\ caller[i] = "none" <=> coro[i] = "none"
  /\ caller[i] = "none" => future[i] = "none" /\ i \notin queued \cup job
  /\ future[i] = "none" => caller[i] # "waiting" /\ coro[i] \in {"none", "closed"}
  /\ file[i] # "none" => coro[i] = "over" /\ future[i] # "none"
  /\ file[i] = "held" <=> caller[i] = "waiting" /\ future[i] = "value"
  /\ file[i] = "handed" <=> caller[i] = "returned"
  /\ future[i] \in {"value", "error", "interrupted"} => coro[i] = "over"
  /\ future[i] = "pending" => caller[i] = "waiting" /\ coro[i] \in {"open", "running"}
  /\ coro[i] = "open" => i \in queued \/ (i \in job /\ child \in {"fresh", "cancelled"})
  /\ coro[i] = "running" => i \in job /\ child = "running"
  /\ coro[i] = "over" => i \notin queued /\ (i \in job => child \in DoneChild)
  /\ coro[i] = "closed" => i \notin queued \cup job
  /\ i \in job /\ child = "running" => coro[i] = "running"
  /\ caller[i] \in Gone /\ i \in queued \cup job =>
       i \in cancelled \/ (i \in job /\ child \in DoneChild)

RequestsInv == ReqTypes /\ \A i \in Ids : ReqInv(i)

ForegroundInv == QueueInv /\ RequestsInv

USE JobsAssumption, MaxQueuedAssumption, SingleJobsAssumption

-----------------------------------------------------------------------------
(* Every step is a step of the queue or leaves it alone. *)
LEMMA QueueStep == [Next]_vars => [QueueNext]_queueVars
<1> SUFFICES ASSUME [Next]_vars PROVE [QueueNext]_queueVars
  OBVIOUS
<1>1. CASE UNCHANGED vars
  BY <1>1 DEF vars
<1>2. ASSUME NEW i \in Ids, Call(i) \/ Deliver(i) \/ Leave(i) \/ Forget(i)
      PROVE  [QueueNext]_queueVars
  <2>1. {i} \in Jobs
    OBVIOUS
  <2> QED
    BY <1>2, <2>1 DEF Call, Deliver, Leave, CancelJob, Forget, QueueNext
<1>3. ASSUME WorkerSteps \/ Shutdown \/ Drain
      PROVE  [QueueNext]_queueVars
  BY <1>3 DEF WorkerSteps, Take, Drop, Finish, Stop, Shutdown, Drain, QueueNext
<1>4. ASSUME Wrapper
      PROVE  [QueueNext]_queueVars
  BY <1>4 DEF Wrapper, Begin, NeverStarts, Made, Failed, Interrupted, RunsOut, QueueNext, DoneChild
<1> QED
  BY <1>1, <1>2, <1>3, <1>4 DEF Next

LEMMA RequestsInit == Init => RequestsInv
BY DEF Init, QueueInit, RequestsInv, ReqTypes, ReqInv, Gone

-----------------------------------------------------------------------------
LEMMA CallerSteps ==
  ASSUME ForegroundInv, NEW i \in Ids, Call(i) \/ Deliver(i) \/ Forget(i)
  PROVE  RequestsInv'
<1> USE DEF ForegroundInv, RequestsInv
<1>1. ReqTypes'
  BY DEF ReqTypes, Gone, Call, Deliver, Forget
<1>2. ReqInv(i) /\ (\A x \in Ids : ReqInv(x)) /\ queued \cap job = {}
  BY QueueFacts
<1>3. ASSUME NEW x \in Ids, x # i
      PROVE  ReqInv(x)'
  <2>1. UNCHANGED <<caller[x], future[x], coro[x], file[x], job, child, cancelled>>
    BY <1>3 DEF Call, Deliver, Forget, Enqueue, queueVars, tableVars, childVars, ReqTypes
  <2>2. x \in queued' <=> x \in queued
    BY <1>3 DEF Call, Deliver, Forget, Enqueue, queueVars, tableVars
  <2> QED
    BY <1>2, <2>1, <2>2 DEF ReqInv
<1>4. ASSUME Call(i)
      PROVE  ReqInv(i)'
  <2>1. CASE Enqueue({i})
    BY <1>2, <1>4, <2>1 DEF ReqInv, ReqTypes, Call, Enqueue, Gone, childVars
  <2>2. CASE ~Enqueue({i})
    BY <1>2, <1>4, <2>2 DEF ReqInv, ReqTypes, Call, Gone, queueVars, tableVars, childVars
  <2> QED
    BY <2>1, <2>2
<1>5. ASSUME Deliver(i)
      PROVE  ReqInv(i)'
  BY <1>2, <1>5 DEF ReqInv, ReqTypes, Deliver, Gone, queueVars, tableVars, childVars
<1>6. ASSUME Forget(i)
      PROVE  ReqInv(i)'
  <2>1. i \notin queued \cup job
    BY <1>6, QueueFacts DEF Forget
  <2> QED
    BY <1>2, <1>6, <2>1 DEF ReqInv, ReqTypes, Forget, Gone, queueVars, tableVars, childVars
<1> QED
  BY <1>1, <1>3, <1>4, <1>5, <1>6

LEMMA LeaveStep ==
  ASSUME ForegroundInv, NEW i \in Ids, Leave(i)
  PROVE  RequestsInv'
<1> USE DEF ForegroundInv, RequestsInv
<1>1. ReqTypes'
  BY DEF ReqTypes, Gone, Leave
<1>2. UNCHANGED <<queued, job, child>> /\ cancelled \subseteq cancelled'
  BY DEF Leave, CancelJob, CancelRunning, CancelQueued, queueVars, tableVars, childVars
<1>3. i \in queued \cup job => i \in cancelled'
  <2>1. CASE CancelRunning(i) \/ CancelQueued(i)
    <3>1. Owned(i) /\ jobOf[i] \in Jobs
      BY <2>1, QueueFacts DEF CancelRunning, CancelQueued, Owned, QueueInv, TypeOK
    <3>2. i \in JobIds(i)
      BY <3>1, QueuedJob, QueueFacts DEF JobIds, QueueInv, TablesExact
    <3> QED
      BY <2>1, <3>2 DEF CancelRunning, CancelQueued
  <2>2. CASE CancelUntracked(i) /\ UNCHANGED queueVars
    BY <2>2, QueueFacts DEF CancelUntracked, queueVars, tableVars
  <2> QED
    BY <2>1, <2>2 DEF Leave, CancelJob
<1>4. \A x \in Ids : ReqInv(x)
  OBVIOUS
<1>5. ASSUME NEW x \in Ids, x # i
      PROVE  ReqInv(x)'
  <2>1. UNCHANGED <<caller[x], future[x], coro[x], file[x]>>
    BY <1>5 DEF Leave, ReqTypes
  <2> QED
    BY <1>2, <1>4, <2>1 DEF ReqInv
<1>6. ReqInv(i)'
  BY <1>2, <1>3, <1>4 DEF ReqInv, ReqTypes, Leave, Gone
<1> QED
  BY <1>1, <1>5, <1>6

LEMMA WrapperSteps ==
  ASSUME ForegroundInv, Wrapper
  PROVE  RequestsInv'
<1> USE DEF ForegroundInv, RequestsInv
<1>1. /\ \A x \in Ids : ReqInv(x)
      /\ job \subseteq Ids /\ queued \cap job = {}
      /\ \A x, y \in job : x = y
      /\ UNCHANGED <<queued, job, cancelled>>
  BY QueueFacts DEF Wrapper, Begin, NeverStarts, Made, Failed, Interrupted, RunsOut, ChildStart,
     ChildNeverStarts, ChildEnd, tableVars, QueueInv, TypeOK
<1>2. CASE Begin
  <2>1. ReqTypes'
    BY <1>2 DEF ReqTypes, Begin
  <2>2. ASSUME NEW x \in Ids PROVE ReqInv(x)'
    BY <1>1, <1>2 DEF ReqInv, ReqTypes, Begin, ChildStart, DoneChild
  <2> QED
    BY <2>1, <2>2
<1>3. CASE NeverStarts
  <2>1. ReqTypes'
    BY <1>3 DEF ReqTypes, NeverStarts, requestVars
  <2>2. ASSUME NEW x \in Ids PROVE ReqInv(x)'
    BY <1>1, <1>3 DEF ReqInv, ReqTypes, NeverStarts, requestVars, ChildNeverStarts, DoneChild
  <2> QED
    BY <2>1, <2>2
<1>4. ASSUME NEW i \in Ids, Made(i) \/ Failed(i) \/ Interrupted(i)
      PROVE  RequestsInv'
  <2>1. ReqTypes'
    BY <1>4 DEF ReqTypes, Made, Failed, Interrupted, RunsOut
  <2>2. i \in job /\ child = "running" /\ child' \in DoneChild
    BY <1>4 DEF Made, Failed, Interrupted, RunsOut, ChildEnd, DoneChild
  <2>3. ASSUME NEW x \in Ids, x # i PROVE ReqInv(x)'
    <3>1. UNCHANGED <<caller[x], future[x], coro[x], file[x]>> /\ x \notin job
      BY <1>1, <1>4, <2>2, <2>3 DEF Made, Failed, Interrupted, RunsOut, ReqTypes
    <3> QED
      BY <1>1, <3>1 DEF ReqInv
  <2>4. ReqInv(i)'
    <3>1. coro[i] = "running" /\ file[i] = "none" /\ future[i] \in {"pending", "cancelled"} /\ caller[i] # "returned"
      BY <1>1, <2>2 DEF ReqInv, ReqTypes
    <3>2. caller'[i] = caller[i] /\ coro'[i] = "over" /\ i \notin queued
      BY <1>1, <1>4, <2>2 DEF Made, Failed, Interrupted, RunsOut, ReqTypes
    <3>3. CASE future[i] = "pending"
      <4>1. caller[i] = "waiting"
        BY <1>1, <3>3 DEF ReqInv
      <4>2. CASE Made(i)
        <5>1. future'[i] = "value" /\ file'[i] = "held"
          BY <3>3, <4>2 DEF Made, ReqTypes
        <5> QED
          BY <1>1, <2>2, <3>2, <4>1, <5>1 DEF ReqInv, Gone, DoneChild
      <4>3. CASE Failed(i) \/ Interrupted(i)
        <5>1. future'[i] \in {"error", "interrupted"} /\ file'[i] = "none"
          BY <3>1, <3>3, <4>3 DEF Failed, Interrupted, ReqTypes
        <5> QED
          BY <1>1, <2>2, <3>2, <4>1, <5>1 DEF ReqInv, Gone, DoneChild
      <4> QED
        BY <1>4, <4>2, <4>3
    <3>4. CASE future[i] = "cancelled"
      <4>1. caller[i] \notin {"none", "returned"}
        BY <1>1, <3>1 DEF ReqInv
      <4>2. future'[i] = "cancelled" /\ file'[i] \in {"none", "deleted"}
        BY <1>4, <3>1, <3>4 DEF Made, Failed, Interrupted, RunsOut, ReqTypes
      <4> QED
        BY <1>1, <2>2, <3>1, <3>2, <4>1, <4>2 DEF ReqInv, ReqTypes, Gone, DoneChild
    <3> QED
      BY <3>1, <3>3, <3>4
  <2> QED
    BY <2>1, <2>3, <2>4
<1> QED
  BY <1>2, <1>3, <1>4 DEF Wrapper

LEMMA WorkerStepsKeep ==
  ASSUME ForegroundInv, Take \/ Drop \/ Finish \/ Stop \/ Shutdown \/ Drain
  PROVE  RequestsInv'
<1> USE DEF ForegroundInv, RequestsInv
<1>1. /\ \A x \in Ids : ReqInv(x)
      /\ queued \subseteq Ids /\ job \subseteq Ids /\ queued \cap job = {}
      /\ queue # <<>> => Head(queue) \subseteq queued
      /\ QueuedJobIds = queued
  BY QueueFacts
<1>2. ReqTypes'
  BY DEF ReqTypes, Take, Drop, Finish, Stop, Shutdown, Drain, Close, requestVars
<1>3. CASE Take
  <2>1. /\ job = {} /\ UNCHANGED <<caller, future, coro, file, cancelled>>
        /\ job' = Head(queue) /\ queued' = queued \ job' /\ job' \subseteq queued /\ child' = "fresh"
    BY <1>1, <1>3 DEF Take, WorkerTake, Listening, requestVars, QueueInv, WorkerHoldsJob
  <2>2. ASSUME NEW x \in Ids PROVE ReqInv(x)'
    BY <1>1, <2>1 DEF ReqInv, ReqTypes, DoneChild
  <2> QED
    BY <1>2, <2>2
<1>4. CASE Drop
  <2> DEFINE h == Head(queue)
  <2>1. /\ h \subseteq queued /\ Close(h) /\ UNCHANGED <<job, child>>
        /\ queued' = queued \ h /\ cancelled' = cancelled \ h
    BY <1>1, <1>4 DEF Drop, WorkerSkip, Listening, Release, childVars
  <2> HIDE DEF h
  <2>2. ASSUME NEW x \in Ids PROVE ReqInv(x)'
    BY <1>1, <2>1 DEF ReqInv, ReqTypes, Close
  <2> QED
    BY <1>2, <2>2
<1>5. CASE Finish
  <2>1. /\ Close(job) /\ child \in DoneChild /\ job' = {} /\ child' = "none"
        /\ queued' = queued /\ cancelled' = cancelled \ job
    BY <1>1, <1>5 DEF Finish, WorkerFinish, Release
  <2>2. ASSUME NEW x \in Ids PROVE ReqInv(x)'
    BY <1>1, <2>1 DEF ReqInv, ReqTypes, Close, DoneChild
  <2> QED
    BY <1>2, <2>2
<1>6. CASE Stop \/ Shutdown
  <2>1. UNCHANGED <<caller, future, coro, file, queued, job, child, cancelled>>
    BY <1>6 DEF Stop, Shutdown, WorkerStop, ShutdownRequest, requestVars, tableVars, childVars
  <2> QED
    BY <1>1, <1>2, <2>1 DEF ReqInv
<1>7. CASE Drain
  <2>1. /\ Close(queued) /\ UNCHANGED <<job, child>> /\ job = {}
        /\ queued' = {} /\ cancelled' = cancelled \ queued
    BY <1>1, <1>7 DEF Drain, ShutdownDrain, Release, childVars, QueueInv, WorkerHoldsJob
  <2>2. ASSUME NEW x \in Ids PROVE ReqInv(x)'
    BY <1>1, <2>1 DEF ReqInv, ReqTypes, Close
  <2> QED
    BY <1>2, <2>2
<1> QED
  BY <1>3, <1>4, <1>5, <1>6, <1>7

LEMMA RequestsStep == ForegroundInv /\ [Next]_vars => RequestsInv'
<1> SUFFICES ASSUME ForegroundInv, [Next]_vars PROVE RequestsInv'
  OBVIOUS
<1>1. CASE UNCHANGED vars
  BY <1>1 DEF vars, queueVars, tableVars, childVars, requestVars, ForegroundInv, RequestsInv, ReqTypes, ReqInv
<1> QED
  BY <1>1, CallerSteps, LeaveStep, WrapperSteps, WorkerStepsKeep DEF Next, WorkerSteps

-----------------------------------------------------------------------------
(* Between run_queued_generation and the worker: each caller's job is where *)
(* its coroutine believes it to be, and its file has one who knows it.      *)
THEOREM ForegroundInvariant == Spec => []ForegroundInv
<1>1. Init => ForegroundInv
  BY InitInv, RequestsInit DEF Init, ForegroundInv
<1>2. ForegroundInv /\ [Next]_vars => ForegroundInv'
  BY QueueStep, StepInv, RequestsStep DEF ForegroundInv
<1> QED
  BY <1>1, <1>2, PTL DEF Spec

(* A request's caller, future, coroutine and file are always of their      *)
(* types, and nobody waits on, or has a file from, a future never made.    *)
THEOREM RequestsTyped == Spec => []RequestsTypeOK
<1>1. ForegroundInv => RequestsTypeOK
  BY DEF ForegroundInv, RequestsInv, ReqTypes, ReqInv, RequestsTypeOK
<1> QED
  BY <1>1, ForegroundInvariant, PTL

(* A made file always has somebody who is going to hand it over or delete  *)
(* it, however a client's departure and the end of its job interleave.     *)
THEOREM NoFileLeaks == Spec => []NoLeakedFile
<1>1. ForegroundInv => NoLeakedFile
  BY DEF ForegroundInv, RequestsInv, ReqInv, NoLeakedFile
<1> QED
  BY <1>1, ForegroundInvariant, PTL

(* A response is given for a file that is still there, and for no other. *)
THEOREM ResponseHasFile == Spec => []ReturnedHasFile
<1>1. ForegroundInv => ReturnedHasFile
  BY DEF ForegroundInv, RequestsInv, ReqInv, ReturnedHasFile
<1> QED
  BY <1>1, ForegroundInvariant, PTL

(* Releasing a job's ID settles its future and ends its coroutine. *)
THEOREM NothingIsAbandoned == Spec => []NothingAbandoned
<1>1. ForegroundInv => NothingAbandoned
  <2> SUFFICES ASSUME ForegroundInv, NEW i \in Ids, caller[i] # "none", ~Owned(i)
               PROVE  coro[i] \in {"over", "closed"} /\ future[i] # "pending"
    BY DEF NothingAbandoned
  <2>1. ReqInv(i) /\ ReqTypes /\ i \notin queued \cup job
    BY QueueFacts DEF ForegroundInv, RequestsInv
  <2> QED
    BY <2>1 DEF ReqInv, ReqTypes
<1> QED
  BY <1>1, ForegroundInvariant, PTL

(* A job whose caller has left is cancelled, or its work is over. *)
THEOREM NoWorkGoesOn == Spec => []NoWorkForNobody
<1>1. ForegroundInv => NoWorkForNobody
  BY QueueFacts DEF ForegroundInv, RequestsInv, ReqInv, NoWorkForNobody
<1> QED
  BY <1>1, ForegroundInvariant, PTL
(* Request, coroutine, future and file settle together.                     *)
THEOREM RequestsAreAlwaysSettled == Spec => []RequestsAreSettled
<1>1. NoLeakedFile /\ ReturnedHasFile /\ NothingAbandoned /\ NoWorkForNobody => RequestsAreSettled
  BY DEF RequestsAreSettled
<1> QED
  BY <1>1, NoFileLeaks, ResponseHasFile, NothingIsAbandoned, NoWorkGoesOn, PTL

=============================================================================
