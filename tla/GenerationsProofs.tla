--------------------------- MODULE GenerationsProofs ---------------------------
(***************************************************************************)
(* Theorems about Generations for every set of rows and envelopes, every   *)
(* queue bound and every number of database faults.  What the rows say is  *)
(* tied to where the queue holds their job; the queue's own invariant      *)
(* comes from TaskQueueProofs.                                             *)
(***************************************************************************)
EXTENDS Generations, TaskQueueProofs, FiniteSetTheorems, Functions

RowTypes ==
  /\ status \in [Ids -> {"absent"} \cup Active \cup Terminal]
  /\ stage = "load" => saved = {}
  /\ child = "fresh" => saved = {}

(* The row of a job exists, it is active while the job waits uncancelled,  *)
(* and a unit is completed only by being saved.                            *)
RowInv(i) ==
  /\ i \in queued \cup job => status[i] # "absent"
  /\ i \in queued \ cancelled => status[i] \in Active
  /\ i \in job \ saved /\ child \in LiveChild => status[i] # "completed"

RowsInv == RowTypes /\ \A i \in Ids : RowInv(i)

GenInv == QueueInv /\ RowsInv

(* What no step may do to a row. *)
CompletedKept(i) ==
  status[i] = "completed" /\ status'[i] # "completed" =>
    status'[i] \in {"absent", "generating"} /\ ~Owned(i)
CancelKept(i) ==
  i \in cancelled /\ status'[i] = "completed" => status[i] = "completed"

Good == RowsInv' /\ \A i \in Ids : CompletedKept(i) /\ CancelKept(i)

USE JobsAssumption, MaxQueuedAssumption, IdsAssumption DEF Active, Terminal

-----------------------------------------------------------------------------
LEMMA EnvelopeIds ==
  ASSUME NEW e \in Envelopes
  PROVE  e \in Jobs /\ e \subseteq Ids
BY DEF ExactIds

(* Every step is a step of the queue or leaves it alone. *)
LEMMA QueueStep == [Next]_vars => [QueueNext]_queueVars
<1> SUFFICES ASSUME [Next]_vars PROVE [QueueNext]_queueVars
  OBVIOUS
<1>1. CASE UNCHANGED vars
  BY <1>1 DEF vars
<1>2. ASSUME NEW i \in Ids, Generate(i) \/ Retry(i) \/ Regenerate(i)
      PROVE  [QueueNext]_queueVars
  <2>1. {i} \in Jobs
    BY <1>2 DEF Generate, Retry, Regenerate
  <2> QED
    BY <1>2, <2>1 DEF Generate, Retry, Regenerate, Submit, QueueNext
<1>3. ASSUME NEW e \in Envelopes, SubmitExact(e)
      PROVE  [QueueNext]_queueVars
  BY <1>3, EnvelopeIds DEF SubmitExact, ExactAccept, ExactRefused, ExactUnsure, ExactRepeat, QueueNext
<1>4. ASSUME NEW i \in Ids, CancelRoute(i) \/ DeleteRow(i)
      PROVE  [QueueNext]_queueVars
  BY <1>4 DEF CancelRoute, CancelExecuting, CancelWaiting, ClearOrphan, DeleteRow, QueueNext
<1>5. CASE DeleteFailed
  BY <1>5 DEF DeleteFailed
<1>6. CASE WorkerSteps \/ Shutdown \/ Drain \/ Crash \/ Startup
  BY <1>6 DEF WorkerSteps, Take, Drop, Finish, Stop, Shutdown, Drain, Crash, Startup, QueueNext
<1>7. CASE Coroutine
  <2>1. CASE \E i \in Ids : SaveUnit(i) \/ SaveUnsure(i)
    BY <2>1 DEF SaveUnit, SaveUnsure, QueueNext, DoneChild
  <2>2. CASE Begin \/ ModelLoaded \/ NeverStarts
    BY <2>2 DEF Begin, ModelLoaded, NeverStarts, QueueNext
  <2>3. CASE Fail \/ Cancelled
    BY <2>3 DEF Fail, Cancelled, Abort, QueueNext, DoneChild
  <2> QED
    BY <1>7, <2>1, <2>2, <2>3 DEF Coroutine
<1> QED
  BY <1>1, <1>2, <1>3, <1>4, <1>5, <1>6, <1>7 DEF Next, Requests

LEMMA RowsInit == Init => RowsInv
BY DEF Init, QueueInit, RowsInv, RowTypes, RowInv

-----------------------------------------------------------------------------
(* Steps that change rows of no job, while the queue stays as it is. *)
LEMMA OtherRows ==
  ASSUME GenInv, NEW ids \in SUBSET Ids, ids \cap (queued \cup job) = {},
         status' \in [Ids -> {"absent"} \cup Active \cup Terminal],
         \A x \in Ids \ ids : status'[x] = status[x],
         \A x \in ids : CompletedKept(x) /\ CancelKept(x),
         UNCHANGED <<queueVars, stage, saved>>
  PROVE  Good
<1>1. \A x \in Ids : RowInv(x)
  BY DEF GenInv, RowsInv
<1>2. UNCHANGED <<queued, cancelled, job, child, stage, saved>>
  BY DEF queueVars, tableVars, childVars
<1>3. ASSUME NEW x \in Ids
      PROVE  RowInv(x)' /\ CompletedKept(x) /\ CancelKept(x)
  <2>1. CASE x \in ids
    BY <1>2, <2>1 DEF RowInv
  <2>2. CASE x \notin ids
    BY <1>1, <1>2, <2>2 DEF RowInv, CompletedKept, CancelKept
  <2> QED
    BY <2>1, <2>2
<1>4. RowTypes'
  BY <1>2 DEF GenInv, RowsInv, RowTypes
<1> QED
  BY <1>3, <1>4 DEF Good, RowsInv

(* A job that is accepted: none of its rows had one. *)
LEMMA Accepted ==
  ASSUME GenInv, NEW ids \in Jobs, ids \subseteq Ids, Enqueue(ids), ids \cap (queued \cup job) = {},
         status' = [x \in Ids |-> IF x \in ids THEN "generating" ELSE status[x]],
         UNCHANGED <<stage, saved>>
  PROVE  Good
<1>1. (\A x \in Ids : RowInv(x)) /\ RowTypes /\ (\A x \in Ids : Owned(x) <=> x \in queued \cup job)
  BY QueueFacts DEF GenInv, RowsInv
<1>2. queued' = queued \cup ids /\ UNCHANGED <<cancelled, job, child>>
  BY DEF Enqueue, childVars
<1>3. RowTypes'
  BY <1>1, <1>2 DEF RowTypes
<1>4. ASSUME NEW x \in Ids
      PROVE  RowInv(x)' /\ CompletedKept(x) /\ CancelKept(x)
  BY <1>1, <1>2 DEF RowInv, CompletedKept, CancelKept
<1> QED
  BY <1>3, <1>4 DEF Good, RowsInv

LEMMA PlainRequests ==
  ASSUME GenInv, NEW i \in Ids, Generate(i) \/ Retry(i) \/ Regenerate(i)
  PROVE  Good
<1>1. {i} \in Jobs /\ RowInv(i) /\ RowTypes
  BY DEF Generate, Retry, Regenerate, GenInv, RowsInv
<1>2. ~Owned(i) /\ {i} \cap (queued \cup job) = {} /\ {i} \in SUBSET Ids
  BY <1>1, QueueFacts DEF Generate, Retry, Regenerate, GenInv, RowInv
<1>3. PICK restore \in {"failed", "completed"} :
        Submit(i, restore) /\ (restore = "completed" <=> status[i] = "completed")
  BY DEF Generate, Retry, Regenerate
<1>4. CASE Enqueue({i}) /\ status' = [status EXCEPT ![i] = "generating"]
  <2>1. status' = [x \in Ids |-> IF x \in {i} THEN "generating" ELSE status[x]]
    BY <1>1, <1>4, ZenonT(30) DEF RowTypes
  <2> QED
    <3>1. UNCHANGED <<stage, saved>> /\ Enqueue({i})
      BY <1>3, <1>4 DEF Submit
    <3> QED
      BY <1>1, <1>2, <2>1, <3>1, Accepted
<1>5. CASE UNCHANGED queueVars
  <2>1. PICK s \in {restore, "generating"} : status' = [status EXCEPT ![i] = s]
    BY <1>3, <1>5 DEF Submit
  <2>2. status' \in [Ids -> {"absent"} \cup Active \cup Terminal] /\ \A x \in Ids \ {i} : status'[x] = status[x]
    BY <1>1, <2>1 DEF RowTypes
  <2>3. CompletedKept(i) /\ CancelKept(i)
    BY <1>1, <1>2, <1>3, <2>1 DEF RowTypes, CompletedKept, CancelKept
  <2>4. UNCHANGED <<stage, saved>>
    BY <1>3 DEF Submit
  <2>5. \A x \in {i} : CompletedKept(x) /\ CancelKept(x)
    BY <2>3
  <2> HIDE DEF Active, Terminal
  <2> QED
    BY <1>2, <1>5, <2>2, <2>4, <2>5, OtherRows, ZenonT(30)
<1> QED
  BY <1>3, <1>4, <1>5 DEF Submit

LEMMA ExactRequests ==
  ASSUME GenInv, NEW e \in Envelopes, SubmitExact(e)
  PROVE  Good
<1>1. e \in Jobs /\ e \subseteq Ids /\ RowTypes /\ UNCHANGED <<stage, saved>>
  BY EnvelopeIds DEF GenInv, RowsInv, SubmitExact
<1>2. e \cap (queued \cup job) = {}
  <2>1. CASE Unknown(e)
    BY <1>1, <2>1 DEF GenInv, RowsInv, RowInv, Unknown
  <2>2. CASE ExactRepeat(e)
    BY <1>1, <2>2, QueueFacts DEF ExactRepeat, GenInv
  <2> QED
    BY <2>1, <2>2 DEF SubmitExact, ExactAccept, ExactRefused, ExactUnsure
<1>3. CASE ExactAccept(e)
  BY <1>1, <1>2, <1>3, Accepted DEF ExactAccept
<1>4. CASE ExactRefused(e) \/ ExactUnsure(e)
  <2>1. \A i \in e : status[i] = "absent"
    BY <1>4 DEF ExactRefused, ExactUnsure, Unknown
  <2>2. PICK t \in [Ids -> {"same", "failed", "generating"}] :
          /\ status' = [x \in Ids |-> IF t[x] = "same" THEN status[x] ELSE t[x]]
          /\ \A x \in Ids \ e : t[x] = "same"
          /\ \A x \in e : t[x] # "same"
    <3>1. CASE ExactUnsure(e)
      <4>1. PICK s \in {"failed", "generating"} : status' = [i \in Ids |-> IF i \in e THEN s ELSE status[i]]
        BY <3>1 DEF ExactUnsure
      <4> WITNESS [x \in Ids |-> IF x \in e THEN s ELSE "same"] \in [Ids -> {"same", "failed", "generating"}]
      <4> QED
        BY <1>1, <4>1
    <3>2. CASE ExactRefused(e)
      <4> DEFINE rows == [i \in Ids |-> IF i \in e THEN "generating" ELSE status[i]]
      <4>1. PICK done \in SUBSET e :
              status' = [i \in Ids |-> IF i \in done /\ rows[i] # "absent" THEN "failed" ELSE rows[i]]
        <5>1. FailInTurn(e, rows, tasks \cup e)
          BY <3>2 DEF ExactRefused
        <5> QED
          BY ONLY <5>1, Zenon DEF FailInTurn
      <4> WITNESS [x \in Ids |-> IF x \in done THEN "failed" ELSE IF x \in e THEN "generating" ELSE "same"]
                  \in [Ids -> {"same", "failed", "generating"}]
      <4> QED
        BY <1>1, <4>1
    <3> QED
      BY <1>4, <3>1, <3>2, ZenonT(30)
  <2>3. status' \in [Ids -> {"absent"} \cup Active \cup Terminal] /\ \A x \in Ids \ e : status'[x] = status[x]
    BY <1>1, <2>2 DEF RowTypes
  <2>4. \A x \in e : CompletedKept(x) /\ CancelKept(x)
    BY <1>1, <2>1, <2>2 DEF CompletedKept, CancelKept
  <2>5. UNCHANGED queueVars
    BY <1>4 DEF ExactRefused, ExactUnsure
  <2> QED
    BY <1>1, <1>2, <2>3, <2>4, <2>5, OtherRows
<1>5. CASE ExactRepeat(e)
  <2>1. status' = Written(ActiveAmong(e), "failed") /\ UNCHANGED queueVars
    BY <1>5 DEF ExactRepeat
  <2>2. status' \in [Ids -> {"absent"} \cup Active \cup Terminal] /\ \A x \in Ids \ e : status'[x] = status[x]
    BY <1>1, <2>1 DEF RowTypes, Written, ActiveAmong
  <2>3. \A x \in e : CompletedKept(x) /\ CancelKept(x)
    BY <1>1, <2>1 DEF Written, ActiveAmong, CompletedKept, CancelKept
  <2> QED
    BY <1>1, <1>2, <2>1, <2>2, <2>3, OtherRows, ZenonT(30)
<1> QED
  BY <1>3, <1>4, <1>5 DEF SubmitExact

LEMMA Deletions ==
  ASSUME GenInv, \/ DeleteFailed
                 \/ \E i \in Ids : DeleteRow(i)
  PROVE  Good
<1> DEFINE ids == {i \in Ids : ~Owned(i)}
<1>1. ids \cap (queued \cup job) = {} /\ RowTypes
  BY QueueFacts DEF GenInv, RowsInv
<1>2. UNCHANGED <<queueVars, stage, saved>>
  BY DEF DeleteFailed, DeleteRow
<1>3. /\ status' \in [Ids -> {"absent"} \cup Active \cup Terminal]
      /\ \A x \in Ids \ ids : status'[x] = status[x]
      /\ \A x \in Ids : status'[x] \in {status[x], "absent"}
  BY <1>1 DEF DeleteFailed, DeleteRow, RowTypes
<1>4. \A x \in ids : CompletedKept(x) /\ CancelKept(x)
  BY <1>3 DEF CompletedKept, CancelKept
<1> QED
  BY <1>1, <1>2, <1>3, <1>4, OtherRows, ZenonT(30)

-----------------------------------------------------------------------------
LEMMA Cancels ==
  ASSUME GenInv, NEW i \in Ids, CancelRoute(i)
  PROVE  Good
<1>1. /\ \A x \in Ids : RowInv(x)
      /\ RowTypes /\ status[i] \in Active
      /\ \A x \in Ids : Owned(x) <=> x \in queued \cup job
      /\ queued \subseteq Ids /\ queued \cap job = {} /\ running = job
  BY QueueFacts DEF GenInv, RowsInv, CancelRoute
<1>2. CASE CancelExecuting(i)
  <2>1. UNCHANGED <<queued, job, child, status, stage, saved>> /\ cancelled \subseteq cancelled'
    BY <1>2 DEF CancelExecuting, CancelRunning, rowVars
  <2> QED
    BY <1>1, <2>1 DEF Good, RowsInv, RowTypes, RowInv, CompletedKept, CancelKept
<1>3. CASE CancelWaiting(i)
  <2>1. /\ JobIds(i) \subseteq queued
        /\ UNCHANGED <<queued, job, child, stage, saved>>
        /\ cancelled' = cancelled \cup JobIds(i)
        /\ JobIds(i) \cap cancelled = {}
    BY <1>3, WaitingSiblings DEF CancelWaiting, CancelQueued, GenInv, childVars
  <2>2. PICK done \in SUBSET JobIds(i) :
          status' = [x \in Ids |-> IF x \in done /\ status[x] # "absent" THEN "failed" ELSE status[x]]
    BY <1>3 DEF CancelWaiting, FailInTurn
  <2>3. RowTypes'
    BY <1>1, <2>1, <2>2 DEF RowTypes
  <2>4. ASSUME NEW x \in Ids PROVE RowInv(x)' /\ CompletedKept(x) /\ CancelKept(x)
    BY <1>1, <2>1, <2>2 DEF RowInv, CompletedKept, CancelKept
  <2> QED
    BY <2>3, <2>4 DEF Good, RowsInv
<1>4. CASE ClearOrphan(i)
  <2>1. /\ UNCHANGED <<queued, job, child, cancelled, stage, saved>>
        /\ i \in cancelled \/ i \notin queued \cup job
    BY <1>1, <1>4 DEF ClearOrphan, CancelUntracked, queueVars, tableVars, childVars
  <2>2. status' \in {status, [status EXCEPT ![i] = "failed"]}
    BY <1>1, <1>4 DEF ClearOrphan, Written, RowTypes
  <2>3. RowTypes'
    BY <1>1, <2>1, <2>2 DEF RowTypes
  <2>4. ASSUME NEW x \in Ids PROVE RowInv(x)' /\ CompletedKept(x) /\ CancelKept(x)
    <3>1. status'[x] = status[x] \/ (x = i /\ status'[x] = "failed")
      BY <1>1, <2>2 DEF RowTypes
    <3> QED
      BY <1>1, <2>1, <3>1 DEF RowInv, CompletedKept, CancelKept
  <2> QED
    BY <2>3, <2>4 DEF Good, RowsInv
<1> QED
  BY <1>2, <1>3, <1>4 DEF CancelRoute

(* What forcing a set of rows terminal does to one row. *)
LEMMA Forced ==
  ASSUME NEW ids, NEW n, ForceFail(ids, n), RowTypes, NEW x \in Ids
  PROVE  /\ status' \in [Ids -> {"absent"} \cup Active \cup Terminal]
         /\ status'[x] # status[x] => x \in ids /\ status[x] \in Active /\ status'[x] = "failed"
BY DEF ForceFail, Written, ActiveAmong, RowTypes

LEMMA WorkerAndShutdown ==
  ASSUME GenInv, WorkerSteps \/ Shutdown \/ Drain \/ Crash \/ Startup
  PROVE  Good
<1>1. /\ \A x \in Ids : RowInv(x)
      /\ RowTypes
      /\ \A x \in Ids : Owned(x) <=> x \in queued \cup job
      /\ queued \subseteq Ids /\ queued \cap job = {} /\ QueuedJobIds = queued
      /\ queue # <<>> => Head(queue) \subseteq queued
  BY QueueFacts DEF GenInv, RowsInv
<1>2. CASE Take
  <2>1. /\ UNCHANGED <<status, cancelled>> /\ saved' = {} /\ child' = "fresh"
        /\ job' = Head(queue) /\ queued' = queued \ job' /\ job' \subseteq queued
        /\ job' \cap cancelled = {}
    BY <1>1, <1>2 DEF Take, WorkerTake, Listening
  <2>2. RowTypes'
    BY <1>1, <2>1 DEF RowTypes
  <2>3. ASSUME NEW x \in Ids PROVE RowInv(x)' /\ CompletedKept(x) /\ CancelKept(x)
    BY <1>1, <2>1 DEF RowInv, CompletedKept, CancelKept
  <2> QED
    BY <2>2, <2>3 DEF Good, RowsInv
<1>3. CASE Drop
  <2> DEFINE h == Head(queue)
  <2>1. /\ ForceFail(h, 2) /\ queued' = queued \ h /\ cancelled' = cancelled \ h
        /\ UNCHANGED <<job, child, stage, saved>> /\ h \subseteq queued
    BY <1>1, <1>3 DEF Drop, WorkerSkip, Listening, Release, childVars
  <2> HIDE DEF h
  <2>2. ASSUME NEW x \in Ids PROVE RowInv(x)' /\ CompletedKept(x) /\ CancelKept(x)
    <3>1. status'[x] # status[x] => x \in h /\ status[x] \in Active /\ status'[x] = "failed"
      BY <1>1, <2>1, Forced
    <3> QED
      BY <1>1, <2>1, <3>1 DEF RowInv, CompletedKept, CancelKept
  <2>3. RowTypes'
    <3>1. CASE Ids = {}
      BY <1>1, <2>1, <3>1 DEF RowTypes, ForceFail, Written
    <3>2. CASE Ids # {}
      BY <1>1, <2>1, <3>2, Forced DEF RowTypes
    <3> QED
      BY <3>1, <3>2
  <2> QED
    BY <2>2, <2>3 DEF Good, RowsInv
<1>4. CASE Finish
  <2>1. PICK n : ForceFail(job, n)
    BY <1>4 DEF Finish
  <2>2. /\ queued' = queued /\ cancelled' = cancelled \ job
        /\ job' = {} /\ child' = "none" /\ saved' = {}
    BY <1>1, <1>4 DEF Finish, WorkerFinish, Release
  <2>3. ASSUME NEW x \in Ids PROVE RowInv(x)' /\ CompletedKept(x) /\ CancelKept(x)
    <3>1. status'[x] # status[x] => x \in job /\ status[x] \in Active /\ status'[x] = "failed"
      BY <1>1, <2>1, Forced
    <3> QED
      BY <1>1, <2>2, <3>1 DEF RowInv, CompletedKept, CancelKept
  <2>4. RowTypes'
    BY <1>1, <2>1, <2>2 DEF RowTypes, ForceFail, Written, ActiveAmong
  <2> QED
    BY <2>3, <2>4 DEF Good, RowsInv
<1>5. CASE Stop \/ Shutdown
  <2>1. UNCHANGED <<queued, job, child, cancelled, status, stage, saved>>
    BY <1>5 DEF Stop, Shutdown, WorkerStop, ShutdownRequest, tableVars, childVars, rowVars
  <2> QED
    BY <1>1, <2>1 DEF Good, RowsInv, RowTypes, RowInv, CompletedKept, CancelKept
<1>6. CASE Drain
  <2>1. /\ ForceFail(queued, 1) /\ queued' = {} /\ UNCHANGED <<job, child, stage, saved>>
        /\ cancelled' = cancelled \ queued
    BY <1>1, <1>6 DEF Drain, ShutdownDrain, Release, childVars
  <2>2. ASSUME NEW x \in Ids PROVE RowInv(x)' /\ CompletedKept(x) /\ CancelKept(x)
    <3>1. status'[x] # status[x] => x \in queued /\ status[x] \in Active /\ status'[x] = "failed"
      BY <1>1, <2>1, Forced
    <3> QED
      BY <1>1, <2>1, <3>1 DEF RowInv, CompletedKept, CancelKept
  <2>3. RowTypes'
    BY <1>1, <2>1 DEF RowTypes, ForceFail, Written, ActiveAmong
  <2> QED
    BY <2>2, <2>3 DEF Good, RowsInv
<1>7. CASE Crash \/ Startup
  <2>1. /\ queued' = {} /\ job' = {} /\ child' = "none" /\ saved' = {}
        /\ status' \in {status, Written(ActiveAmong(Ids), "failed")}
    BY <1>7 DEF Crash, Startup, QueueCrash, InitQueue
  <2>2. RowTypes'
    BY <1>1, <2>1 DEF RowTypes, Written, ActiveAmong
  <2>3. ASSUME NEW x \in Ids PROVE RowInv(x)' /\ CompletedKept(x) /\ CancelKept(x)
    BY <1>1, <2>1 DEF RowInv, CompletedKept, CancelKept, Written, ActiveAmong
  <2> QED
    BY <2>2, <2>3 DEF Good, RowsInv
<1> QED
  BY <1>2, <1>3, <1>4, <1>5, <1>6, <1>7 DEF WorkerSteps

LEMMA CoroutineSteps ==
  ASSUME GenInv, Coroutine
  PROVE  Good
<1>1. /\ \A x \in Ids : RowInv(x)
      /\ RowTypes
      /\ \A x \in Ids : Owned(x) <=> x \in queued \cup job
      /\ queued \cap job = {} /\ job \subseteq Ids
  BY QueueFacts DEF GenInv, RowsInv
<1>2. UNCHANGED <<queued, cancelled, job>>
  BY ZenonT(30) DEF Coroutine, Begin, ModelLoaded, Fail, Cancelled, Abort, NeverStarts, SaveUnit, SaveUnsure,
     ChildStart, ChildNeverStarts, ChildEnd, queueVars, tableVars, childVars
<1>3. CASE Begin \/ ModelLoaded
  <2>1. /\ child \in LiveChild /\ child' = "running" /\ saved = {} /\ saved' = {}
        /\ \/ status' = status
           \/ status' = Written(job, "loading_model")
           \/ status' = Written(job, "generating")
    BY <1>1, <1>3 DEF Begin, ModelLoaded, ChildStart, LiveChild, RowTypes, queueVars, childVars
  <2>2. RowTypes'
    BY <1>1, <2>1 DEF RowTypes, Written
  <2>3. ASSUME NEW x \in Ids PROVE RowInv(x)' /\ CompletedKept(x) /\ CancelKept(x)
    BY <1>1, <1>2, <2>1 DEF RowInv, CompletedKept, CancelKept, Written
  <2> QED
    BY <2>2, <2>3 DEF Good, RowsInv
<1>4. ASSUME NEW i \in Ids, SaveUnit(i) \/ SaveUnsure(i)
      PROVE  Good
  <2>1. /\ child = "running" /\ child' \in {"running", "returned", "raised"}
        /\ i \in job \ saved /\ status' = Written({i}, "completed")
        /\ stage = "infer" /\ stage' = stage
        /\ saved' = saved \cup {i} \/ child' = "raised"
    BY <1>4 DEF SaveUnit, SaveUnsure, ChildEnd, Unsaved, queueVars, childVars
  <2>2. i \notin cancelled
    BY <1>4, <2>1 DEF SaveUnit, SaveUnsure, GenInv, QueueInv, CancelReachesChild, LiveChild
  <2>3. RowTypes'
    BY <1>1, <2>1 DEF RowTypes, Written
  <2>4. ASSUME NEW x \in Ids PROVE RowInv(x)' /\ CompletedKept(x) /\ CancelKept(x)
    BY <1>1, <1>2, <2>1, <2>2 DEF RowInv, CompletedKept, CancelKept, Written, LiveChild
  <2> QED
    BY <2>3, <2>4 DEF Good, RowsInv
<1>5. CASE Fail \/ Cancelled
  <2>1. /\ child = "running" /\ child' \in DoneChild /\ UNCHANGED <<stage, saved>>
        /\ \E done \in SUBSET (job \ saved) : status' = Written(done, "failed")
    BY <1>5 DEF Fail, Cancelled, Abort, ChildEnd, DoneChild, Unsaved
  <2>2. RowTypes'
    BY <1>1, <2>1 DEF RowTypes, Written, DoneChild
  <2>3. ASSUME NEW x \in Ids PROVE RowInv(x)' /\ CompletedKept(x) /\ CancelKept(x)
    BY <1>1, <1>2, <2>1 DEF RowInv, CompletedKept, CancelKept, Written, LiveChild, DoneChild
  <2> QED
    BY <2>2, <2>3 DEF Good, RowsInv
<1>6. CASE NeverStarts
  <2>1. UNCHANGED <<status, stage, saved>> /\ child' = "cancelled"
    BY <1>6 DEF NeverStarts, ChildNeverStarts, rowVars
  <2> QED
    BY <1>1, <1>2, <2>1 DEF Good, RowsInv, RowTypes, RowInv, CompletedKept, CancelKept, LiveChild
<1> QED
  BY <1>3, <1>4, <1>5, <1>6 DEF Coroutine

LEMMA RowsStep == GenInv /\ [Next]_vars => Good
<1> SUFFICES ASSUME GenInv, [Next]_vars PROVE Good
  OBVIOUS
<1>1. CASE UNCHANGED vars
  <2>1. UNCHANGED <<queued, job, child, cancelled, status, stage, saved>>
    BY <1>1 DEF vars, queueVars, tableVars, childVars, rowVars
  <2> QED
    BY <2>1 DEF GenInv, Good, RowsInv, RowTypes, RowInv, CompletedKept, CancelKept
<1> QED
  BY <1>1, PlainRequests, ExactRequests, Deletions, Cancels, WorkerAndShutdown, CoroutineSteps
     DEF Next, Requests

-----------------------------------------------------------------------------
(* The rows and the queue: what a row says fits where the queue has its job,*)
(* whatever is submitted, retried, cancelled, deleted or restarted.         *)
THEOREM GenInvariant == Spec => []GenInv
<1>1. Init => GenInv
  BY InitInv, RowsInit DEF Init, GenInv
<1>2. GenInv /\ [Next]_vars => GenInv'
  BY QueueStep, StepInv, RowsStep DEF GenInv, Good
<1> QED
  BY <1>1, <1>2, PTL DEF Spec

-----------------------------------------------------------------------------
(* The types GenInv does not need. *)
LooseTypes ==
  /\ tasks \in SUBSET Ids
  /\ stage \in {"load", "infer"}
  /\ saved \in SUBSET job
  /\ faults \in 0..MaxFaults

LEMMA FaultCounted ==
  ASSUME faults \in 0..MaxFaults, NEW n \in Nat, Fault(n)
  PROVE  faults' \in 0..MaxFaults
BY MaxFaultsAssumption DEF Fault

(* A job has one or two units, and finitely many jobs wait. *)
LEMMA JobsFinite == \A ids \in Jobs : IsFiniteSet(ids)
<1>1. \A i : IsFiniteSet({i})
  BY ONLY FS_Singleton
<1>2. \A e \in Envelopes : IsFiniteSet(e)
  BY ONLY EnvelopesAssumption
<1> SUFFICES ASSUME NEW ids \in Jobs PROVE IsFiniteSet(ids)
  OBVIOUS
<1>3. CASE ids \in Envelopes
  BY <1>2, <1>3
<1>4. CASE \E i \in PlainIds : ids = {i}
  <2>1. PICK i \in PlainIds : ids = {i}
    BY <1>4
  <2>2. IsFiniteSet({i})
    BY <1>1, ZenonT(30)
  <2> QED
    BY ONLY <2>1, <2>2
<1> QED
  BY <1>3, <1>4

LEMMA QueuedFinite ==
  ASSUME queue \in Seq(Jobs)
  PROVE  IsFiniteSet(QueuedJobIds)
<1> DEFINE T == {queue[k] : k \in DOMAIN queue}
<1>1. DOMAIN queue = 1..Len(queue) /\ Len(queue) \in Nat
      /\ \A k \in DOMAIN queue : queue[k] \in Jobs
  OBVIOUS
<1>2. queue \in Surjection(DOMAIN queue, T)
  <2>1. queue \in [DOMAIN queue -> T]
    BY <1>1
  <2> QED
    BY <2>1 DEF Surjection
<1>3. IsFiniteSet(DOMAIN queue)
  <2>1. \A n \in Nat : IsFiniteSet(1..n)
    BY FS_Interval
  <2> QED
    BY ONLY <1>1, <2>1
<1>4. IsFiniteSet(T)
  <2> HIDE DEF T
  <2> QED
    BY <1>2, <1>3, FS_Surjection
<1>5. \A ids \in T : IsFiniteSet(ids)
  BY <1>1, JobsFinite
<1>6. IsFiniteSet(UNION T)
  <2> HIDE DEF T
  <2> QED
    BY <1>4, <1>5, FS_UNION
<1> QED
  BY <1>6 DEF QueuedJobIds

LEMMA ForcedCount ==
  ASSUME NEW ids, IsFiniteSet(ids), NEW n \in {1, 2}, ForceFail(ids, n), faults \in 0..MaxFaults
  PROVE  faults' \in 0..MaxFaults
<1>1. PICK lost \in SUBSET ActiveAmong(ids) : Fault(n * Cardinality(lost))
  BY DEF ForceFail
<1>2. lost \in SUBSET ids
  BY DEF ActiveAmong
<1>3. IsFiniteSet(lost)
  BY <1>2, FS_Subset
<1>4. Cardinality(lost) \in Nat
  BY <1>3, FS_CardinalityType
<1>5. n * Cardinality(lost) \in Nat
  BY <1>4
<1> QED
  BY <1>1, <1>5, FaultCounted

LEMMA RequestTypes ==
  ASSUME GenInv, LooseTypes, Requests
  PROVE  LooseTypes'
<1> USE DEF LooseTypes
<1>1. ASSUME NEW i \in Ids, Generate(i) \/ Retry(i) \/ Regenerate(i) PROVE LooseTypes'
  <2>1. /\ tasks' \in {tasks, tasks \cup {i}, tasks \ {i}}
        /\ NoFault \/ Fault(1)
        /\ UNCHANGED <<stage, saved, job>>
    BY <1>1 DEF Generate, Retry, Regenerate, Submit, Enqueue, queueVars, childVars
  <2> QED
    BY <2>1, FaultCounted DEF NoFault
<1>2. ASSUME NEW i \in Ids, CancelRoute(i) \/ DeleteRow(i) PROVE LooseTypes'
  <2>1. /\ tasks' \subseteq tasks
        /\ NoFault \/ Fault(1)
        /\ UNCHANGED <<stage, saved, job>>
    BY <1>2 DEF CancelRoute, CancelExecuting, CancelWaiting, ClearOrphan, DeleteRow, FailInTurn,
       CancelRunning, CancelQueued, NoFault, rowVars, queueVars, childVars
  <2> QED
    BY <2>1, FaultCounted DEF NoFault
<1>3. ASSUME NEW e \in Envelopes, SubmitExact(e) PROVE LooseTypes'
  <2>1. /\ tasks' \subseteq tasks \cup e
        /\ NoFault \/ Fault(1) \/ Fault(2)
        /\ UNCHANGED <<stage, saved, job>>
    BY <1>3, ZenonT(30) DEF SubmitExact, ExactAccept, ExactRefused, ExactUnsure, ExactRepeat, FailInTurn,
       Enqueue, queueVars, childVars
  <2> QED
    BY <2>1, FaultCounted, EnvelopeIds DEF NoFault
<1>4. CASE DeleteFailed
  BY <1>4 DEF DeleteFailed, queueVars, childVars
<1> QED
  BY <1>1, <1>2, <1>3, <1>4 DEF Requests

LEMMA JobTypes ==
  ASSUME GenInv, LooseTypes, WorkerSteps \/ Coroutine
  PROVE  LooseTypes'
<1> USE DEF LooseTypes
<1>1. /\ queue \in Seq(Jobs) /\ job \in Jobs \cup {{}}
  BY DEF GenInv, QueueInv, TypeOK
<1>2. CASE Take \/ Stop
  BY <1>2 DEF Take, Stop, WorkerStop, rowVars, childVars
<1>3. CASE Drop
  <2>1. IsFiniteSet(Head(queue))
    BY <1>1, <1>3, TailPositions, JobsFinite DEF Drop, WorkerSkip, Listening
  <2>2. faults' \in 0..MaxFaults
    BY <1>3, <2>1, ForcedCount DEF Drop
  <2> QED
    BY <1>3, <2>2 DEF Drop, WorkerSkip, childVars
<1>4. CASE Finish
  <2>1. IsFiniteSet(job)
    <3>1. IsFiniteSet({})
      BY FS_EmptySet
    <3> QED
      BY <1>1, <3>1, JobsFinite, ZenonT(30)
  <2>2. PICK n \in {1, 2} : ForceFail(job, n)
    BY <1>4 DEF Finish
  <2>3. faults' \in 0..MaxFaults
    BY <2>1, <2>2, ForcedCount
  <2> QED
    BY <1>4, <2>3 DEF Finish, WorkerFinish
<1>5. CASE Begin \/ ModelLoaded \/ NeverStarts
  BY <1>5 DEF Begin, ModelLoaded, NeverStarts, ChildStart, ChildNeverStarts, rowVars, queueVars, childVars
<1>6. CASE Fail \/ Cancelled
  <2>1. /\ tasks' \subseteq tasks
        /\ NoFault \/ Fault(1)
        /\ UNCHANGED <<stage, saved, job>>
    BY <1>6 DEF Fail, Cancelled, Abort, ChildEnd
  <2> QED
    BY <2>1, FaultCounted DEF NoFault
<1>7. ASSUME NEW i \in Ids, SaveUnit(i) \/ SaveUnsure(i) PROVE LooseTypes'
  <2>1. /\ tasks' \subseteq tasks
        /\ UNCHANGED faults \/ Fault(2)
        /\ saved' \subseteq saved \cup {i} /\ i \in job
        /\ UNCHANGED <<stage, job>>
    BY <1>7 DEF SaveUnit, SaveUnsure, ChildEnd, Unsaved, queueVars, childVars
  <2> QED
    BY <2>1, FaultCounted
<1> QED
  BY <1>2, <1>3, <1>4, <1>5, <1>6, <1>7 DEF WorkerSteps, Coroutine

LEMMA ProcessTypes ==
  ASSUME GenInv, LooseTypes, Shutdown \/ Drain \/ Crash \/ Startup
  PROVE  LooseTypes'
<1> USE DEF LooseTypes
<1>1. CASE Shutdown \/ Crash \/ Startup
  BY <1>1 DEF Shutdown, ShutdownRequest, Crash, Startup, QueueCrash, InitQueue, rowVars
<1>2. CASE Drain
  <2>1. IsFiniteSet(QueuedJobIds)
    BY QueuedFinite DEF GenInv, QueueInv, TypeOK
  <2>2. faults' \in 0..MaxFaults
    BY <1>2, <2>1, ForcedCount DEF Drain
  <2> QED
    BY <1>2, <2>2 DEF Drain, ShutdownDrain, childVars
<1> QED
  BY <1>1, <1>2

(* The rows, the panel, the saved units and the count of faults are always *)
(* of their types: what is saved belongs to the job that is executing, and *)
(* the panel lists requests only, whatever crashes and fails.              *)
THEOREM RowsTyped == Spec => []GenTypeOK
<1>1. Init => LooseTypes
  BY MaxFaultsAssumption DEF Init, QueueInit, LooseTypes
<1>2. GenInv /\ LooseTypes /\ [Next]_vars => LooseTypes'
  <2>1. CASE UNCHANGED vars
    BY <2>1 DEF vars, queueVars, childVars, rowVars, LooseTypes
  <2> QED
    BY <2>1, RequestTypes, JobTypes, ProcessTypes DEF Next
<1>3. GenInv /\ LooseTypes => GenTypeOK
  BY DEF GenInv, QueueInv, RowsInv, RowTypes, LooseTypes, GenTypeOK
<1> QED
  BY <1>1, <1>2, <1>3, GenInvariant, PTL DEF Spec

(* Deleting, clearing and retrying never take the row of a job away. *)
THEOREM RowsOutliveJobs == Spec => []RowOutlivesJob
<1>1. GenInv => RowOutlivesJob
  BY QueueFacts DEF GenInv, RowsInv, RowInv, RowOutlivesJob
<1> QED
  BY <1>1, GenInvariant, PTL

(* A waiting row is never terminal, whatever writes to the database fail. *)
THEOREM WaitingRowsStayActive == Spec => []WaitingRowsActive
<1>1. GenInv => WaitingRowsActive
  BY QueueFacts DEF GenInv, RowsInv, RowInv, WaitingRowsActive
<1> QED
  BY <1>1, GenInvariant, PTL

(* A finished result is only taken back by deleting or regenerating it. *)
THEOREM CompletedAlwaysStays == Spec => CompletedStays
<1>1. GenInv /\ [Next]_vars =>
        [\A i \in Ids : status[i] = "completed" /\ status'[i] # "completed" =>
            \/ status'[i] = "absent" /\ ~Owned(i)
            \/ status'[i] = "generating" /\ ~Owned(i)]_vars
  BY RowsStep DEF Good, CompletedKept
<1> QED
  BY <1>1, GenInvariant, PTL DEF Spec, CompletedStays

(* An accepted cancel is final. *)
THEOREM CancelAlwaysFinal == Spec => CancelIsFinal
<1>1. GenInv /\ [Next]_vars =>
        [\A i \in cancelled : status'[i] = "completed" => status[i] = "completed"]_vars
  <2>1. GenInv => cancelled \subseteq Ids
    BY DEF GenInv, QueueInv, TypeOK
  <2> QED
    BY <2>1, RowsStep DEF Good, CancelKept
<1> QED
  BY <1>1, GenInvariant, PTL DEF Spec, CancelIsFinal
(* While a job lives its row is there, and active until it is taken up.     *)
THEOREM RowsAlwaysFollowJobs == Spec => []RowsFollowJobs
<1>1. RowOutlivesJob /\ WaitingRowsActive => RowsFollowJobs
  BY DEF RowsFollowJobs
<1> QED
  BY <1>1, RowsOutliveJobs, WaitingRowsStayActive, PTL

(* Neither a completion nor an accepted cancel is taken back.               *)
THEOREM AnswersAreAlwaysFinal == Spec => AnswersAreFinal
BY CompletedAlwaysStays, CancelAlwaysFinal DEF AnswersAreFinal

-----------------------------------------------------------------------------
(* What a client is shown is the work of somebody, one row at a time. *)
Live(x) ==
  faults = 0 => /\ Up /\ status[x] \in Active => Owned(x)
                /\ x \in tasks => Owned(x)

LiveInv == LooseTypes /\ \A x \in Ids : Live(x)

LEMMA FaultExcuses ==
  ASSUME faults \in 0..MaxFaults, NEW n \in Nat \ {0}, Fault(n)
  PROVE  faults' # 0
BY MaxFaultsAssumption DEF Fault

(* Forcing rows terminal without a fault leaves none of them active. *)
LEMMA ForcedAll ==
  ASSUME NEW ids, IsFiniteSet(ids), NEW n \in {1, 2}, ForceFail(ids, n), faults \in 0..MaxFaults, faults' = 0,
         NEW x \in Ids
  PROVE  faults = 0 /\ (status'[x] \in Active => status[x] \in Active /\ x \notin ids)
<1>1. PICK lost \in SUBSET ActiveAmong(ids) :
        Fault(n * Cardinality(lost)) /\ status' = Written(ActiveAmong(ids) \ lost, "failed")
  BY ZenonT(30) DEF ForceFail
<1>2. lost \in SUBSET ids
  BY DEF ActiveAmong
<1>3. IsFiniteSet(lost)
  BY <1>2, FS_Subset
<1>4. PICK c \in Nat : c = Cardinality(lost)
  BY <1>3, FS_CardinalityType
<1>5. faults' = faults + n * c /\ faults \in Nat
  BY <1>1, <1>4, MaxFaultsAssumption DEF Fault
<1>6. faults = 0 /\ c = 0
  <2>1. CASE n = 1
    BY <1>4, <1>5, <2>1
  <2>2. CASE n = 2
    BY <1>4, <1>5, <2>2
  <2> QED
    BY <2>1, <2>2
<1>7. lost = {}
  <2>1. IsFiniteSet(lost) /\ Cardinality(lost) = 0
    BY <1>3, <1>4, <1>6
  <2> QED
    BY ONLY <2>1, FS_EmptySet
<1> QED
  BY <1>1, <1>6, <1>7 DEF Written, ActiveAmong

(* A step that makes no row active and shows none, other than owned ones. *)
LEMMA StaysLive ==
  ASSUME NEW x \in Ids, Live(x), faults' = 0 => faults = 0, Up' => Up, Owned(x) => Owned(x)',
         faults' = 0 => /\ status'[x] \in Active => status[x] \in Active \/ Owned(x)'
                        /\ x \in tasks' => x \in tasks \/ Owned(x)'
  PROVE  Live(x)'
BY DEF Live

LEMMA LiveRequests ==
  ASSUME GenInv, LiveInv, Requests, NEW x \in Ids PROVE Live(x)'
<1>1. Live(x) /\ faults \in 0..MaxFaults /\ faults \in Nat /\ RowTypes
  BY MaxFaultsAssumption DEF LiveInv, LooseTypes, GenInv, RowsInv
<1>2. ASSUME NEW i \in Ids, Generate(i) \/ Retry(i) \/ Regenerate(i) PROVE Live(x)'
  <2>1. PICK restore \in {"failed", "completed"} : Submit(i, restore)
    BY <1>2 DEF Generate, Retry, Regenerate
  <2>2. CASE Enqueue({i}) /\ status' = [status EXCEPT ![i] = "generating"] /\ tasks' = tasks \cup {i} /\ NoFault
    <3>1. {i} # {} /\ worker' = worker /\ faults' = faults /\ (Owned(x)' <=> (x = i \/ Owned(x)))
      BY <2>2 DEF Enqueue, workerVars, Owned, NoFault
    <3>2. x # i => status'[x] = status[x]
      BY <1>1, <2>2 DEF RowTypes
    <3>3. faults' = 0 => faults = 0
      BY <3>1
    <3>4. Up' => Up
      BY <3>1 DEF Up
    <3>5. status'[x] \in Active => status[x] \in Active \/ Owned(x)'
      BY <3>1, <3>2
    <3>6. x \in tasks' => x \in tasks \/ Owned(x)'
      BY <2>2, <3>1
    <3> QED
      BY <1>1, <3>1, <3>3, <3>4, <3>5, <3>6, StaysLive
  <2>3. CASE UNCHANGED queueVars /\ status' = [status EXCEPT ![i] = restore] /\ tasks' = tasks \ {i} /\ NoFault
    <3>1. worker' = worker /\ faults' = faults /\ (Owned(x)' <=> Owned(x))
      BY <2>3 DEF queueVars, tableVars, workerVars, Owned, NoFault
    <3>2. status'[x] \in Active => status'[x] = status[x]
      BY <1>1, <2>3 DEF RowTypes
    <3> QED
      BY <1>1, <2>3, <3>1, <3>2, StaysLive DEF Up
  <2>4. CASE Fault(1)
    BY <1>1, <2>4, FaultExcuses DEF Live
  <2> QED
    BY <2>1, <2>2, <2>3, <2>4 DEF Submit
<1>3. ASSUME NEW i \in Ids, CancelRoute(i) \/ DeleteRow(i) PROVE Live(x)'
  <2>1. worker' = worker /\ (Owned(x)' <=> Owned(x))
    BY <1>3 DEF CancelRoute, CancelExecuting, CancelWaiting, ClearOrphan, DeleteRow, CancelRunning, CancelQueued,
       queueVars, tableVars, workerVars, Owned
  <2>2. CASE Fault(1)
    BY <1>1, <2>2, FaultExcuses DEF Live
  <2>3. CASE NoFault
    <3>1. CASE CancelWaiting(i)
      <4>1. FailInTurn(JobIds(i), status, tasks)
        BY <3>1 DEF CancelWaiting
      <4>2. PICK tried, done : /\ status' = [j \in Ids |-> IF j \in done /\ status[j] # "absent" THEN "failed" ELSE status[j]]
                               /\ tasks' = tasks \ tried
        BY ONLY <4>1, Zenon DEF FailInTurn
      <4> QED
        BY <1>1, <2>1, <2>3, <4>2, StaysLive, ZenonT(30) DEF Up, NoFault
    <3>2. CASE CancelExecuting(i) \/ ClearOrphan(i) \/ DeleteRow(i)
      <4>1. tasks' \subseteq tasks
        BY <3>2 DEF CancelExecuting, ClearOrphan, DeleteRow, rowVars
      <4>2. status'[x] \in Active => status[x] \in Active
        BY <1>1, <3>2 DEF CancelExecuting, ClearOrphan, DeleteRow, rowVars, Written, RowTypes
      <4> QED
        BY <1>1, <2>1, <2>3, <4>1, <4>2, StaysLive DEF Up, NoFault
    <3> QED
      BY <1>3, <3>1, <3>2 DEF CancelRoute
  <2>4. NoFault \/ Fault(1)
    BY <1>3, ZenonT(30) DEF CancelRoute, CancelExecuting, CancelWaiting, FailInTurn, ClearOrphan, DeleteRow, rowVars, NoFault
  <2> QED
    BY <2>2, <2>3, <2>4
<1>4. ASSUME NEW e \in Envelopes, SubmitExact(e) PROVE Live(x)'
  <2>1. e \in Jobs /\ e \subseteq Ids
    BY EnvelopeIds
  <2>2. CASE ExactAccept(e)
    <3>1. e # {} /\ worker' = worker /\ faults' = faults /\ (Owned(x)' <=> (x \in e \/ Owned(x)))
      BY <2>1, <2>2 DEF ExactAccept, Enqueue, workerVars, Owned, NoFault
    <3>2. x \notin e => status'[x] = status[x]
      BY <2>2 DEF ExactAccept
    <3>3. x \notin e => (x \in tasks' => x \in tasks)
      BY <2>2 DEF ExactAccept
    <3> QED
      BY <1>1, <3>1, <3>2, <3>3, StaysLive DEF Up
  <2>3. CASE ExactRefused(e) /\ NoFault /\ \A n \in Nat \ {0} : ~Fault(n)
    <3> DEFINE rows == [i \in Ids |-> IF i \in e THEN "generating" ELSE status[i]]
    <3>1. /\ status' = [i \in Ids |-> IF i \in e /\ rows[i] # "absent" THEN "failed" ELSE rows[i]]
          /\ tasks' = (tasks \cup e) \ e
      <4>1. FailInTurn(e, rows, tasks \cup e)
        BY <2>3 DEF ExactRefused
      <4>2. PICK tried \in SUBSET e, done \in SUBSET e :
              /\ done \subseteq tried
              /\ status' = [i \in Ids |-> IF i \in done /\ rows[i] # "absent" THEN "failed" ELSE rows[i]]
              /\ tasks' = (tasks \cup e) \ tried
              /\ done = e \/ Fault(1)
        BY ONLY <4>1, Zenon DEF FailInTurn
      <4>3. done = e /\ tried = e
        <5>1. 1 \in Nat \ {0}
          OBVIOUS
        <5>2. ~Fault(1)
          BY <2>3, <5>1, ZenonT(30)
        <5>3. done = e
          BY ONLY <4>2, <5>2, Zenon
        <5>4. e \subseteq tried /\ tried \subseteq e
          BY ONLY <4>2, <5>3
        <5> QED
          BY ONLY <5>3, <5>4
      <4> QED
        BY <4>2, <4>3
    <3>2. worker' = worker /\ faults' = faults /\ (Owned(x)' <=> Owned(x))
      BY <2>3 DEF ExactRefused, queueVars, tableVars, workerVars, Owned, NoFault
    <3>3. status'[x] \in Active => status'[x] = status[x]
      BY <3>1
    <3>4. tasks' \subseteq tasks
      BY <3>1
    <3> QED
      BY <1>1, <3>2, <3>3, <3>4, StaysLive DEF Up
  <2>4. CASE ExactRepeat(e) /\ NoFault
    <3>1. worker' = worker /\ faults' = faults /\ (Owned(x)' <=> Owned(x))
      BY <2>4 DEF ExactRepeat, queueVars, tableVars, workerVars, Owned, NoFault
    <3>2. (status'[x] \in Active => status[x] \in Active) /\ tasks' \subseteq tasks
      BY <2>4 DEF ExactRepeat, Written
    <3> QED
      BY <1>1, <3>1, <3>2, StaysLive DEF Up
  <2>5. CASE \E n \in Nat \ {0} : Fault(n)
    BY <1>1, <2>5, FaultExcuses DEF Live
  <2>6. ExactRefused(e) => NoFault \/ \E n \in Nat \ {0} : Fault(n)
    <3>1. ExactRefused(e) => NoFault \/ Fault(1)
      BY DEF ExactRefused, FailInTurn
    <3> QED
      BY <3>1
  <2>7. ExactUnsure(e) => \E n \in Nat \ {0} : Fault(n)
    <3>1. ExactUnsure(e) => Fault(1) \/ Fault(2)
      BY DEF ExactUnsure
    <3> QED
      BY <3>1
  <2>8. ExactRepeat(e) => NoFault \/ Fault(1)
    BY DEF ExactRepeat
  <2> QED
    BY <1>4, <2>2, <2>3, <2>4, <2>5, <2>6, <2>7, <2>8 DEF SubmitExact
<1>5. CASE DeleteFailed
  <2>1. worker' = worker /\ (Owned(x)' <=> Owned(x)) /\ UNCHANGED <<tasks, faults>>
    BY <1>5 DEF DeleteFailed, queueVars, tableVars, workerVars, Owned
  <2>2. status'[x] \in Active => status[x] \in Active
    BY <1>5 DEF DeleteFailed
  <2> QED
    BY <1>1, <2>1, <2>2, StaysLive DEF Up
<1> QED
  BY <1>2, <1>3, <1>4, <1>5 DEF Requests

LEMMA LiveJobs ==
  ASSUME GenInv, LiveInv, WorkerSteps \/ Coroutine, NEW x \in Ids PROVE Live(x)'
<1>1. Live(x) /\ faults \in 0..MaxFaults /\ faults \in Nat /\ RowTypes
  BY MaxFaultsAssumption DEF LiveInv, LooseTypes, GenInv, RowsInv
<1>2. /\ queue \in Seq(Jobs) /\ job \in Jobs \cup {{}} /\ \A i \in job : Owned(i)
  BY QueueFacts DEF GenInv, QueueInv, TypeOK
<1>3. CASE Take \/ Stop
  BY <1>1, <1>3, StaysLive DEF Take, Stop, WorkerTake, WorkerStop, Listening, Up, Owned, rowVars, tableVars
<1>4. CASE Drop
  <2>1. IsFiniteSet(Head(queue))
    BY <1>2, <1>4, TailPositions, JobsFinite DEF Drop, WorkerSkip, Listening
  <2>2. worker' = worker /\ tasks' = tasks \ Head(queue) /\ (Owned(x)' <=> Owned(x) /\ x \notin Head(queue))
    BY <1>4 DEF Drop, WorkerSkip, Release, workerVars, Owned
  <2>3. faults' = 0 => faults = 0 /\ (status'[x] \in Active => status[x] \in Active /\ x \notin Head(queue))
    BY <1>1, <1>4, <2>1, ForcedAll DEF Drop
  <2> QED
    BY <1>1, <2>2, <2>3 DEF Live, Up
<1>5. CASE Finish
  <2>1. IsFiniteSet(job)
    <3>1. IsFiniteSet({})
      BY FS_EmptySet
    <3> QED
      BY <1>2, <3>1, JobsFinite, ZenonT(30)
  <2>2. PICK n \in {1, 2} : ForceFail(job, n)
    BY <1>5 DEF Finish
  <2>3. worker = "awaiting" /\ tasks' = tasks \ job /\ (Owned(x)' <=> Owned(x) /\ x \notin job)
    BY <1>5 DEF Finish, WorkerFinish, Release, Owned
  <2>4. faults' = 0 => faults = 0 /\ (status'[x] \in Active => status[x] \in Active /\ x \notin job)
    BY <1>1, <2>1, <2>2, ForcedAll
  <2> QED
    BY <1>1, <2>3, <2>4 DEF Live, Up
<1>6. CASE Coroutine
  <2>1. worker' = worker /\ (Owned(x)' <=> Owned(x)) /\ tasks' \subseteq tasks
    BY <1>6, ZenonT(30) DEF Coroutine, Begin, ModelLoaded, Fail, Cancelled, Abort, NeverStarts, SaveUnit, SaveUnsure,
       ChildStart, ChildNeverStarts, ChildEnd, queueVars, tableVars, workerVars, Owned, rowVars
  <2>2. status'[x] \in Active => status[x] \in Active \/ x \in job
    BY <1>1, <1>6 DEF Coroutine, Begin, ModelLoaded, Fail, Cancelled, Abort, NeverStarts, SaveUnit, SaveUnsure, Written,
       RowTypes, rowVars
  <2>3. (NoFault \/ Fault(1) \/ Fault(2))
    BY <1>6 DEF Coroutine, Begin, ModelLoaded, Fail, Cancelled, Abort, NeverStarts, SaveUnit, SaveUnsure, NoFault, rowVars
  <2>4. faults' = 0 => faults = 0
    BY <1>1, <2>3, FaultExcuses DEF NoFault
  <2> QED
    BY <1>1, <1>2, <2>1, <2>2, <2>4, StaysLive DEF Up
<1> QED
  BY <1>3, <1>4, <1>5, <1>6 DEF WorkerSteps

LEMMA LiveProcess ==
  ASSUME GenInv, LiveInv, Shutdown \/ Drain \/ Crash \/ Startup, NEW x \in Ids PROVE Live(x)'
<1>1. Live(x) /\ faults \in 0..MaxFaults /\ faults \in Nat /\ RowTypes
  BY MaxFaultsAssumption DEF LiveInv, LooseTypes, GenInv, RowsInv
<1>2. CASE Shutdown
  <2>1. worker' = worker /\ (Owned(x)' <=> Owned(x)) /\ UNCHANGED <<status, tasks, faults>>
    BY <1>2 DEF Shutdown, ShutdownRequest, tableVars, Owned, rowVars
  <2> QED
    BY <1>1, <2>1, StaysLive DEF Up
<1>3. CASE Drain
  <2>1. IsFiniteSet(QueuedJobIds)
    BY QueuedFinite DEF GenInv, QueueInv, TypeOK
  <2>2. worker' = "none" /\ tasks' = tasks \ QueuedJobIds /\ (Owned(x)' <=> Owned(x) /\ x \notin QueuedJobIds)
    BY <1>3 DEF Drain, ShutdownDrain, Release, Owned
  <2>3. faults' = 0 => faults = 0
    BY <1>1, <1>3, <2>1, ForcedAll DEF Drain
  <2> QED
    BY <1>1, <2>2, <2>3 DEF Live, Up
<1>4. CASE Crash
  BY <1>4 DEF Crash, QueueCrash, Live, Up
<1>5. CASE Startup
  <2>1. tasks' = {} /\ status'[x] \notin Active
    BY <1>5 DEF Startup, Written, ActiveAmong
  <2> QED
    BY <2>1 DEF Live
<1> QED
  BY <1>2, <1>3, <1>4, <1>5

(* What a client polls is true unless a database write failed: an active    *)
(* row has a job, and what the panel shows is owned by one, through every   *)
(* refusal, cancel, drop, drain, crash and startup.                         *)
THEOREM LiveWorkAlwaysShown == Spec => []LiveWorkIsShown
<1>1. Init => LiveInv
  BY MaxFaultsAssumption DEF Init, QueueInit, LiveInv, LooseTypes, Live
<1>2. GenInv /\ LiveInv /\ [Next]_vars => LiveInv'
  <2> SUFFICES ASSUME GenInv, LiveInv, [Next]_vars PROVE LiveInv'
    OBVIOUS
  <2>1. CASE UNCHANGED vars
    BY <2>1 DEF vars, queueVars, tableVars, workerVars, childVars, rowVars, LiveInv, LooseTypes, Live, Up, Owned
  <2>2. CASE Next
    <3>1. LooseTypes'
      BY <2>2, RequestTypes, JobTypes, ProcessTypes DEF Next, LiveInv
    <3>2. \A x \in Ids : Live(x)'
      BY <2>2, LiveRequests, LiveJobs, LiveProcess DEF Next
    <3> QED
      BY <3>1, <3>2 DEF LiveInv
  <2> QED
    BY <2>1, <2>2
<1>3. LiveInv => LiveWorkIsShown
  BY DEF LiveInv, LooseTypes, Live, LiveWorkIsShown, NoPhantom, PanelShowsLiveWork, Orphan
<1> QED
  BY <1>1, <1>2, <1>3, GenInvariant, PTL DEF Spec
=============================================================================
