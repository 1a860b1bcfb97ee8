------------------------------ MODULE TaskQueue ------------------------------
(***************************************************************************)
(* The serial generation queue, backend/services/task_queue.py: a bounded  *)
(* asyncio.Queue, one worker task that runs one inference task at a time,  *)
(* and the four module-level tables that say which caller ID is queued,    *)
(* running, cancelled, and owned by which job.                             *)
(*                                                                         *)
(* Everything runs on one event loop, so the unit of atomicity is the code *)
(* between two suspension points.  The worker suspends in queue.get() and  *)
(* in `await task`; the functions called by request handlers (enqueue,     *)
(* cancel) never suspend.  The worker's chain of several dropped jobs is   *)
(* split into one step per job: the model allows more interleavings than   *)
(* the loop, never fewer.                                                  *)
(*                                                                         *)
(* A job is the set of generation IDs it owns: the code's tuple is checked *)
(* to be non-empty and without duplicates, and the queue itself never uses *)
(* its order.                                                              *)
(***************************************************************************)
EXTENDS Naturals, Sequences

CONSTANTS
  Ids,          \* caller IDs: generation rows and foreground requests
  Jobs,         \* the ID sets that callers may submit as one job
  MaxQueued     \* VOICEBOX_MAX_QUEUED_GENERATIONS

ASSUME JobsAssumption == Jobs \subseteq (SUBSET Ids) \ {{}}
ASSUME MaxQueuedAssumption == MaxQueued \in 1..1024

VARIABLES
  accepting,    \* _accepting_background_tasks
  queue,        \* _generation_queue: jobs in submission order
  queued,       \* _queued_generation_ids
  running,      \* the keys of _running_generation_tasks (one task, below)
  cancelled,    \* _cancelled_generation_ids
  jobOf,        \* _generation_job_ids; {} where the dictionary has no entry
  worker,       \* where _generation_worker_task is suspended
  cancelling,   \* the worker's Task.cancelling() > 0
  pending,      \* a CancelledError will be thrown at the worker's next resume
  job,          \* the worker's local `job`, {} outside the loop body
  child,        \* the inference task created for `job`
  childCancel   \* that task was cancelled while it was alive

workerVars == <<worker, cancelling, pending>>
tableVars == <<queued, running, cancelled, jobOf>>
childVars == <<job, child, childCancel>>
queueVars == <<accepting, queue, tableVars, workerVars, childVars>>

LiveChild == {"fresh", "running"}                 \* created, not finished
DoneChild == {"returned", "raised", "cancelled"}  \* result not yet awaited

TypeOK ==
  /\ accepting \in BOOLEAN
  /\ queue \in Seq(Jobs) /\ Len(queue) <= MaxQueued
  /\ queued \in SUBSET Ids
  /\ running \in SUBSET Ids
  /\ cancelled \in SUBSET Ids
  /\ jobOf \in [Ids -> Jobs \cup {{}}]
  /\ worker \in {"none", "idle", "awaiting", "exited"}
  /\ cancelling \in BOOLEAN
  /\ pending \in BOOLEAN
  /\ job \in Jobs \cup {{}}
  /\ child \in {"none"} \cup LiveChild \cup DoneChild
  /\ childCancel \in BOOLEAN

-----------------------------------------------------------------------------
(* init_queue: fresh tables, an empty queue and a new worker.  The process *)
(* starts in this state: no request is served before startup has run it.   *)

QueueInit ==
  /\ accepting = TRUE
  /\ queue = <<>>
  /\ queued = {} /\ running = {} /\ cancelled = {}
  /\ jobOf = [i \in Ids |-> {}]
  /\ worker = "idle" /\ cancelling = FALSE /\ pending = FALSE
  /\ job = {} /\ child = "none" /\ childCancel = FALSE

InitQueue ==
  /\ worker = "none"
  /\ accepting' = TRUE
  /\ queue' = <<>>
  /\ queued' = {} /\ running' = {} /\ cancelled' = {}
  /\ jobOf' = [i \in Ids |-> {}]
  /\ worker' = "idle" /\ cancelling' = FALSE /\ pending' = FALSE
  /\ job' = {} /\ child' = "none" /\ childCancel' = FALSE

(* The process is killed: nothing of the queue survives. *)
QueueCrash ==
  /\ worker # "none"
  /\ accepting' = FALSE
  /\ queue' = <<>>
  /\ queued' = {} /\ running' = {} /\ cancelled' = {}
  /\ jobOf' = [i \in Ids |-> {}]
  /\ worker' = "none" /\ cancelling' = FALSE /\ pending' = FALSE
  /\ job' = {} /\ child' = "none" /\ childCancel' = FALSE

-----------------------------------------------------------------------------
(* Called by request handlers. *)

(* generation_job_is_active *)
Owned(i) == jobOf[i] # {}

(* generation_job_ids *)
JobIds(i) == IF Owned(i) THEN jobOf[i] ELSE {i}

(* Faulty variant: the running table forgotten.                            *)
CanEnqueueBehindRunning(ids) ==
  accepting /\ ids \cap queued = {} /\ Len(queue) < MaxQueued

(* The checks of enqueue_generation_batch; a refusal leaves no trace. *)
CanEnqueue(ids) ==
  /\ accepting
  /\ ids \cap (queued \cup running) = {}
  /\ Len(queue) < MaxQueued

Enqueue(ids) ==
  /\ CanEnqueue(ids)
  /\ queue' = Append(queue, ids)
  /\ queued' = queued \cup ids
  /\ jobOf' = [i \in Ids |-> IF i \in ids THEN ids ELSE jobOf[i]]
  /\ UNCHANGED <<accepting, running, cancelled, workerVars, childVars>>

(* cancel_generation: `None`, "running" or "queued". *)
CancelUntracked(i) == i \in cancelled \/ i \notin running \cup queued

(* Faulty variants: freeing the IDs of a cancelled waiting job at once;    *)
(* freeing the one cancelled ID only.                                      *)
CancelQueuedFreesJob(i) ==
  /\ i \notin cancelled /\ i \notin running /\ i \in queued
  /\ cancelled' = cancelled \cup JobIds(i)
  /\ queued' = queued \ JobIds(i)
  /\ UNCHANGED <<accepting, queue, running, jobOf, workerVars, childVars>>
CancelQueuedFreesOne(i) ==
  /\ i \notin cancelled /\ i \notin running /\ i \in queued
  /\ cancelled' = cancelled \cup JobIds(i)
  /\ jobOf' = [jobOf EXCEPT ![i] = {}]
  /\ UNCHANGED <<accepting, queue, queued, running, workerVars, childVars>>

CancelRunning(i) ==
  /\ i \notin cancelled /\ i \in running
  /\ cancelled' = cancelled \cup JobIds(i)
  /\ childCancel' = (child \in LiveChild)   \* a finished task ignores cancel()
  /\ UNCHANGED <<accepting, queue, queued, running, jobOf, workerVars, job, child>>

CancelQueued(i) ==
  /\ i \notin cancelled /\ i \notin running /\ i \in queued
  /\ cancelled' = cancelled \cup JobIds(i)
  /\ UNCHANGED <<accepting, queue, queued, running, jobOf, workerVars, childVars>>

-----------------------------------------------------------------------------
(* The worker.  Its `finally` block gives every table entry of a job back. *)

Release(ids) ==
  /\ running' = running \ ids
  /\ queued' = queued \ ids
  /\ jobOf' = [i \in Ids |-> IF i \in ids THEN {} ELSE jobOf[i]]
  /\ cancelled' = cancelled \ ids

Listening == worker = "idle" /\ ~pending /\ queue # <<>>

(* Faulty variant: a dropped job skips the `finally`.                      *)
WorkerSkipNoFinally ==
  /\ Listening
  /\ Head(queue) \cap cancelled # {}
  /\ queue' = Tail(queue)
  /\ cancelled' = cancelled \ Head(queue)
  /\ UNCHANGED <<accepting, queued, running, jobOf, workerVars, childVars>>

(* A live job: create its task and move its IDs from queued to running. *)
WorkerTake ==
  /\ Listening
  /\ Head(queue) \cap cancelled = {}
  /\ queue' = Tail(queue)
  /\ job' = Head(queue) /\ child' = "fresh" /\ childCancel' = FALSE
  /\ running' = running \cup Head(queue)
  /\ queued' = queued \ Head(queue)
  /\ worker' = "awaiting"
  /\ UNCHANGED <<accepting, cancelled, jobOf, cancelling, pending>>

(* A job with a cancelled ID is closed without being started. *)
WorkerSkip ==
  /\ Listening
  /\ Head(queue) \cap cancelled # {}
  /\ queue' = Tail(queue)
  /\ Release(Head(queue))
  /\ UNCHANGED <<accepting, workerVars, childVars>>

(* The child is done.  A worker that has been cancelled leaves its loop if *)
(* the CancelledError is thrown at the await, or if the child returned or  *)
(* was cancelled; an exception of the child is caught like any other and   *)
(* the loop goes on.                                                       *)
WorkerLeaves == pending \/ (cancelling /\ child # "raised")

WorkerFinish ==
  /\ worker = "awaiting" /\ child \in DoneChild
  /\ Release(job)
  /\ worker' = IF WorkerLeaves THEN "exited" ELSE "idle"
  /\ job' = {} /\ child' = "none" /\ childCancel' = FALSE
  /\ UNCHANGED <<accepting, queue, cancelling, pending>>

(* The CancelledError thrown into queue.get(). *)
WorkerStop ==
  /\ worker = "idle" /\ pending
  /\ worker' = "exited"
  /\ UNCHANGED <<accepting, queue, tableVars, cancelling, pending, childVars>>

-----------------------------------------------------------------------------
(* The child task, whatever coroutine the job carries. *)

ChildStart ==
  /\ child = "fresh" /\ ~childCancel
  /\ child' = "running"
  /\ UNCHANGED <<accepting, queue, tableVars, workerVars, job, childCancel>>

(* Cancelled before its first instruction: none of its handlers run. *)
ChildNeverStarts ==
  /\ child = "fresh" /\ childCancel
  /\ child' = "cancelled"
  /\ UNCHANGED <<accepting, queue, tableVars, workerVars, job, childCancel>>

(* It returns, raises, or lets its CancelledError through.  A coroutine    *)
(* that drains blocking work and handles its cancellation returns.         *)
ChildEnd(how) ==
  /\ child = "running"
  /\ how = "cancelled" => childCancel
  /\ child' = how
  /\ UNCHANGED <<accepting, queue, tableVars, workerVars, job, childCancel>>

-----------------------------------------------------------------------------
(* shutdown_background_tasks *)

(* Stop accepting and cancel the worker.  Cancelling a task that awaits an *)
(* unfinished child cancels that child instead of throwing at the await.   *)
ShutdownRequest ==
  /\ accepting
  /\ accepting' = FALSE
  /\ cancelling' = TRUE
  /\ pending' = (worker = "idle" \/ child \in DoneChild)
  /\ childCancel' = (child \in LiveChild)
  /\ UNCHANGED <<queue, tableVars, worker, job, child>>

(* After gather() has seen the worker end: drain what is still queued. *)
QueuedJobIds == UNION {queue[k] : k \in DOMAIN queue}

ShutdownDrain ==
  /\ ~accepting /\ worker = "exited"
  /\ queue' = <<>>
  /\ Release(QueuedJobIds)
  /\ worker' = "none" /\ cancelling' = FALSE /\ pending' = FALSE
  /\ UNCHANGED <<accepting, childVars>>

-----------------------------------------------------------------------------
QueueNext ==
  \/ \E ids \in Jobs : Enqueue(ids)
  \/ \E i \in Ids : CancelRunning(i) \/ CancelQueued(i)
  \/ WorkerTake \/ WorkerSkip \/ WorkerFinish \/ WorkerStop
  \/ ChildStart \/ ChildNeverStarts
  \/ \E how \in DoneChild : ChildEnd(how)
  \/ ShutdownRequest \/ ShutdownDrain
  \/ QueueCrash \/ InitQueue

QueueSpec == QueueInit /\ [][QueueNext]_queueVars

(* The event loop runs every ready callback, and inference ends. *)
Worker == WorkerTake \/ WorkerSkip \/ WorkerFinish \/ WorkerStop
Child == ChildStart \/ ChildNeverStarts \/ \E how \in DoneChild : ChildEnd(how)

QueueFairness ==
  /\ WF_queueVars(Worker)
  /\ WF_queueVars(Child)
  /\ WF_queueVars(ShutdownDrain)

FairQueueSpec == QueueSpec /\ QueueFairness
-----------------------------------------------------------------------------
(* Properties. *)

(* No ID is ever owned by two jobs, waiting or executing: enqueueing checks *)
(* two tables that the worker, cancellation and shutdown all edit, and a    *)
(* cancelled ID has to stay reserved until its job has left.                *)
SingleOwner ==
  /\ \A k, l \in DOMAIN queue : k # l => queue[k] \cap queue[l] = {}
  /\ \A k \in DOMAIN queue : queue[k] \cap job = {}

(* The four tables say exactly what the queue and the worker hold: an ID is *)
(* queued iff its job waits, running iff its job executes, and its recorded *)
(* siblings are the IDs of that very job.                                   *)
TablesExact ==
  /\ queued = QueuedJobIds
  /\ running = job
  /\ \A k \in DOMAIN queue : \A i \in queue[k] : jobOf[i] = queue[k]
  /\ \A i \in job : jobOf[i] = job
  /\ \A i \in Ids : Owned(i) => i \in queued \cup running

(* Cancelling one member cancels the whole job, and no mark outlives its    *)
(* job: a later job that reuses the ID does not start out cancelled.        *)
CancelWhole == \A i \in cancelled : Owned(i) /\ jobOf[i] \subseteq cancelled

(* A cancel of the executing job reaches its task: no table says cancelled  *)
(* while the inference goes on undisturbed.                                 *)
CancelReachesChild == job \cap cancelled # {} /\ child \in LiveChild => childCancel

(* Who owns which ID is one answer, whichever table is asked: no ID has two *)
(* jobs, the tables say what the queue and the worker hold, a cancel covers *)
(* all siblings and reaches the task, and no mark outlives its job.         *)
OwnershipIsExact == SingleOwner /\ TablesExact /\ CancelWhole /\ CancelReachesChild

(* The worker holds a job exactly while it awaits that job's task, it ends  *)
(* only once shutdown has begun, and once the queue is down nothing is      *)
(* owned by it any more.                                                    *)
WorkerHoldsJob ==
  /\ (job # {}) <=> (worker = "awaiting")
  /\ (child # "none") <=> (worker = "awaiting")
  /\ accepting => worker \in {"idle", "awaiting"} /\ ~cancelling
  /\ pending => cancelling
NothingOwnedWhenDown ==
  worker = "none" => queue = <<>> /\ job = {} /\ \A i \in Ids : ~Owned(i)

(* An accepted cancel of a waiting job wins: the job is never started. *)
CancelledNeverStarts ==
  [][job' # job => job' \cap cancelled = {}]_queueVars

(* The IDs of a job become free in one step, never one by one. *)
ReleasedTogether ==
  [][\A i \in Ids : Owned(i) /\ ~Owned(i)' => \A j \in jobOf[i] : ~Owned(j)']_queueVars

(* A job is one thing: cancelled before its start it is never started, for  *)
(* whichever member was cancelled, and its IDs become free together.        *)
JobsAreUnits == CancelledNeverStarts /\ ReleasedTogether

(* Every job that is accepted leaves, whatever happens to it. *)
EveryJobLeaves == \A i \in Ids : Owned(i) ~> ~Owned(i)

(* A worker that shutdown has cancelled, and whose cancellation no child    *)
(* exception has hidden yet, ends and is drained, unless such an exception  *)
(* comes now.                                                               *)
ShutdownEndsUnlessChildRaises ==
  cancelling /\ (pending \/ worker # "idle") ~> worker = "none" \/ child = "raised"

(* Nothing is stuck: jobs leave, and so does the worker at shutdown, unless *)
(* the exception of a child hides its cancellation.                         *)
QueueDrains == EveryJobLeaves /\ ShutdownEndsUnlessChildRaises

(* "... must still terminate the worker instead of looping back to         *)
(* queue.get() and hanging application shutdown" (task_queue.py:111-112):  *)
(* a shutdown that starts ends.                                            *)
ShutdownEnds == cancelling ~> worker = "none"

(* The queue implements a serial executor that knows whole jobs only.      *)
Executor == INSTANCE SerialExecutor WITH
  open <- accepting,
  waiting <- [k \in DOMAIN queue |->
                [ids |-> queue[k], dropped |-> queue[k] \cap cancelled # {}]],
  executing <- job
ImplementsSerialExecutor == Executor!Spec
=============================================================================
