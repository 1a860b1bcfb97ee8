------------------------- MODULE ForegroundGeneration -------------------------
(***************************************************************************)
(* Requests that wait for their audio, run_queued_generation of            *)
(* backend/services/task_queue.py as the streaming handlers of             *)
(* backend/routes/generations.py use it.  The caller awaits a future; the  *)
(* queue runs a wrapper that awaits the inference coroutine and settles    *)
(* the future.  A cancelled caller leaves at once, the work drains later,  *)
(* and a file that was made has to reach exactly one of them.              *)
(*                                                                         *)
(* An ID is the UUID of one request, and its slot is used again for a      *)
(* later request once nothing remembers it.                                *)
(***************************************************************************)
EXTENDS TaskQueue

ASSUME SingleJobsAssumption == Jobs = {{i} : i \in Ids}

VARIABLES
  caller,       \* the request: waiting, or how it ended
  future,       \* `result`; "interrupted" holds a CancelledError
  coro,         \* the inference coroutine: not begun, running, over, closed
  file          \* the file it made: in the future, in a response, deleted

requestVars == <<caller, future, coro, file>>
vars == <<queueVars, requestVars>>

Gone == {"returned", "raised", "cancelled"}

RequestsTypeOK ==
  /\ caller \in [Ids -> {"none", "waiting"} \cup Gone]
  /\ future \in [Ids -> {"none", "pending", "value", "error", "interrupted", "cancelled"}]
  /\ coro \in [Ids -> {"none", "open", "running", "over", "closed"}]
  /\ file \in [Ids -> {"none", "held", "handed", "deleted"}]
  /\ \A i \in Ids : future[i] = "none" => caller[i] # "waiting" /\ file[i] = "none"

Init ==
  /\ QueueInit
  /\ caller = [i \in Ids |-> "none"]
  /\ future = [i \in Ids |-> "none"]
  /\ coro = [i \in Ids |-> "none"]
  /\ file = [i \in Ids |-> "none"]

-----------------------------------------------------------------------------
(* The caller. *)

(* The job is queued and its future awaited, or refused and closed. *)
Call(i) ==
  /\ caller[i] = "none"
  /\ \/ /\ Enqueue({i})
        /\ caller' = [caller EXCEPT ![i] = "waiting"]
        /\ future' = [future EXCEPT ![i] = "pending"]
        /\ coro' = [coro EXCEPT ![i] = "open"]
     \/ /\ ~CanEnqueue({i})
        /\ caller' = [caller EXCEPT ![i] = "raised"]
        /\ coro' = [coro EXCEPT ![i] = "closed"]
        /\ UNCHANGED <<future, queueVars>>
  /\ UNCHANGED file

(* The await of the future returns or raises what the job left in it. *)
Deliver(i) ==
  /\ caller[i] = "waiting"
  /\ \/ /\ future[i] = "value"
        /\ caller' = [caller EXCEPT ![i] = "returned"]
        /\ file' = [file EXCEPT ![i] = IF @ = "held" THEN "handed" ELSE @]
     \/ /\ future[i] = "error"
        /\ caller' = [caller EXCEPT ![i] = "raised"]
        /\ UNCHANGED file
  /\ UNCHANGED <<future, coro, queueVars>>

(* cancel_generation *)
CancelJob(i) ==
  \/ CancelRunning(i) \/ CancelQueued(i)
  \/ CancelUntracked(i) /\ UNCHANGED queueVars

(* A CancelledError at that await, whatever the future says by now: the    *)
(* client has gone, or the future was cancelled or interrupted itself.     *)
Leave(i) ==
  /\ caller[i] = "waiting"
  /\ caller' = [caller EXCEPT ![i] = "cancelled"]
  /\ future' = [future EXCEPT ![i] = IF @ = "pending" THEN "cancelled" ELSE @]
  /\ file' = [file EXCEPT ![i] = IF @ = "held" THEN "deleted" ELSE @]
  /\ CancelJob(i)
  /\ UNCHANGED coro

(* The response has been sent, and the slot is free. *)
Forget(i) ==
  /\ caller[i] \in Gone /\ ~Owned(i)
  /\ caller' = [caller EXCEPT ![i] = "none"]
  /\ future' = [future EXCEPT ![i] = "none"]
  /\ coro' = [coro EXCEPT ![i] = "none"]
  /\ file' = [file EXCEPT ![i] = "none"]
  /\ UNCHANGED queueVars

-----------------------------------------------------------------------------
(* The wrapper, queued_work.  It swallows every Exception. *)

Begin ==
  /\ ChildStart
  /\ coro' = [i \in Ids |-> IF i \in job THEN "running" ELSE coro[i]]
  /\ UNCHANGED <<caller, future, file>>

(* The coroutine that was queued ends: it has made a file or raised.       *)
RunsOut(i) == i \in job /\ coro' = [coro EXCEPT ![i] = "over"]

(* Faulty variant: a value that nobody waits for is dropped.               *)
MadeDropped(i) ==
  /\ RunsOut(i) /\ ChildEnd("returned")
  /\ future' = [future EXCEPT ![i] = IF @ = "pending" THEN "value" ELSE @]
  /\ file' = [file EXCEPT ![i] = "held"]
  /\ UNCHANGED caller

(* A file was made: for the future, or to be discarded. *)
Made(i) ==
  /\ RunsOut(i) /\ ChildEnd("returned")
  /\ IF future[i] = "pending"
       THEN future' = [future EXCEPT ![i] = "value"] /\ file' = [file EXCEPT ![i] = "held"]
       ELSE file' = [file EXCEPT ![i] = "deleted"] /\ UNCHANGED future
  /\ UNCHANGED caller

Failed(i) ==
  /\ RunsOut(i) /\ ChildEnd("returned")
  /\ future' = [future EXCEPT ![i] = IF @ = "pending" THEN "error" ELSE @]
  /\ UNCHANGED <<caller, file>>

(* The cancellation comes out of the drained coroutine. *)
Interrupted(i) ==
  /\ RunsOut(i) /\ ChildEnd("cancelled")
  /\ future' = [future EXCEPT ![i] = IF @ = "pending" THEN "interrupted" ELSE @]
  /\ UNCHANGED <<caller, file>>

NeverStarts == ChildNeverStarts /\ UNCHANGED requestVars

-----------------------------------------------------------------------------
(* The queue gives a job back: GenerationJob.close and its on_close        *)
(* callback, close_foreground_work.                                        *)

(* Faulty variant: only the coroutine is closed.                           *)
CloseCoroutine(ids) ==
  /\ coro' = [i \in Ids |-> IF i \in ids /\ coro[i] = "open" THEN "closed" ELSE coro[i]]
  /\ UNCHANGED <<future, caller, file>>

Close(ids) ==
  /\ coro' = [i \in Ids |-> IF i \in ids /\ coro[i] = "open" THEN "closed" ELSE coro[i]]
  /\ future' = [i \in Ids |-> IF i \in ids /\ future[i] = "pending" THEN "cancelled" ELSE future[i]]
  /\ UNCHANGED <<caller, file>>

Take == WorkerTake /\ UNCHANGED requestVars
Drop == WorkerSkip /\ Close(Head(queue))
Finish == WorkerFinish /\ Close(job)
Stop == WorkerStop /\ UNCHANGED requestVars
Shutdown == ShutdownRequest /\ UNCHANGED requestVars
Drain == ShutdownDrain /\ Close(QueuedJobIds)

-----------------------------------------------------------------------------
WorkerSteps == Take \/ Drop \/ Finish \/ Stop

Wrapper ==
  \/ Begin \/ NeverStarts
  \/ \E i \in Ids : Made(i) \/ Failed(i) \/ Interrupted(i)

Next ==
  \/ \E i \in Ids : Call(i) \/ Deliver(i) \/ Leave(i) \/ Forget(i)
  \/ WorkerSteps \/ Wrapper
  \/ Shutdown \/ Drain

Spec == Init /\ [][Next]_vars

(* The loop runs every ready callback, and inference, or its draining,     *)
(* ends.  No client is ever assumed to leave by itself.                    *)
Wakes(i) == Deliver(i) \/ (future[i] \in {"interrupted", "cancelled"} /\ Leave(i))

RequestFairness ==
  /\ WF_vars(WorkerSteps) /\ WF_vars(Wrapper) /\ WF_vars(Drain)
  /\ \A i \in Ids : WF_vars(Wakes(i))

FairSpec == Spec /\ RequestFairness

-----------------------------------------------------------------------------
(* Properties. *)

(* A file that was made and not handed over is in a future that a caller   *)
(* still waits for: neither a client that leaves while the file is being   *)
(* made, nor one that leaves after it was made, makes anybody forget it.   *)
NoLeakedFile == \A i \in Ids :
  file[i] = "held" => caller[i] = "waiting" /\ future[i] = "value"

(* Who returned has a file that nobody else deletes. *)
ReturnedHasFile == \A i \in Ids : caller[i] = "returned" <=> file[i] = "handed"

(* Once the queue has let go of a request, its coroutine is over or closed *)
(* and its future is settled, also when the job never began, was refused,  *)
(* or was drained by shutdown.                                             *)
NothingAbandoned == \A i \in Ids :
  caller[i] # "none" /\ ~Owned(i) => coro[i] \in {"over", "closed"} /\ future[i] # "pending"

(* The accelerator does not work for a caller that has left. *)
NoWorkForNobody == \A i \in Ids :
  caller[i] \in Gone /\ Owned(i) => i \in cancelled \/ (i \in job /\ child \in DoneChild)

(* Request, job and file settle together, at whatever step the client       *)
(* leaves, the job is refused or dropped, or the server shuts down.         *)
RequestsAreSettled == NoLeakedFile /\ ReturnedHasFile /\ NothingAbandoned /\ NoWorkForNobody

(* A waiting caller gets an answer, although it may be cancelled before    *)
(* its job's first instruction, dropped from the queue or shut down.       *)
CallerIsAnswered == \A i \in Ids : caller[i] = "waiting" ~> caller[i] \in Gone
=============================================================================
