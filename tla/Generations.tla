----------------------------- MODULE Generations -----------------------------
(***************************************************************************)
(* The life of a generation: its database row, its entry in the task       *)
(* panel, and the inference job that owns it.  Composes TaskQueue with the *)
(* handlers of backend/routes/generations.py and history.py, the coroutine *)
(* of backend/services/generation.py, and startup and crash.               *)
(*                                                                         *)
(* Handlers are one step each: between their first read of the row and     *)
(* their enqueue or cancel they await only coroutines that never suspend.  *)
(*                                                                         *)
(* The database is SQLite: a status write can be LOST (the commit raises   *)
(* and nothing changes) or UNSURE (the commit raises but is durable and    *)
(* the fresh session that should prove it fails too).  `faults` counts     *)
(* such events, up to MaxFaults.                                           *)
(***************************************************************************)
EXTENDS TaskQueue, FiniteSets

CONSTANTS
  PlainIds,     \* rows of /generate: server-made UUIDs, may be replayed
  Envelopes,    \* exact requests: the caller-made UUIDs of one or two units
  MaxFaults     \* bound on failing database writes

ExactIds == UNION Envelopes

ASSUME EnvelopesAssumption ==
  /\ \A e \in Envelopes : IsFiniteSet(e) /\ Cardinality(e) \in 1..2
  /\ \A e, f \in Envelopes : e # f => e \cap f = {}
  /\ PlainIds \cap ExactIds = {}
ASSUME IdsAssumption ==
  /\ Ids = PlainIds \cup ExactIds
  /\ Jobs = {{i} : i \in PlainIds} \cup Envelopes
ASSUME MaxFaultsAssumption == MaxFaults \in Nat

VARIABLES
  status,       \* DBGeneration.status, "absent" when there is no row
  tasks,        \* TaskManager._active_generations
  stage,        \* where the running coroutine is: model load or inference
  saved,        \* the units of the running job completed so far
  faults        \* failed database writes so far

rowVars == <<status, tasks, stage, saved, faults>>
vars == <<queueVars, rowVars>>

Active == {"loading_model", "generating"}
Terminal == {"completed", "failed"}

GenTypeOK ==
  /\ TypeOK
  /\ status \in [Ids -> {"absent"} \cup Active \cup Terminal]
  /\ tasks \in SUBSET Ids
  /\ stage \in {"load", "infer"}
  /\ saved \in SUBSET job
  /\ faults \in 0..MaxFaults

Init ==
  /\ QueueInit
  /\ status = [i \in Ids |-> "absent"]
  /\ tasks = {}
  /\ stage = "load" /\ saved = {}
  /\ faults = 0

Up == worker # "none"     \* requests are served

Fault(n) == faults + n <= MaxFaults /\ faults' = faults + n
NoFault == UNCHANGED faults

(* status after writing `s` to the rows of `ids` that exist *)
Written(ids, s) ==
  [i \in Ids |-> IF i \in ids /\ status[i] # "absent" THEN s ELSE status[i]]

ActiveAmong(ids) == {i \in ids : status[i] \in Active}

(* A handler's loop over rows: take each out of the panel, then write      *)
(* "failed".  A write that raises ends the loop, its own row lost or not.  *)
FailInTurn(ids, rows, panel) ==
  \E tried \in SUBSET ids : \E done \in SUBSET tried :
    /\ status' = [i \in Ids |-> IF i \in done /\ rows[i] # "absent" THEN "failed" ELSE rows[i]]
    /\ tasks' = panel \ tried
    /\ \/ done = ids /\ NoFault
       \/ tried # {} /\ Cardinality(tried \ done) <= 1 /\ Fault(1)

-----------------------------------------------------------------------------
(* Submitting one row: /generate creates it, retry and regenerate reuse    *)
(* it.  A refused job restores the row's former terminal state.            *)

(* Faulty variant: a refused job is left in the panel. *)
SubmitForgetsPanel(i, restore) ==
  /\ Up
  /\ \/ /\ Enqueue({i})
        /\ status' = [status EXCEPT ![i] = "generating"]
        /\ tasks' = tasks \cup {i}
        /\ NoFault
     \/ /\ ~CanEnqueue({i})
        /\ status' = [status EXCEPT ![i] = restore] /\ NoFault
        /\ tasks' = tasks \cup {i}
        /\ UNCHANGED queueVars
  /\ UNCHANGED <<stage, saved>>

Submit(i, restore) ==
  /\ Up
  /\ \/ /\ Enqueue({i})
        /\ status' = [status EXCEPT ![i] = "generating"]
        /\ tasks' = tasks \cup {i}
        /\ NoFault
     \/ /\ ~CanEnqueue({i})
        /\ \/ status' = [status EXCEPT ![i] = restore] /\ NoFault
           \/ status' = [status EXCEPT ![i] = "generating"] /\ Fault(1)
        /\ tasks' = tasks \ {i}
        /\ UNCHANGED queueVars
     \/ (* unsure: the handler gives up before the queue is asked *)
        /\ status' = [status EXCEPT ![i] = "generating"] /\ Fault(1)
        /\ UNCHANGED <<tasks, queueVars>>
  /\ UNCHANGED <<stage, saved>>

Generate(i) == i \in PlainIds /\ status[i] = "absent" /\ Submit(i, "failed")

Retry(i) ==
  i \in PlainIds /\ status[i] = "failed" /\ ~Owned(i) /\ Submit(i, "failed")

Regenerate(i) ==
  i \in PlainIds /\ status[i] = "completed" /\ ~Owned(i) /\ Submit(i, "completed")

-----------------------------------------------------------------------------
(* Submitting an exact envelope, idempotent in its caller IDs. *)

(* _matching_existing_batch: no row, or all of them under the same hashes;  *)
(* any other reuse of the IDs is refused and changes nothing.               *)
Unknown(e) == \A i \in e : status[i] = "absent"
Known(e) == \A i \in e : status[i] # "absent"

ExactAccept(e) ==
  /\ Unknown(e)
  /\ Enqueue(e)
  /\ status' = [i \in Ids |-> IF i \in e THEN "generating" ELSE status[i]]
  /\ tasks' = tasks \cup e
  /\ NoFault

(* The queue refuses: the rows are failed one after the other. *)
ExactRefused(e) ==
  /\ Unknown(e)
  /\ ~CanEnqueue(e)
  /\ FailInTurn(e, [i \in Ids |-> IF i \in e THEN "generating" ELSE status[i]], tasks \cup e)
  /\ UNCHANGED queueVars

(* The commit that creates the rows is unsure: the handler forces the      *)
(* durable rows terminal, unless that fails as well.                       *)
ExactUnsure(e) ==
  /\ Unknown(e)
  /\ \E s \in {"failed", "generating"} :
       /\ status' = [i \in Ids |-> IF i \in e THEN s ELSE status[i]]
       /\ Fault(IF s = "failed" THEN 1 ELSE 2)
  /\ UNCHANGED <<tasks, queueVars>>

(* Faulty variant: nobody asks whether a job owns the rows. *)
ExactRepeatBlindly(e) ==
  /\ Known(e)
  /\ ActiveAmong(e) # {}
  /\ status' = Written(ActiveAmong(e), "failed")
  /\ tasks' = tasks \ ActiveAmong(e)
  /\ NoFault
  /\ UNCHANGED queueVars

(* The same envelope again: rows that no job owns are made terminal. *)
ExactRepeat(e) ==
  /\ Known(e)
  /\ ActiveAmong(e) # {} /\ \A i \in e : ~Owned(i)
  /\ status' = Written(ActiveAmong(e), "failed")
  /\ \/ tasks' = tasks \ ActiveAmong(e) /\ NoFault
     \/ UNCHANGED tasks /\ Fault(1)   \* unsure: durable, but the handler raises
  /\ UNCHANGED queueVars

SubmitExact(e) ==
  /\ Up
  /\ ExactAccept(e) \/ ExactRefused(e) \/ ExactUnsure(e) \/ ExactRepeat(e)
  /\ UNCHANGED <<stage, saved>>

-----------------------------------------------------------------------------
(* The cancel route: what it does depends on what the queue answers. *)

CancelExecuting(i) ==
  CancelRunning(i) /\ UNCHANGED rowVars

(* The rows of the waiting job are failed here; what a raising write       *)
(* leaves is failed by the worker, which drops the job.                    *)
CancelWaiting(i) ==
  /\ CancelQueued(i)
  /\ FailInTurn(JobIds(i), status, tasks)
  /\ UNCHANGED <<stage, saved>>

ClearOrphan(i) ==
  /\ CancelUntracked(i)
  /\ tasks' = tasks \ {i}
  /\ \/ status' = Written({i}, "failed") /\ NoFault
     \/ UNCHANGED status /\ Fault(1)
  /\ UNCHANGED <<stage, saved, queueVars>>

CancelRoute(i) ==
  /\ Up /\ status[i] \in Active
  /\ CancelExecuting(i) \/ CancelWaiting(i) \/ ClearOrphan(i)

(* DELETE /history/{id}, and "Clear failed".  *)
DeleteRow(i) ==
  /\ Up /\ status[i] \in Terminal /\ ~Owned(i)
  /\ status' = [status EXCEPT ![i] = "absent"]
  /\ UNCHANGED <<tasks, stage, saved, faults, queueVars>>

DeleteFailed ==
  /\ Up
  /\ \E i \in Ids : status[i] = "failed" /\ ~Owned(i)
  /\ status' = [i \in Ids |-> IF status[i] = "failed" /\ ~Owned(i) THEN "absent" ELSE status[i]]
  /\ UNCHANGED <<tasks, stage, saved, faults, queueVars>>

-----------------------------------------------------------------------------
(* The worker, with the reconciliation of the rows it gives back: each     *)
(* attempt to force a row terminal may fail and is swallowed.              *)

ForceFail(ids, attempts) ==
  \E lost \in SUBSET ActiveAmong(ids) :
    /\ Fault(attempts * Cardinality(lost))
    /\ status' = Written(ActiveAmong(ids) \ lost, "failed")

Take ==
  /\ WorkerTake
  /\ stage' = "load" /\ saved' = {}
  /\ UNCHANGED <<status, tasks, faults>>

Drop ==
  /\ WorkerSkip
  /\ ForceFail(Head(queue), 2)
  /\ tasks' = tasks \ Head(queue)
  /\ UNCHANGED <<stage, saved>>

(* Faulty variant: no reconciliation of the rows that are given back. *)
FinishUnreconciled ==
  /\ WorkerFinish
  /\ tasks' = tasks \ job
  /\ stage' = "load" /\ saved' = {}
  /\ UNCHANGED <<status, faults>>

Finish ==
  /\ WorkerFinish
  /\ ForceFail(job, IF child = "raised" /\ ~pending THEN 2 ELSE 1)
  /\ tasks' = tasks \ job
  /\ stage' = "load" /\ saved' = {}

-----------------------------------------------------------------------------
(* The generation coroutine: run_generation for one row,                   *)
(* run_exact_generation_batch for two.                                     *)

Unsaved == job \ saved

(* Its except and finally blocks: fail what is not saved, leave the panel. *)
(* A write that raises ends the loop, and the coroutine with an exception. *)
Abort ==
  /\ tasks' = tasks \ job
  /\ \/ ChildEnd("returned") /\ status' = Written(Unsaved, "failed") /\ NoFault
     \/ /\ ChildEnd("raised")
        /\ \E done \in SUBSET Unsaved : status' = Written(done, "failed")
        /\ Fault(1)
  /\ UNCHANGED <<stage, saved>>

(* The first instructions: "loading_model" unless the model is resident. *)
Begin ==
  /\ ChildStart
  /\ \/ status' = Written(job, "loading_model")
     \/ UNCHANGED status
  /\ UNCHANGED <<tasks, stage, saved, faults>>

ModelLoaded ==
  /\ child = "running" /\ ~childCancel /\ stage = "load"
  /\ status' = Written(job, "generating")
  /\ stage' = "infer"
  /\ UNCHANGED <<tasks, saved, faults, queueVars>>

(* Faulty variant: the result of a cancelled, drained call is used. *)
SaveUnitAnyway(i) ==
  /\ child = "running" /\ stage = "infer"
  /\ i \in Unsaved
  /\ status' = Written({i}, "completed")
  /\ saved' = saved \cup {i}
  /\ IF Unsaved = {i}
       THEN ChildEnd("returned") /\ tasks' = tasks \ job
       ELSE UNCHANGED <<tasks, queueVars>>
  /\ UNCHANGED <<stage, faults>>

(* One unit is saved and completed; the last one ends the coroutine. *)
SaveUnit(i) ==
  /\ child = "running" /\ ~childCancel /\ stage = "infer"
  /\ i \in Unsaved
  /\ status' = Written({i}, "completed")
  /\ saved' = saved \cup {i}
  /\ IF Unsaved = {i}
       THEN ChildEnd("returned") /\ tasks' = tasks \ job
       ELSE UNCHANGED <<tasks, queueVars>>
  /\ UNCHANGED <<stage, faults>>

(* An unsure "completed", whose handler cannot write "failed" either. *)
SaveUnsure(i) ==
  /\ child = "running" /\ ~childCancel /\ stage = "infer"
  /\ i \in Unsaved
  /\ ChildEnd("raised")
  /\ status' = Written({i}, "completed")
  /\ tasks' = tasks \ job
  /\ Fault(2)
  /\ UNCHANGED <<stage, saved>>

(* Any operation of the coroutine can fail, database writes included... *)
Fail == ~childCancel /\ Abort

(* ... and a cancellation surfaces once the blocking work has drained. *)
Cancelled == childCancel /\ Abort

NeverStarts == ChildNeverStarts /\ UNCHANGED rowVars

Coroutine ==
  \/ Begin \/ ModelLoaded \/ Fail \/ Cancelled \/ NeverStarts
  \/ \E i \in Ids : SaveUnit(i) \/ SaveUnsure(i)

-----------------------------------------------------------------------------
(* Shutdown, crash and startup. *)

Shutdown == ShutdownRequest /\ UNCHANGED rowVars

Stop == WorkerStop /\ UNCHANGED rowVars

Drain ==
  /\ ShutdownDrain
  /\ ForceFail(QueuedJobIds, 1)
  /\ tasks' = tasks \ QueuedJobIds
  /\ UNCHANGED <<stage, saved>>

Crash ==
  /\ QueueCrash
  /\ tasks' = {} /\ stage' = "load" /\ saved' = {}
  /\ UNCHANGED <<status, faults>>

(* _reconcile_stale_generations precedes init_queue; if it fails, startup  *)
(* is refused.                                                             *)
Startup ==
  /\ InitQueue
  /\ status' = Written(ActiveAmong(Ids), "failed")
  /\ tasks' = {} /\ stage' = "load" /\ saved' = {}
  /\ UNCHANGED faults

-----------------------------------------------------------------------------
Requests ==
  \/ \E i \in Ids : \/ Generate(i) \/ Retry(i) \/ Regenerate(i)
                    \/ CancelRoute(i) \/ DeleteRow(i)
  \/ \E e \in Envelopes : SubmitExact(e)
  \/ DeleteFailed

WorkerSteps == Take \/ Drop \/ Finish \/ Stop

Next ==
  \/ Requests \/ WorkerSteps \/ Coroutine
  \/ Shutdown \/ Drain \/ Crash \/ Startup

Spec == Init /\ [][Next]_vars

(* The event loop runs every ready callback, and inference, or the         *)
(* draining of a cancelled one, ends.                                      *)
Fairness ==
  /\ WF_vars(WorkerSteps)
  /\ WF_vars(Coroutine)
  /\ WF_vars(Drain)

FairSpec == Spec /\ Fairness

-----------------------------------------------------------------------------
(* Properties. *)

Orphan(i) == status[i] \in Active /\ ~Owned(i)

(* A row that says loading or generating has a job that will end it: no    *)
(* phantom is left spinning while the server is up, unless a database      *)
(* write failed.                                                           *)
NoPhantom == Up /\ faults = 0 => \A i \in Ids : ~Orphan(i)

(* The row of a job is there, whoever deletes what meanwhile, so that the  *)
(* finished audio always has a row to be attached to.                      *)
RowOutlivesJob == \A i \in Ids : Owned(i) => status[i] # "absent"

(* What waits says so: an uncancelled waiting job has no terminal row that *)
(* a user could delete, retry or take for an answer, database faults or    *)
(* not.                                                                    *)
WaitingRowsActive == \A i \in queued \ cancelled : status[i] \in Active

(* The panel shows live work only. *)
PanelShowsLiveWork == faults = 0 => \A i \in tasks : Owned(i)

(* What a client polls is true, unless a database write failed: active rows *)
(* have a job and what the panel shows is owned by one.                     *)
LiveWorkIsShown == NoPhantom /\ PanelShowsLiveWork

(* Row and job agree while the job lives: the row is there, and active as   *)
(* long as the job waits and is not cancelled.                              *)
RowsFollowJobs == RowOutlivesJob /\ WaitingRowsActive

(* A unit completed in a batch stays completed when its sibling fails or is *)
(* cancelled, and no cancel, orphan clearing, forced failure, drain or      *)
(* startup takes a finished result back: only deletion or regeneration do.  *)
CompletedStays ==
  [][\A i \in Ids : status[i] = "completed" /\ status'[i] # "completed" =>
        \/ status'[i] = "absent" /\ ~Owned(i)
        \/ status'[i] = "generating" /\ ~Owned(i)]_vars

(* A cancel that was accepted is final: the row does not complete later. *)
CancelIsFinal ==
  [][\A i \in cancelled : status'[i] = "completed" => status[i] = "completed"]_vars

(* What was answered is not taken back: a completed row stays, and a cancel *)
(* that was accepted is never followed by a completion.                     *)
AnswersAreFinal == CompletedStays /\ CancelIsFinal

(* Every active row comes to its end, or the server goes down first; only  *)
(* a failed database write excuses a row that is left spinning.            *)
EveryRowEnds == \A i \in Ids :
  status[i] \in Active ~> (status[i] \notin Active \/ ~Up \/ faults > 0)
=============================================================================
