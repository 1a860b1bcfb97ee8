----------------------------- MODULE ModelTasks -----------------------------
(***************************************************************************)
(* The tasks that load, move and delete models, and what the client is      *)
(* shown of them: backend/routes/models.py, backend/utils/tasks.py, the     *)
(* entries of backend/utils/progress.py, and model_load_progress of         *)
(* backend/backends/base.py, which every loader runs in.                    *)
(*                                                                         *)
(* A download is an asyncio task that holds the lifecycle guard while a     *)
(* thread loads.  It is owned by the table of the route, shown by two other *)
(* tables that every loader writes, and its done callback runs a turn later.*)
(*                                                                         *)
(* Abstracted: the guard is its owner (LifecycleGuard); how events reach    *)
(* the subscribers is ProgressStream; the steps between two awaits are one. *)
(***************************************************************************)
EXTENDS Integers, FiniteSets

CONSTANTS Models,
          Downloads,    \* the tasks of trigger_model_download
          LoadJobs,     \* generation jobs, which load what they need
          ModelOf,      \* the model of each of them
          NoTask,
          MaxFailures   \* bound: loads and moves that fail

ASSUME ModelTasksAssumption ==
    /\ Downloads \cap LoadJobs = {} /\ NoTask \notin Downloads \cup LoadJobs \cup Models \cup {"migration"}
    /\ "migration" \notin Downloads \cup LoadJobs
    /\ ModelOf \in [Downloads \cup LoadJobs -> Models]

VARIABLES phase,      \* each loader: unborn, waiting, loading, loaded, failed, done
          fresh,      \* loaders whose model was not cached when they began
          thrown,     \* tasks with a CancelledError thrown or pending
          callback,   \* tasks whose done callback has still to run
          table,      \* _model_download_tasks
          entry,      \* TaskManager._active_downloads: none, downloading, error
          progress,   \* ProgressManager._progress: none, downloading, complete, error
          guard,      \* who holds the lifecycle guard
          cached,     \* the models that are complete in the cache
          moved,      \* the models that are complete at the destination of the migration
          remains,    \* names taken at the destination, by whatever
          migration,  \* _model_migration_task: none, waiting, renaming, copying, done
          copying,    \* the model whose bytes are at the destination and the source, or NoTask
          failures

modelTaskVars == <<phase, fresh, thrown, callback, table, entry, progress, guard, cached, moved,
                   remains, migration, copying, failures>>
loaderVars == <<phase, fresh, thrown, callback, table>>
shownVars == <<entry, progress>>
diskVars == <<cached, moved, remains, migration, copying>>

Loaders == Downloads \cup LoadJobs
Live(d) == d \in Loaders /\ phase[d] \notin {"unborn", "done"}
Migrating == migration \in {"waiting", "renaming", "copying"}

ModelTasksInit ==
    /\ phase = [d \in Loaders |-> "unborn"] /\ fresh = {} /\ thrown = {} /\ callback = {}
    /\ table = [m \in Models |-> NoTask]
    /\ entry = [m \in Models |-> "none"] /\ progress = [m \in Models |-> "none"]
    /\ guard = NoTask /\ cached \in SUBSET Models /\ moved = {}
    /\ remains \in SUBSET Models /\ migration = "none" /\ copying = NoTask /\ failures = 0

Become(d, to) == phase' = [phase EXCEPT ![d] = to]
ShowEntry(m, s) == entry' = [entry EXCEPT ![m] = s]
ShowProgress(m, s) == progress' = [progress EXCEPT ![m] = s]
Fails == failures < MaxFailures /\ failures' = failures + 1

-----------------------------------------------------------------------------
(* Loading.                                                                 *)

(* trigger_model_download, start_owned_model_download_task: refused while   *)
(* the model's task is live, cancelled or not.                              *)
Trigger(d) ==
    LET m == ModelOf[d]
    IN  /\ phase[d] = "unborn"
        /\ ~Live(table[m])
        /\ Become(d, "waiting") /\ table' = [table EXCEPT ![m] = d]
        /\ ShowEntry(m, "downloading") /\ ShowProgress(m, "downloading")
        /\ UNCHANGED <<fresh, thrown, callback, guard, diskVars, failures>>

(* A generation job starts to load; nothing of the table is asked. *)
Arrive(j) ==
    /\ phase[j] = "unborn" /\ Become(j, "waiting")
    /\ UNCHANGED <<fresh, thrown, callback, table, shownVars, guard, diskVars, failures>>

IsCached(m) == m \in cached

(* The guard is free; model_load_progress begins. *)
Load(d) ==
    LET m == ModelOf[d]
    IN  /\ phase[d] = "waiting" /\ d \notin thrown /\ guard = NoTask
        /\ guard' = d /\ Become(d, "loading")
        /\ IF IsCached(m) THEN UNCHANGED <<fresh, shownVars>>
           ELSE fresh' = fresh \cup {d} /\ ShowEntry(m, "downloading") /\ ShowProgress(m, "downloading")
        /\ UNCHANGED <<thrown, callback, table, diskVars, failures>>

(* The thread ends, whether its task is cancelled or not: mark_complete     *)
(* knows only what is shown, and is called only for a model that was not    *)
(* cached.                                                                  *)
Loaded(d) ==
    LET m == ModelOf[d]
    IN  /\ phase[d] = "loading" /\ Become(d, "loaded")
        /\ cached' = cached \cup {m}
        /\ IF d \in fresh
           THEN ShowEntry(m, "none") /\ ShowProgress(m, IF progress[m] = "none" THEN "none" ELSE "complete")
           ELSE UNCHANGED shownVars
        /\ UNCHANGED <<fresh, thrown, callback, table, guard, moved, remains, migration, copying, failures>>

LoadFails(d) ==
    LET m == ModelOf[d]
    IN  /\ phase[d] = "loading" /\ Become(d, "failed") /\ Fails
        /\ ShowProgress(m, "error") /\ ShowEntry(m, IF entry[m] = "none" THEN "none" ELSE "error")
        /\ UNCHANGED <<fresh, thrown, callback, table, guard, diskVars>>

(* Faulty variant: a cancelled task leaves without the guard's release. *)
ReturnHolding(d) ==
    /\ phase[d] \in {"loaded", "failed"} \/ (phase[d] = "waiting" /\ d \in thrown)
    /\ guard' = IF guard = d /\ d \notin thrown THEN NoTask ELSE guard
    /\ Become(d, "done") /\ fresh' = fresh \ {d} /\ callback' = callback \cup ({d} \cap Downloads)
    /\ UNCHANGED <<thrown, table, shownVars, diskVars, failures>>

(* download_in_background goes on, or its CancelledError comes through, and *)
(* the guard is released; a job goes on with its generation.                *)
Return(d) ==
    LET m == ModelOf[d]
    IN  /\ \/ phase[d] \in {"loaded", "failed"} /\ guard' = NoTask
           \/ phase[d] = "waiting" /\ d \in thrown /\ UNCHANGED guard
        /\ Become(d, "done") /\ fresh' = fresh \ {d}
        /\ callback' = callback \cup ({d} \cap Downloads)
        /\ CASE d \in LoadJobs \/ d \in thrown -> UNCHANGED entry
             [] phase[d] = "loaded" -> ShowEntry(m, "none")
             [] OTHER -> ShowEntry(m, IF entry[m] = "none" THEN "none" ELSE "error")
        /\ UNCHANGED <<thrown, table, progress, diskVars, failures>>

(* Faulty variant: whoever is in the table is finished. *)
FinishWhoever(d) ==
    LET m == ModelOf[d]
    IN  /\ table' = [table EXCEPT ![m] = NoTask]
        /\ IF d \in thrown THEN ShowEntry(m, "none") /\ ShowProgress(m, "none") ELSE UNCHANGED shownVars

(* _finish_model_download_task *)
FinishTask(d) ==
    LET m == ModelOf[d]
        released == table[m] = d
    IN  /\ table' = IF released THEN [table EXCEPT ![m] = NoTask] ELSE table
        /\ IF released /\ d \in thrown THEN ShowEntry(m, "none") /\ ShowProgress(m, "none") ELSE UNCHANGED shownVars

Callback(d) ==
    /\ d \in callback /\ callback' = callback \ {d} /\ FinishTask(d)
    /\ UNCHANGED <<phase, fresh, thrown, guard, diskVars, failures>>

(* cancel_model_download: a live task is cancelled and waited for; what is  *)
(* not live is dismissed.                                                   *)
Cancel(m) ==
    /\ Live(table[m])
    /\ thrown' = thrown \cup {table[m]}
    /\ UNCHANGED <<phase, fresh, callback, table, shownVars, guard, diskVars, failures>>

Dismiss(m) ==
    /\ ~Live(table[m])
    /\ table' = [table EXCEPT ![m] = NoTask]
    /\ ShowEntry(m, "none") /\ ShowProgress(m, "none")
    /\ UNCHANGED <<phase, fresh, thrown, callback, guard, diskVars, failures>>

(* clear_task_metadata_if_no_owned_model_tasks *)
Clear ==
    /\ \A m \in Models : ~Live(table[m])
    /\ ~Migrating
    /\ table' = [m \in Models |-> NoTask]
    /\ entry' = [m \in Models |-> "none"] /\ progress' = [m \in Models |-> "none"]
    /\ UNCHANGED <<phase, fresh, thrown, callback, guard, diskVars, failures>>

(* delete_model: refused while somebody holds the guard. *)
Delete(m) ==
    /\ guard = NoTask /\ IsCached(m) /\ cached' = cached \ {m}
    /\ UNCHANGED <<loaderVars, shownVars, guard, moved, remains, migration, copying, failures>>

-----------------------------------------------------------------------------
(* Moving the cache: migrate_models.                                        *)

Migrate ==
    /\ migration \in {"none", "done"} /\ migration' = "waiting"
    /\ UNCHANGED <<loaderVars, shownVars, guard, cached, moved, remains, copying, failures>>

(* The whole move is checked before anything is touched. *)
Scan ==
    /\ migration = "waiting" /\ guard = NoTask
    /\ IF cached # {} /\ cached \cap remains = {} THEN guard' = "migration" /\ migration' \in {"renaming", "copying"}
       ELSE migration' = "done" /\ UNCHANGED guard
    /\ UNCHANGED <<loaderVars, shownVars, cached, moved, remains, copying, failures>>

MigrationStep(how) == migration = how /\ UNCHANGED <<loaderVars, shownVars, guard, migration>>

(* On one file system a model is renamed; else copied, and then removed.    *)
(* A copy that fails leaves what it wrote, and the next model is tried.     *)
Rename(m) ==
    /\ MigrationStep("renaming") /\ m \in cached /\ m \notin remains
    /\ cached' = cached \ {m} /\ moved' = moved \cup {m} /\ remains' = remains \cup {m}
    /\ UNCHANGED <<copying, failures>>
Copy(m) ==
    /\ MigrationStep("copying") /\ copying = NoTask /\ m \in cached /\ m \notin remains
    /\ remains' = remains \cup {m}
    /\ \/ moved' = moved \cup {m} /\ copying' = m /\ UNCHANGED failures
       \/ Fails /\ UNCHANGED <<moved, copying>>
    /\ UNCHANGED cached

(* Faulty variant: the source goes before the copy is complete. *)
RemoveEarly(m) ==
    /\ MigrationStep("copying") /\ m \in cached
    /\ cached' = cached \ {m} /\ copying' = NoTask
    /\ UNCHANGED <<moved, remains, failures>>

(* The source goes when the copy is complete; some of it may stay.          *)
RemoveSource(m) ==
    /\ MigrationStep("copying") /\ copying = m
    /\ cached' = cached \ {m} /\ copying' = NoTask
    /\ \/ UNCHANGED failures
       \/ Fails
    /\ UNCHANGED <<moved, remains>>

(* Done, in an error, or cancelled with the thread drained. *)
MigrationEnds ==
    /\ Migrating /\ migration' = "done" /\ copying' = NoTask
    /\ guard' = IF guard = "migration" THEN NoTask ELSE guard
    /\ UNCHANGED <<loaderVars, shownVars, cached, moved, remains, failures>>

-----------------------------------------------------------------------------
LoaderSteps(d) == Loaded(d) \/ LoadFails(d) \/ Return(d) \/ Callback(d)

ModelTasksNext ==
    \/ \E d \in Downloads : Trigger(d) \/ Callback(d)
    \/ \E j \in LoadJobs : Arrive(j)
    \/ \E d \in Loaders : Load(d) \/ Loaded(d) \/ LoadFails(d) \/ Return(d)
    \/ \E m \in Models : Cancel(m) \/ Dismiss(m) \/ Delete(m) \/ Rename(m) \/ Copy(m) \/ RemoveSource(m)
    \/ Clear \/ Migrate \/ Scan \/ MigrationEnds

ModelTasksSpec == ModelTasksInit /\ [][ModelTasksNext]_modelTaskVars

(* Threads end, the loop runs what is ready, and who waits for the guard    *)
(* gets it in the end: holders let it go, and it is asked for again and     *)
(* again (LifecycleGuard).                                                  *)
ModelTasksFairness ==
    /\ \A d \in Loaders : WF_modelTaskVars(LoaderSteps(d)) /\ SF_modelTaskVars(Load(d))
    /\ WF_modelTaskVars(MigrationEnds)

-----------------------------------------------------------------------------
(* Properties. *)

(* A download that is not over, draining ones included, is the one in the   *)
(* table, where a cancellation, a clearing and a second trigger find it,    *)
(* whatever callbacks of earlier tasks are late; and the client sees it for *)
(* as long as it downloads.                                                 *)
DownloadIsOwned ==
    /\ \A d \in Downloads : Live(d) => table[ModelOf[d]] = d
    /\ \A d \in Downloads : phase[d] = "loading" /\ d \in fresh =>
           entry[ModelOf[d]] = "downloading" /\ progress[ModelOf[d]] = "downloading"

(* However a migration ends, a model that was cached is complete in one of  *)
(* the two places, unless it was deleted; and what was at the destination   *)
(* before is not written to.                                                *)
NoModelIsLost ==
    [][/\ \A m \in cached \ cached' : m \in moved' \/ (guard = NoTask /\ migration' = migration)
       /\ \A m \in Models : (m \in moved' /\ m \notin moved) => m \notin remains]_modelTaskVars

(* A download that was started is not shown as pending for ever. *)
PendingEnds == \A m \in Models : entry[m] = "downloading" ~> entry[m] # "downloading"

=============================================================================
