# Voicebox: a verification development

Voicebox is a local voice studio: a FastAPI server (`backend/`) that runs speech
models on one accelerator and keeps its data in SQLite and in a managed directory
tree, a desktop shell (`tauri/`), and a React application (`app/`).  This directory
holds TLA+ models of the server's stateful parts, the TLC configurations that check
them on small instances, and TLAPS proofs of results that hold on every instance.

## 1. The system

| Component | State it keeps | Operations | What is hard | Modules |
|---|---|---|---|---|
| Serial generation queue (`services/task_queue.py`) | a bounded `asyncio.Queue`, one worker task, four tables of caller IDs | enqueue, cancel, the worker's loop, shutdown | cancellation at every suspension point; four tables edited by four parties | `TaskQueue`, `SerialExecutor` |
| Generation rows (`routes/generations.py`, `services/generation.py`, `services/history.py`) | a row's `status`, the task panel, files | generate, retry, regenerate, exact batches, cancel, delete, the inference coroutine | a row, a panel entry and a job must agree; commits that raise but are durable | `Generations` |
| Foreground requests (`run_queued_generation`, the streaming handlers) | a future per request, the file it made | call, deliver, leave | a client leaves while its value arrives; work for nobody | `ForegroundGeneration` |
| Deletion journal (`services/deletion_journal.py` and its callers) | intents on disk, files, rows | stage, publish, reconcile, recover | SQLite and the filesystem share no transaction; crash between any two steps | `DeletionJournal`, `ManagedLibrary` |
| Generation versions (`services/versions.py`, `routes/effects.py`, and what jobs, deletions and Stories do to versions) | version rows, one default, the generation's audio path, files, Story clips | save, retry, regenerate, import, apply, choose, delete, pin | several owners of one file; handlers that await between reading and writing | `Library` |
| Accelerator guard (`backends/mlx_tts_lifecycle.py`) | one thread lock, an owner | hold, try_hold, release | re-entry by owner identity; claims and releases are several steps | `LifecycleGuard`, `Mutex` |
| Request admission (`request_limits.py`) | slots, reserved bytes | admit, refuse, serve, release | the release itself awaits a lock and can be cancelled | `UploadAdmission` |
| Model tasks (`routes/models.py`, `utils/tasks.py`, `backends/base.py`) | owned download tasks, panel and progress entries, caches | download, cancel, dismiss, clear, delete, migrate | done callbacks run later than the end of their task; two tables with two authors | `ModelTasks` |
| Progress streams (`utils/progress.py`) | last progress per model, bounded listener queues | update, subscribe, leave | a producer thread walks a list the loop changes; terminal events at a full queue | `ProgressStream` |
| Text chunking (`utils/chunked_tts.py`) | none between calls | split, synthesise chunk by chunk, retry, halve, join | nothing spoken twice or left out; the same plan on resumption | `SplitText`, `LongForm` |
| Exact chunk checkpoints (`services/exact_chunk_checkpoints.py`) | files per request hash | store, load, collect | crash inside a save; rot; collection against rows that may be resumed | `ExactSynthesis` |
| Effects and Story rendering (`services/effects_processing.py`, `services/stories.py`, `utils/responses.py`) | one slot per kind, scratch directories, leases, threads | render, mix, stream, sweep | threads that cannot be cancelled; arithmetic of blocks, windows and rates | `RenderJobs`, `RenderStages`, `StoryMix` |
| Story timeline (`services/stories.py`) | clips on tracks | add, move, trim, split, duplicate, reorder, pin | stale clients; audio that changes length under its clips | `StoryTimeline` |
| Captures (`services/captures.py`) | rows and recordings | create, refine, retranscribe, delete | transcript changed while the language model ran; failures after publication | `Captures` |
| Exact voice snapshots (`services/profiles.py`) | frozen voices and derived prompts, reserved bytes | freeze, derive, collect | collection against requests that may still run | `VoiceSnapshots` |
| Archives (`services/export_import.py`) | workspaces, reserved bytes | export, import | names chosen before an await; copies of files that change | `Archives` |
| Disk reservations (`utils/disk_reservations.py`) | bytes and floors per device | reserve, resize, release | bytes counted twice or not at all between write and release | `DiskReservations` |
| Backend installs (`utils/backend_archive.py`, `services/cuda.py`, `backend_operations.py`) | install, backup and staging directories, a swap journal | download, commit, recover, delete | crash inside a directory swap | `BackendInstall` |
| Startup and shutdown (`app.py`) | the order of recovery steps | recover, reconcile, serve, drain | what one step relies on another to have done | in each of the above |

The event loop is single threaded: code between two `await`s that really suspend is
atomic.  Model code and renders run in executor threads which cannot be cancelled; the
code therefore drains such a thread before a cancellation is let through.  Handlers talk
to the queue by plain calls, the worker talks to them through rows and the panel, threads
talk to the loop through `call_soon_threadsafe`, and the only thing that survives a crash
is SQLite and the files.  The queue's jobs are the coroutines of rows and of foreground
requests; both run inference under the guard; what they make goes through the journal
into the library; uploads, archives, exports and installs share the disk ledger.

What makes each part correct, in a sentence:

* queue: an ID belongs to at most one job, the tables say exactly what is held, a cancel
  covers the whole job, every accepted job leaves, shutdown ends;
* rows: nobody's row is left spinning, a finished result is never taken back, a cancelled
  one never completes, the panel shows live work;
* foreground requests: every file made is handed over or deleted, every caller answered;
* journal: after recovery a file is there iff a row owns it, whatever crashed when;
* library: what is referenced exists, one default that is what plays, no file stays without
  an owner, a pinned clip keeps its audio;
* guard and admission: one owner at a time, released by its owner only; counters that are
  those of the requests inside; everybody leaves;
* models: a live download has an owner and is shown; no model is lost on its way; a
  subscriber learns that its download ended;
* synthesis: the chunks are the text; a resumed attempt sounds like a fresh one; a stored
  chunk is kept while it may be used and not afterwards;
* renders: every frame once and in its place; scratch space has an owner or is swept; the
  slot comes free; an edit is whole and does not change what others play;
* disk: the floor of every lease holds; one whole backend; a recording, an import and a
  frozen voice are there exactly as long as somebody owns them; an archive is of one moment.

## 2. Modules

Each module is named for a component; its comment says what it abstracts, and its
definitions keep the source's names where there is one.  A handler that does not give up
the loop is one action; a handler that awaits is one action per stretch between awaits;
what touches the disk where a crash matters is one action per call.

### Work

`TaskQueue`: one variable per module-level name of `task_queue.py` (`queued` is
`_queued_generation_ids`, and so on), plus the parts of asyncio that decide what happens:
whether the worker is suspended in `queue.get()` (`idle`) or in `await task` (`awaiting`),
its `cancelling()` count as a Boolean, a CancelledError that is on its way (`pending`),
and the child task with its own cancel flag.  A job is the set of its IDs: the code
rejects empty and duplicate ID tuples and never uses their order.  The worker's walk over
several dropped jobs, which the event loop runs without a break, is one step per job;
this only adds interleavings.  The delicate rule is how a cancelled worker leaves
`await task`.  asyncio delivers the cancel to the child while it is unfinished; if the
child *returns*, the await returns normally and the code looks at `cancelling()`; if the
child *raises*, the handler at line 121 catches the exception and the loop goes on.
`WorkerLeaves` states this.  `SerialExecutor` is what the queue promises: whole jobs, one
at a time, in order; `TaskQueue` implements it.

`Generations` composes rows, panel, routes, coroutine and startup with `TaskQueue`.  A
handler is one step: between its first read of the row and its call into the queue it
awaits only coroutines that never suspend.  A database write may be *lost* (the commit
raises, nothing changed) or *unsure* (the commit raises but is durable and the confirming
session fails too); `faults` counts them.  `Take`, `Drop`, `Finish`, `Stop` are the
worker's steps joined with the rows they reconcile, `Begin` ... `Cancelled` the coroutine
`run_generation` / `run_exact_generation_batch`.

`ForegroundGeneration`, also over `TaskQueue`: `caller`, `future`, `coro` and `file` follow
one request through `run_queued_generation`.  `Leave` is the client's departure and does
what the `except CancelledError` branch does, `Close` is the `on_close` callback that the
worker and shutdown run for every job.

`LifecycleGuard`: every access to `_lock` or, under `_state_lock`, to `_owner` is a step of
its own: `Ask`, `Reenter`/`NotOwner`, `Grab`/`Busy`, `Own`, then `Disown` and `Unlock`.  An
actor is a task or a thread, the two kinds of owner the code tells apart.  `Work` is an
executor thread that the actor drains before a cancellation leaves the hold.  It
implements `Mutex`.

`UploadAdmission`: `request` follows a large request through the middleware; `line` is the
order in which asyncio's lock is given; `active`, `spooled` and `ledger` are the counters.
A refusal is sent while the lock is held.  `Abort` is a cancellation while
waiting in that line, to enter or to leave (the `finally` block); what the second leaves behind
is in the ghost `broken`.

### Library

`DeletionJournal`: durable state is `rows` (the rows that own a path), `place` (where each
file or directory is: nowhere, public, or hidden under the name of an intent), `home` (the
directory a sample was written into) and `intents`.  The rest is the program: the
synchronous deletion that has the event loop (`phase`, `todo`, `staging`, `worklist`) and
one upload that is suspended at its awaits (`pubStep`).  One action is one rename, commit,
unlink or intent write, all of them fsynced in the code, and `Crash` may come between any
two.  A commit is atomic; what the handler believes of it does not matter because
`reconcile_deletion_intent` always asks the database again.  `faults` counts *spells* of
failing filesystem operations: an operation that raises, with its undo.  Names are fresh
UUIDs, so an entry is an inode; only the profile's directory can be made again under its
old name, which is why there are several `Dirs`.  It implements `ManagedLibrary`: whole
operations, whatever crashes.

`Library` starts where the journal ends: hiding, publishing and reconciling a file are one
step with the commit they surround.  `gen`, `ver` and `clip` are the rows; a file and the
version that was saved with it share a number.  Two handlers await in the middle, the job
of a generation and a request that applies effects, and have a variable each (`job`,
`apply`); everything else may run between their steps.  A commit is `ok`, `lost` or
`untold` (durable, but the handler fails).

`StoryTimeline`: the clips of one Story with their cuts and pins, over generations that are
retried, get new takes and other defaults, and lose versions.  There are two lengths of a
clip and the code uses both: an edit measures by `duration`, the column of the generation
(`Effective`), an export plays a file, that of the pinned version in `takes` or else the
public one (`Played`, `Sounding`).  A retry writes both together, a new take the file in one
commit and the column in the next, and making another version the default the file only.
`Heard` is the meaning of a clip, the instants at which each piece of its file plays;
`Exportable` is what an export asks of rows and files before it mixes.  Every handler is one
action, a request it refuses is no step, and its commit may raise before or after the rows
are durable.

`Captures`: `at` is where the handler of an upload is, `files` and `intents` the disk,
`revision` a refinement or retranscription that awaits a model with what it read.

`Archives`: an import is inspected, extracted and copied at awaits and then published and
committed in one turn of the loop; an export notes the identities of the files it copies
and compares them afterwards.  `past` is a history of what was exported when.

`VoiceSnapshots`: entries of the store by kind, the requests that own them, the one writer
of a derived prompt with its reserved bytes, and the collection of a start, which may be
cut short between the rename and the removal of an entry.  A voice of one sample (`Single`)
needs no derived prompt of its own.

### Synthesis and rendering

`SplitText`: one action is one round of the loop of `split_text_into_chunks`; a character is
one member of each class that the code tells apart.  `LongForm` (operators only) is
`generate_chunked` as a function of text, seed and engine, with its retries under other
seeds and the recursion into halves.  `ExactSynthesis` runs that plan chunk by chunk with
the checkpoint store between them and compares with it: a save is a write, a rename and a
directory sync apart, `Crash` may come between, `Rot` spoils a file, `Stray` puts something
into a store that is no checkpoint.

`RenderStages` passes frames through a chain of effects block by block; a frame is its
number and what it went through, so that a seam that loses, repeats or skips one is seen.
`StoryMix` probes the clips of a Story, computes the length of the mix, resamples and adds
them; a frame of the mix is the bag of what was added.  `AudioPipelines` puts the three
computations side by side.  `RenderJobs` is what surrounds them: a request's slot, its
thread, directory and lease, the response that streams the file, sweeps and restarts.

### Models and disk

`ModelTasks`: `phase` of every loader (a download's task or a generation's job), the table
of the route and the two tables every loader writes, the caches at the source and at the
destination of a migration.  A done callback is a step of its own.  `ProgressStream` is how
events reach subscribers: `thread` and `next` are a walk over the list of listeners,
`posted` what the loop has still to run, `box` the bounded queues.

`DiskReservations`: one device; devices share nothing but the lock.  A resize that asks for no
more is `Shrink`, which measures nothing, whoever calls it and whatever is written by then.  An admission is two
steps, the read of `disk_usage` (`Measure`, `MeasureResize`) and the ledger's update
(`Admit`, `AdmitResize`), because leaseholders write, and other programs take space, in
between without the lock.

`BackendInstall`: `dirs` is what the live, staging and backup directories hold, `journal`
the swap journal.  A function that touches the disk becomes a *plan*, the sequence of
filesystem calls it decides on (`RecoverPlan`, `CommitPlan`, `DeletePlan`, `StagePlan`), and
`Step` does one call; `Tear` is a long one (a recursive removal, a copy, an extraction)
that has reached part of its files, so `Crash` finds directories with any of their parts
missing.  `Fault` is a call that raises, with its effect or without.  A slot's `phase` says
which function it is in and so where an exception leads (`OnError`).  `windows` is chosen
once: there a rename refuses a destination that exists, which `Status`, the status request,
can make at any moment.

Operators that begin with "Faulty variant" in their comment are deliberate errors: each
property is also checked against an error in a definition it depends on, to see that it can
fail.

## 3. Runs

A run checks one part or several that share no state; then a variable `part`, or the
initial state, chooses one and the others stand still.

| Run | Shows | Instance |
|---|---|---|
| `task_queue` | ownership and tables; jobs start, are cancelled and released as units; every accepted job leaves, shutdown ends unless a child raises; implements `SerialExecutor`.  Models: a live download is owned and shown, no model is lost, nothing stays pending | 4 IDs in single and double jobs, backlog 3; 2 models, 2 downloads and a job of one of them, 1 failure |
| `generations` | rows, panel and queue agree and answers are final, with two database faults anywhere; without one every row ends | 2 plain rows, one two-unit envelope, backlog 2 |
| `foreground` | each file reaches one owner, nothing is abandoned, every caller is answered.  Renders own their bytes and leases, the slot comes free | 3 requests, backlog 2; 1 render, 1 preview, 2 exports, 1 failing removal, 1 restart |
| `locks` | guard: the owner is inside and work has the owner it began under; implements `Mutex`; comes free.  Admission: counters exact, everybody leaves | 3 actors with 3 nested holds; 3 uploads and 2 MCP calls of known, unknown and excessive length, limit 2, slots 2 and 1, 5 bytes of disk |
| `library` | journal: files and rows agree after any crash, startup settles, implements `ManagedLibrary`.  Library: references, files and defaults are whole, pinned clips keep their audio | 1 audio file, 2 samples, 2 directories, 2 intents each, 2 spells of faults; 2 generations, 2 clips, 3 files; samples, directories, generations and clips are alike (symmetry) |
| `synthesis` | chunks are the text; renders and mixes are exact and never refuse a sound source; resumed equals fresh; checkpoints are kept while of use; the end of a download is heard; edits are whole and their places free | texts of up to 4 of 9 characters, limits 2 and 3; sources of up to 7 frames, blocks of 2, chains of up to 3; mixes of 1 and 2 clips; 3 attempts at one request of 3 words, 4 engines, 1 crash, 1 fault; 2 clients with queues of 1, 2 downloads; a Story of up to 3 clips on 2 tracks, 2 generations of 2 versions of lengths 2 and 4, 4 edits, 2 reworks, 1 failing commit |
| `disk` | one whole installation; leases are covered; recordings, refinements, voices, imports and exports are sound | 2 install slots and 2 failing calls; 3 leases of 0..2 bytes, floors 0 and 1, 3 bytes free; 2 uploads, 2 revisions, 2 failing calls, 1 death; 2 voices, 3 requests, 2 starts, 2 edits; 3 imports, 2 exports, 1 mishap, 1 kill, 2 changes |
| `shutdown_hang`, `journal_refused_start`, `install_poll` | findings 1 to 3 | as `generations` with one plain row and one fault; as `library`; as `disk` without failing calls |
| `version_unchecked`, `ledger_resize` | findings 4 and 5 | the Story of `synthesis` and the ledger of `disk` alone |

**Bounds.**  Backlogs 2 and 3 are below the number of jobs, so refusals happen; two IDs in
a job tell a job from an ID, and two jobs that share an ID collide.  Two database faults
reach "the write failed and so did its repair".  Two intents of one entry let a deletion be
tried again while the first one's intent is still there, two directories let a profile's
storage be made again, two samples are an upload beside a deletion, and two spells of filesystem
errors let the undo of a file and that of its directory both fail.  Three files of the
library are two aliases of an old database and a version derived or saved afterwards, or a take, its
retry and its processed version.  Three actors are an owner, a waiter and one
that polls; three nested holds a hold that is neither outermost nor innermost.  Three uploads over two
slots and five bytes over a limit of two are refused for either reason.  Four characters over a
limit of two hold every kind of break and a hard cut; three words in chunks of two give two chunks, one of which
can be halved; seeds wrap around.  Seven frames in blocks of two, with windows that overlap by
one, have a first, an inner and a last window; three effects are a pitch shift between or
beside others.  Four edits add, cut, split and move a clip; two reworks
put a retry, another take, default or deletion between an edit and the next; two lengths, 2 and 4,
starts 0 and 3, cuts of 1 at either side and a timeline of 6 give files longer and shorter than the
duration, cuts that leave nothing of one, and clips past the end.  The two generations are alike
(symmetry), and the view leaves out `did`, the ghost that names the last step: no action reads
it and no property reads it before a step, so that states that differ in it alone have the same
steps, and TLC looks at the action properties of every step, also of one to a known state.  Two loaders of one model are a late callback and its successor.  Three leases
are one that is resized, one that writes and one that asks.  Crashes of the queue, the rows, the
journal and the install are not bounded, because their states are finitely many; elsewhere
one crash, or two starts, is a crash at every point and what follows it.

**Fairness.**  The event loop runs every ready callback; threads, an inference call and the
draining of a cancelled one end (`WF` on the worker, on the child, on the drain of shutdown,
on a settled future's waiter, on each render's thread and handler, on each loader's steps).
The worker's steps are one disjunction under one condition because they are one task.  Users are
never fair: no handler is assumed to be called and no client to leave, and a body that is being
received ends because the server gives up on it.  Guard: the body of a hold ends
(`SF`, per nesting depth, because a body may nest other holds and is interrupted by them); a
loader that waits for the guard gets it in the end (`SF` on `Load`), since holders let it
go.  Without that a single endless inference would block everybody, in the code as in the model.
The admission lock is given in order and so needs `WF` only.  Journal, library, timeline,
ledger, install, captures, voices, archives and the computations are checked for safety;
their instances stop when their bounds are used up, which is why some runs do not check
deadlock.

### Findings

1. `shutdown_hang`: the comment at `task_queue.py:108-112` promises that a worker cancelled
   while its child runs terminates; a child that *raises* defeats it.
2. `journal_refused_start`: a profile deleted during a sample upload, then a crash: the
   sample's intent lies below a directory that is gone, raises at every start, and startup
   is refused from then on (`deletion_journal.py:193`, comment at 634-635).  The `library`
   run shows the weaker fact that storage which somebody still owns never has this fate
   (`OwnedStorageStarts`).
3. `install_poll`: two status requests that make the live directory at bad moments leave, on
   Windows, a journal with nothing to recover, and every later start is refused
   (`cuda.py:406` deletes the staged copy; docstring at `backend_archive.py:608`).  With two
   failing calls instead it happens on every system, and a crash while that copy is being
   deleted makes the rest of it the installation.  `BackendInstall` names both exceptions:
   the ghosts `leftover` and `cut`.  `cut` also covers a user's deletion that is cut short:
   nothing on the disk records that it began, so what still has its executable counts as
   installed.
4. `version_unchecked`: `docs/content/docs/developer/stories.mdx:20-22` says that replacing a
   clip's version validates the resulting item and story limits; `set_story_item_version`
   (`stories.py:1271-1289`) asks only that the version belongs to the generation.  A Story that
   can be exported is one no more when a clip at its end is pinned to a longer take.
5. `ledger_resize`: a claim that is replaced by one no larger is not checked, although a part of
   it may be on the disk by then (`disk_reservations.py:114`, done by `backend_archive.py:226-231`
   with the archive still there; docstring at 5-8).  `ClaimsFit` states that docstring and is
   violated.  `LedgerKeepsPromises` holds in the presence of such resizes: what they promised
   unchecked since the last check is the ghost `owed`, and the floors are short by no more than
   that and what other programs took.

### Seen while modelling

Behaviour that the models have, that their properties name as an exception where they
need one, and that a maintainer may want to look at.

* Queue: a second cancel of a job that is still draining answers `None` and takes the branch
  of `routes/generations.py:1075`, whose comment says that the worker no longer tracks the
  row; the row fails with the wrong message.  `CancelIsFinal` holds.
* Journal: when a sample's undo failed, then its directory's, and an upload has made the
  directory again, the sample's intent is looked up in the new one and cleared as done
  (`deletion_journal.py:600-602`, docstring at 553-554).  The row then owns a file whose
  bytes stay below a hidden directory under a name nobody remembers.  `NoLostFile` names the
  exception, two spells of errors and a second directory; `ManagedLibrary` sees a deletion.
* Library: a retried or imported take without a version row is left on the disk when another
  version becomes the default, is applied or is saved (`OnlyUnversionedStray` allows exactly
  that).  A generation with effects fails after its whole synthesis when a preview holds
  the effects slot.  An export of a retried generation that has versions leaves out the take
  in play (`export_import.py:1875`).
* Stories: adding and duplicating check the start of a clip only; a split that is refused
  for its second half has already cut the first one in the uncommitted session.  Edits measure
  by `generation.duration`, which a new take overwrites and another default or a deleted version
  leaves as it was (`stories.py:152-162`, `versions.py:286-292`): a split of a clip whose file
  is longer or shorter is heard, and trims that leave something of the duration may leave
  nothing of the file, so that an export refuses (`stories.py:1385`).  `EditsAreWhole` is said
  of clips that agree, and `PlacesAreFree` names what no edit looks at.
* Admission: a cancellation during the release leaves its slot and bytes taken; a refusal
  is sent while the lock is held.
* Models: a failed or cancelled copy leaves its partial directory, and later migrations
  refuse; Dismiss and Clear can hide a generation's load; the load of a cached model leaves a
  progress entry that nobody completes (`routes/models.py:674-680`; `base.py:295-298`
  completes only what was not cached).
* Progress: a full queue drops a terminal event; a listener that leaves during the walk
  makes the walk pass by the next one, although the docstrings say thread-safe
  (`progress.py:16-17`).  `EndIsHeard` excludes these clients through the ghost `missed`.
* Chunking: a tag is meant to be atomic (`chunked_tts.py:321-322`) and is cut in some texts
  that are mostly tags or punctuation (`chunked_tts.py:343`, 410-422).
* Checkpoints: a paired row that completes collects nothing, so that its checkpoints may
  stay until the next start; one unknown entry in the store blocks saves and collection.
* Captures: a creation whose durability could not be proved answers an error though the row
  exists; a recording whose restore failed is hidden until the next start.
* Voices: one invalid snapshot that is still owned stops a whole collection.
* Archives: two imports of one name race between the choice of a free name and the commit; the
  uniqueness constraint lets one of them fail.

## 4. Proofs

All theorems hold for every value of the constants that the named assumptions allow
(nonempty jobs over `Ids`, natural bounds, disjoint names, requests with words, texts of the
classes of characters, sources and clips of natural lengths).  None needs a bound of a run.

* `TaskQueueProofs`.  `QueueInv` is inductive: types, `SingleOwner`, `TablesExact`,
  `CancelWhole`, `CancelReachesChild`, `WorkerHoldsJob`, `NothingOwnedWhenDown`.
  `SingleOwner` alone is not inductive: an enqueue checks the *tables*, so that they
  describe the queue has to be carried along; that in turn needs `WorkerHoldsJob` (a job is
  held exactly while its task is awaited) and `CancelWhole` (a mark never outlives its job).
  `OwnershipIsExact` and `JobsAreUnits` follow.  The refinement of `SerialExecutor` maps the
  queue to `Marked(queue, cancelled)`: an enqueue is a submission, the cancel of a waiting job
  drops it, the worker's take begins one or discards a cancelled one, a finish ends it,
  shutdown closes, a crash loses, a start reopens, and every other step stutters.
* `GenerationsProofs`.  Every step of `Generations` is a step of the queue or leaves it
  alone (`QueueStep`), so `QueueInv` is inherited; `RowsInv` adds that a job's row exists,
  is active while it waits uncancelled, and is completed only by being saved.  From it
  `RowsFollowJobs` and `AnswersAreFinal`, for any number of database faults; and
  `LiveWorkIsShown`, row by row, where every lost write of a status is paid for by a fault
  (a counting argument over the set of rows, with the lemmas of `DataLemmas`).
* `ForegroundProofs`.  `QueueInv` again, plus one invariant per request that says where its
  job can be for each state of its coroutine, and who knows the file for each state of its
  future.  From it `RequestsAreSettled`.
* `OwnershipProofs`, the locks, the slots and who is told.  *Guard:* `OwnerIsInside` is not inductive without
  the places *between* the two locks: who has grabbed or is leaving is in no hold
  (`BetweenLocks`), and only the outermost hold releases (`OutermostReleases`).  From it
  `GuardIsOwned`, and that the guard implements `Mutex`.  *Admission:* the counters are sums
  over the requests that hold a slot, so `AdmissionInv` carries the line that stands for them
  and what a broken release leaves behind; from it `AdmissionIsExact`, and that the counters
  are exact as long as no release was cut short.  *Tasks:* `DownloadIsOwned` needs that a task
  whose callback is late is over and that a loader which loads has the guard: two downloads
  of one model would otherwise take each other's entry.  `NoModelIsLost` needs no invariant:
  it is proved action by action.  *Progress:* an end that was reported is, for each client
  that is owed it, in its queue, among what was posted, or still ahead of the walk
  (`HearsEnd`); who leaves moves up whom the walk has not told yet, which is why that one
  counts as passed by.  With the order of queues and posts (`BoxesInOrder`, `PostedInOrder`:
  the thread's own end is behind everything it posted) this gives `EndIsHeard`.
  *Checkpoints:* `StoreInv` adds to `StoreIsBounded` what the running job relies on
  (`JobHolds`): its row says "generating" until it is completed, which is what keeps
  everybody else's collection away from its files; and there is no other file under the name
  it is about to write, so that replacing it takes nothing that was kept.  A request of one
  chunk has no files (`OnlyLong`): its completion collects nothing.  From it
  `CheckpointsServe`, the action property on every step and the bound of the store.
  *Resumption:* `FreshInv` says where the running job stands relative to one that was never
  interrupted: every intact file holds its own chunk (`FilesAreTrue`), what the job has joined
  so far is the fold of the results of the chunks it has passed (`IsSoFar`), and a completed
  row holds what `Fresh` yields.  Two facts about data carry it: audio appended to disk one
  result at a time is what `concatenate_audio_chunks` makes of all of them (`WholePasses`),
  and the recursion of `generate_one` ends, so that there is a function that satisfies its
  definition (`OneExists`, by induction over the retries left).  A fold is used as what it is,
  a chosen function: the lemmas show that one satisfies the equations and then pass through
  its values.  From it `ResumedEqualsFresh`, for every engine, request and seed.
* `LibraryProofs`.  *Library:* `LibraryInv` strengthens `LibraryIsWhole` by `OneOwner` (a file belongs
  to the versions of one generation or is the take of one generation: without it, hiding the
  predecessor of a retry could take a file from another generation) and `NewIds` (IDs at and
  above `next` are nowhere, so that a new version takes nobody's place).  A few lemmas say
  what making a version, making a take, dropping versions and moving the default do to the
  invariant; each handler is one of them.  From it `LibraryIsWhole` and
  `PinnedClipKeepsItsAudio`.  *Renders:* `RendersInv` relates a request's phase, its thread,
  directory and lease; a thread that has begun has a request that waits for it, which is why a
  directory is never swept under it.  From it `RendersAreOwned`.
  *Timeline:* `TimelineInv` says what every edit may rely on: a clip's cuts leave something of
  its generation's duration, unless that fell since, and a pinned version is there, because
  nobody deletes it and a new take has a new one.  Where a reorder
  lays the clips is a sum over those before; that these places follow one another is proved by
  induction over their number.  From it `EditsAreWhole` and `PlacesAreFree`.  It assumes that
  no take is longer than a clip may be (`Lengths \subseteq 1..ClipCap`): what is generated
  (`chunked_tts.py`) and what is imported (`audio_metadata.py`) stops at the same 24 hours.
  *Journal:* `RowsAndFilesAgree` speaks of rows, files and intents, but what makes it
  last is the operation that is under way; `JournalInv` says what that one covers.
  `NamesHold`: a hidden entry is under its own intent, and what a row owns only a deletion
  hides.  `DirectoriesHold`: one directory is public, and an intent keeps an owned
  directory alive.  `PublicationHolds` and `StagingHolds`: for every step of an upload and of
  a deletion, where its file is and which intent covers it; `DeletionHolds`: what an undo or a
  discard has still to settle is in view, and a discard owns nothing.  Faults are counted:
  `Faultless` (before the first one, what is hidden is on the worklist of whoever has the
  event loop) and `OneFault` (after one, a sample hidden below a hidden directory has its
  directory on that worklist, so that directories-first recovery reaches both) are what
  restricts the exception of `NoLostFile` to *two* spells of errors.  A lemma per way in
  which files and intents change (`Removed`, `Restored`, `Cleared`, `IntentRecorded`,
  `StagedMove`, `LeftByFault`) keeps the invariant's durable part, and each action is one of
  them.  From it `RowsAndFilesAgree`, `StartupSettles` (recovery ends with an
  empty journal, so one directory is left and all is public or gone), and the refinement of
  `ManagedLibrary`: a publication's commit publishes, a deletion's commit deletes one file or
  all, and everything else stutters, because it moves an entry between two names under
  which it would be restored or removes what nobody owns.
* `DiskProofs`, who has which bytes and files.  *Ledger:* a claim is admitted against a
  measurement that may be old; `LedgerInv` says that it was never too generous
  (`MeasureIsSafe`) and that what is outstanding on a volume fits beside it (`SpaceIsShared`).
  Both carry `owed`, what resizes that were not checked have added; a check that succeeds
  covers everything and sets it back.  From it `LedgerKeepsPromises`, for every caller; the
  stronger `ClaimsFit` is finding 5.
  *Captures:* one invariant per upload (`UploadInv`) lists, for each place its handler may be
  in, the files, intents and row there can be.  From it `RecordingsAccounted` and
  `RefinedFitsRaw`.  *Voices:* `SnapshotInv` follows a snapshot from its staging to the rows
  that name it while the collector reads the owners and deletes: from it `VoicesAreKept`.
  *Archives:* `ImportsInv` (a name is published by one import, complete) and `ExportsInv` (a
  workspace is cleared only after its lease's bytes are gone): from them `ImportsAreWhole`
  and `ExportsAreSound`.
  *Install:* `InstallInv` says, for every filesystem call that a recovery, a staging, a commit,
  a deletion or a cleanup has still to make, what the three directories and the journal may be
  (`Recovering`, `Copying`, `Committing`, `Removing`, `Unstaging`).  Its heart is `SparesHold`:
  what a recovery would find next is whole unless a deletion has torn it, so that a crash
  anywhere in a plan leaves something to go on from; a call that fails leads to a phase that
  expects what it finds.  From it `InstallIsWhole`.
* `SynthesisProofs`.  Three values of these modules are folds of a sequence (what is spoken of
  a text, the enabled effects of a chain, its segments); `FoldPasses` says which values a
  fold passes through, and everything else is about those.  *Text:* a strip and a cut leave
  what is spoken alone (`StripIs`, `SpokenConcat`), and every rule for a break, the hard cut
  before a tag included, gives a place inside the segment (`SplitAtIs`), so that a round
  takes at least one character and at most the limit: `SplitInv`, and `ChunksPartitionText`.
  *Render:* what a file holds at any time is a *slice*: frames so and so far into the source,
  gone through the effects so and so far along the chain (`Slice`, `Route`; `SegmentsAre`: the
  segments in order are the enabled effects).  `RenderInv` says which slice each file holds in
  each phase, half normalised included (`Halfway`), and `StageHolds` how far a stage has
  written when it has read `pos` frames (`PutAt`), which is what its own checks compare.
  Reading, writing, cross-fading and processing slices gives slices; that a pitch window
  reaches behind the seam and never keeps a frame shifted without its context (`PitchWrites`,
  `WindowIs`, `ShiftedIs`) needs a block and an overlap of at least one frame.  *Mix:* `Laying`
  says that each frame of the timeline lists, once each, what the clips before gave it whole
  and the current one up to `position`.  Rounding half a frame up before or after the division
  is the same (`LengthsAgree`), so a clip is as long as was probed, and what its trims leave
  fits the timeline (`PlacedWithin`).  From them `RendersAreExact` and `StagesAgree`.  They are
  theorems of `PipelineSpec`, the pipelines without the exact requests that the run takes
  beside them and that share no variable with them.
* `DataLemmas` holds what the others cite: induction over finite sets, which the library
  states for an operator parameter, here for a *set* of sets; sums of a function over a finite
  set; images of finite sets are finite; a finite set of numbers has a greatest element.

Only model-checked: liveness, because fairness is out of reach of the prover.  Every safety
property of a passing run is a theorem.

## 5. Not modelled

What each modelled part leaves out is in the component notes of `PROJECT.json`.

* Numeric code: inference, the effects' and the mixer's arithmetic on samples, loudness,
  cross-fades beyond which frames they blend.
* Input validation: archive inspection, request predicates, permission repair.  It accepts
  or refuses; a refusal is a choice in the models.
* Adapters to model libraries, the voice prompt cache (every operation is one critical section),
  settings, channels, effect presets, statistics (single rows that one transaction
  reads and writes without an await).
* ROCm installs: `services/rocm.py` is the CUDA service with other names; its storage calls
  are those of `BackendInstall`.
* The data-root lock, which is the assumption of one server behind every module; the MCP
  tools and speak events, which call what is modelled or are a simpler `ProgressStream`.
* The desktop shell and the web application, which are clients of the routes, and the
  documentation site, packaging and training scripts, which are not part of a running system.

Worth doing next: avatars in the journal; the timeline joined with the library's deletions.
