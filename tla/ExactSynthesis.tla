--------------------------- MODULE ExactSynthesis ---------------------------
(***************************************************************************)
(* Exact requests and their checkpoints: run_generation with a checkpoint   *)
(* session (backend/services/generation.py), the store of                   *)
(* backend/services/exact_chunk_checkpoints.py, and everybody who collects   *)
(* from it.  A long synthesis keeps every logical chunk it has finished on  *)
(* disk; a later attempt at the same request takes them from there.         *)
(*                                                                         *)
(* The store runs on the event loop, so its operations are atomic towards   *)
(* handlers; towards a crash they are not, and the steps of a save are      *)
(* apart.  The serial queue runs one job at a time (TaskQueue).             *)
(*                                                                         *)
(* Abstracted: a request is its hash; sizes are numbers of files.           *)
(***************************************************************************)
EXTENDS LongForm, FiniteSets, FiniteSetsExt

CONSTANTS Attempts,    \* the rows of exact requests
          RequestOf,   \* the request of each: [words, seed]
          Paired,      \* the attempts that were submitted in a batch of two
          MaxFiles,    \* max_store_bytes
          MaxCrashes,  \* bound
          MaxFaults    \* bound: entries that rot or do not belong here

ASSUME AttemptsAssumption == Paired \subseteq Attempts /\ MaxFiles \in Nat

(* No text is empty and no seed is negative (GenerationRequest).            *)
ASSUME RequestsAssumption ==
    \A a \in Attempts : RequestOf[a].words \in Seq(Words) \ {<<>>} /\ RequestOf[a].seed \in Nat

VARIABLES engine,   \* the model
          row,      \* each attempt's status
          heard,    \* the audio of its row: its frames, and whether they are synced
          checkpoints, \* the entries of the checkpoint store
          strange,  \* requests whose directory holds something that is no checkpoint
          work,     \* the running job's attempt, and where it is
          uncollected,   \* requests whose last owner went and nothing collected them (ghost)
          server,   \* "up", or which part of startup runs
          crashes, faults

vars == <<engine, row, heard, checkpoints, strange, work, uncollected, server, crashes, faults>>

Requests == {RequestOf[a] : a \in Attempts}
NoAudio == [frames |-> <<>>, synced |-> TRUE]
Idle == [at |-> "idle"]

(* An entry: whose it is (the key), its kind, what it holds, whether it     *)
(* reads back as it was written, whether its name is on disk for good, and  *)
(* the unique part of a temporary name.                                     *)
Key(request, i) == [request |-> request, index |-> i, words |-> Chunks(request)[i], seed |-> ChunkSeed(request, i)]
Entry(key, kind, audio) ==
    [key |-> key, kind |-> kind, audio |-> audio, intact |-> TRUE, durable |-> FALSE,
     tag |-> IF kind = "temp" THEN crashes ELSE 0]
Named(key) == {f \in checkpoints : f.key = key /\ f.kind = "final"}

(* What passes the checks of header, size, digest and samples. *)
Intact(key) == {f \in Named(key) : f.intact}
Discarded(key) == checkpoints \ Named(key)

Init ==
    /\ engine \in Engines
    /\ row = [a \in Attempts |-> "none"]
    /\ heard = [a \in Attempts |-> NoAudio]
    /\ checkpoints = {} /\ strange = {} /\ work = Idle /\ uncollected = {}
    /\ server = "up" /\ crashes = 0 /\ faults = 0

-----------------------------------------------------------------------------
(* garbage_collect_exact_chunk_checkpoints.  A row that is not completed    *)
(* may be resumed and owns its request's files.                             *)

(* Faulty variant: only a row that is being worked on owns anything. *)
OwnedByWork(rows) == {RequestOf[a] : a \in {b \in Attempts : rows[b] \in {"queued", "generating"}}}

Owned(rows) == {RequestOf[a] : a \in {b \in Attempts : rows[b] \notin {"none", "deleted", "completed"}}}

Offered(S) == {RequestOf[a] : a \in S}

(* remove_request leaves a directory alone that holds anything unexpected.  *)
Collected(candidates, rows) ==
    {f \in checkpoints : f.key.request \in candidates \ (Owned(rows) \cup strange)}

(* The collection for the requests of rows that have just left.  It is best *)
(* effort: what it misses stays until it is a candidate again.              *)
Collect(candidates, rows) ==
    \/ /\ checkpoints' = checkpoints \ Collected(candidates, rows)
       /\ uncollected' = (uncollected \ candidates) \cup ((candidates \cap strange) \ Owned(rows))
    \/ checkpoints' = checkpoints /\ uncollected' = uncollected \cup (candidates \ Owned(rows))

-----------------------------------------------------------------------------
(* The routes.                                                              *)

Submit(a) ==
    /\ server = "up" /\ row[a] = "none"
    /\ row' = [row EXCEPT ![a] = "queued"]
    /\ UNCHANGED <<engine, heard, checkpoints, strange, work, uncollected, server, crashes, faults>>

CancelQueued(a) ==
    /\ server = "up" /\ row[a] = "queued"
    /\ row' = [row EXCEPT ![a] = "failed"]
    /\ UNCHANGED <<engine, heard, checkpoints, strange, work, uncollected, server, crashes, faults>>

(* delete_generation and delete_failed_generations (history.py): the rows   *)
(* are deleted, then the requests of all of them are offered for collection.*)
DeleteRows(S) ==
    LET rows == [a \in Attempts |-> IF a \in S THEN "deleted" ELSE row[a]] IN
    /\ server = "up" /\ S # {}
    /\ row' = rows
    /\ heard' = [a \in Attempts |-> IF a \in S THEN NoAudio ELSE heard[a]]
    /\ Collect(Offered(S), rows)
    /\ UNCHANGED <<engine, strange, work, server, crashes, faults>>

DeleteOne(a) == row[a] \in {"completed", "failed"} /\ DeleteRows({a})
ClearFailed == DeleteRows({a \in Attempts : row[a] = "failed"})

-----------------------------------------------------------------------------
(* One job, chunk by chunk.                                                 *)

JobIs(at) == server = "up" /\ work.at = at
Request == RequestOf[work.of]
Here == Key(Request, work.chunk)
ToJob(at) == work' = [work EXCEPT !.at = at]

Start(a) ==
    /\ JobIs("idle") /\ row[a] = "queued" /\ a \notin Paired
    /\ row' = [row EXCEPT ![a] = "generating"]
    /\ work' = [at |-> "load", of |-> a, chunk |-> 1, held |-> <<>>, sofar |-> Voiced(<<>>)]
    /\ UNCHANGED <<engine, heard, checkpoints, strange, uncollected, server, crashes, faults>>

JobFails ==
    /\ row' = [row EXCEPT ![work.of] = "failed"]
    /\ work' = Idle
    /\ UNCHANGED <<engine, heard, strange, uncollected, server, crashes, faults>>

(* The task is cancelled at an await: while the engine works, or when the   *)
(* finished audio is saved.                                                 *)
Cancelled == server = "up" /\ work.at \in {"infer", "publish"} /\ JobFails /\ UNCHANGED checkpoints

OneChunk == Len(Chunks(Request)) = 1

(* Faulty variant: whatever lies under the key is used. *)
LoadUnchecked ==
    /\ JobIs("load")
    /\ IF Named(Here) # {} /\ ~OneChunk
       THEN work' = [work EXCEPT !.held = (CHOOSE f \in Named(Here) : TRUE).audio, !.at = "append"]
       ELSE ToJob("infer")
    /\ UNCHANGED <<engine, row, heard, checkpoints, strange, uncollected, server, crashes, faults>>

(* A checkpoint is used after its header, size and digest have been checked;*)
(* what fails a check is removed.  A request of one chunk has no session.   *)
LoadCheckpoint ==
    /\ JobIs("load")
    /\ IF Intact(Here) # {} /\ ~OneChunk
       THEN /\ work' = [work EXCEPT !.held = (CHOOSE f \in Intact(Here) : TRUE).audio, !.at = "append"]
            /\ UNCHANGED checkpoints
       ELSE /\ ToJob("infer")
            /\ checkpoints' = IF OneChunk THEN checkpoints ELSE Discarded(Here)
    /\ UNCHANGED <<engine, row, heard, strange, uncollected, server, crashes, faults>>

Infer ==
    /\ JobIs("infer")
    /\ LET result == Chunk(engine, Request, work.chunk) IN
       IF result.ok
       THEN /\ work' = [work EXCEPT !.held = result.audio, !.at = IF OneChunk THEN "append" ELSE "save"]
            /\ UNCHANGED <<engine, row, heard, checkpoints, strange, uncollected, server, crashes, faults>>
       ELSE JobFails /\ UNCHANGED checkpoints

(* _require_store_capacity counts the bytes of every entry, whatever it is. *)
HasCapacity == Cardinality(checkpoints) < MaxFiles

(* The temporary file is written; or there is no room, something strange is *)
(* a link or no plain file, or the disk fails, which fails the job.         *)
Save ==
    /\ JobIs("save")
    /\ \/ /\ HasCapacity
          /\ checkpoints' = checkpoints \cup {Entry(Here, "temp", work.held)}
          /\ ToJob("replace")
          /\ UNCHANGED <<engine, row, heard, strange, uncollected, server, crashes, faults>>
       \/ JobFails /\ UNCHANGED checkpoints

TempFile == Entry(Here, "temp", work.held)
Replaced == Entry(Here, "final", work.held)

(* os.replace; an error removes the temporary file again. *)
ReplaceFile ==
    /\ JobIs("replace")
    /\ \/ /\ checkpoints' = (checkpoints \ ({TempFile} \cup Named(Here))) \cup {Replaced}
          /\ ToJob("fsync")
          /\ UNCHANGED <<engine, row, heard, strange, uncollected, server, crashes, faults>>
       \/ JobFails /\ checkpoints' = checkpoints \ {TempFile}

FsyncDirectory ==
    /\ JobIs("fsync")
    /\ \/ /\ checkpoints' = (checkpoints \ {Replaced}) \cup {[Replaced EXCEPT !.durable = TRUE]}
          /\ ToJob("append")
          /\ UNCHANGED <<engine, row, heard, strange, uncollected, server, crashes, faults>>
       \/ JobFails /\ UNCHANGED checkpoints

AppendChunk ==
    /\ JobIs("append")
    /\ LET sofar == Accumulated(work.sofar, Voiced(work.held)) IN
       IF ~sofar.ok THEN JobFails /\ UNCHANGED checkpoints
       ELSE /\ work' = [work EXCEPT !.sofar = sofar, !.held = <<>>,
                         !.chunk = IF @ = Len(Chunks(Request)) THEN @ ELSE @ + 1,
                         !.at = IF work.chunk = Len(Chunks(Request)) THEN "publish" ELSE "load"]
            /\ UNCHANGED <<engine, row, heard, checkpoints, strange, uncollected, server, crashes, faults>>

(* _save_generate: the WAV is in place (Library has the rest of it). *)
PublishAudio ==
    /\ JobIs("publish")
    /\ \/ /\ heard' = [heard EXCEPT ![work.of] = [frames |-> work.sofar.audio, synced |-> FALSE]]
          /\ ToJob("sync")
          /\ UNCHANGED <<engine, row, checkpoints, strange, uncollected, server, crashes, faults>>
       \/ JobFails /\ UNCHANGED checkpoints

(* _durably_sync_exact_generation_audio *)
SyncAudio ==
    /\ JobIs("sync")
    /\ \/ /\ heard' = [heard EXCEPT ![work.of].synced = TRUE]
          /\ ToJob("complete")
          /\ UNCHANGED <<engine, row, checkpoints, strange, uncollected, server, crashes, faults>>
       \/ JobFails /\ UNCHANGED checkpoints

Complete ==
    /\ JobIs("complete")
    /\ row' = [row EXCEPT ![work.of] = "completed"]
    /\ IF OneChunk THEN work' = Idle ELSE ToJob("collect")
    /\ UNCHANGED <<engine, heard, checkpoints, strange, uncollected, server, crashes, faults>>

(* ExactChunkCheckpointSession.complete *)
CollectOwn ==
    /\ JobIs("collect")
    /\ Collect({Request}, row)
    /\ work' = Idle
    /\ UNCHANGED <<engine, row, heard, strange, server, crashes, faults>>

(* Two texts in one inference, without checkpoints: each of the rows ends   *)
(* by itself, and none of them collects.                                    *)
RunPaired(a) ==
    /\ JobIs("idle") /\ row[a] = "queued" /\ a \in Paired
    /\ LET result == InBatch(engine, RequestOf[a]) IN
       \/ /\ result.ok
          /\ row' = [row EXCEPT ![a] = "completed"]
          /\ heard' = [heard EXCEPT ![a] = [frames |-> result.audio, synced |-> TRUE]]
          /\ uncollected' = uncollected \cup ({RequestOf[a]} \ Owned(row'))
       \/ row' = [row EXCEPT ![a] = "failed"] /\ UNCHANGED <<heard, uncollected>>
    /\ UNCHANGED <<engine, checkpoints, strange, work, server, crashes, faults>>

-----------------------------------------------------------------------------
(* A crash loses what no fsync has pinned down: a file renamed but not      *)
(* synced is there under either name, or gone; an unsynced WAV may be gone. *)
Settled(f) == IF f.durable THEN {{f}} ELSE {{f}, {[f EXCEPT !.kind = "temp", !.tag = crashes]}, {}}
Survivors == {UNION {choice[f] : f \in checkpoints} :
                 choice \in {c \in [checkpoints -> SUBSET UNION {UNION Settled(f) : f \in checkpoints}] :
                                \A f \in checkpoints : c[f] \in Settled(f)}}

Crash ==
    /\ crashes < MaxCrashes /\ server = "up"
    /\ checkpoints' \in Survivors
    /\ \E lost \in SUBSET {a \in Attempts : ~heard[a].synced} :
          heard' = [a \in Attempts |-> IF a \in lost THEN NoAudio ELSE [heard[a] EXCEPT !.synced = TRUE]]
    /\ work' = Idle /\ server' = "reconcile" /\ crashes' = crashes + 1
    /\ UNCHANGED <<engine, row, strange, uncollected, faults>>

(* Startup: _reconcile_stale_generations, then                              *)
(* _prune_abandoned_exact_checkpoints, which may not get everything done.   *)
Reconcile ==
    /\ server = "reconcile"
    /\ row' = [a \in Attempts |-> IF row[a] \in {"queued", "generating"} THEN "failed" ELSE row[a]]
    /\ server' = "prune"
    /\ UNCHANGED <<engine, heard, checkpoints, strange, work, uncollected, crashes, faults>>

PruneTemporary ==
    /\ server = "prune"
    /\ \/ checkpoints' = {f \in checkpoints : f.kind = "final"}
       \/ checkpoints' = checkpoints
    /\ server' = "collect"
    /\ UNCHANGED <<engine, row, heard, strange, work, uncollected, crashes, faults>>

Stored == {f.key.request : f \in checkpoints}  \* request_hashes

(* One unknown entry stops the scan before anything is removed.             *)
CollectAll ==
    /\ server = "collect"
    /\ \/ strange = {} /\ checkpoints' = checkpoints \ Collected(Stored, row) /\ uncollected' = {}
       \/ checkpoints' = checkpoints /\ uncollected' = Stored \ Owned(row)
    /\ server' = "up"
    /\ UNCHANGED <<engine, row, heard, strange, work, crashes, faults>>

(* A disk error in a checkpoint; an entry somebody else puts there or takes *)
(* away again.                                                              *)
Rot(f) ==
    /\ faults < MaxFaults /\ f.durable /\ f.intact
    /\ checkpoints' = (checkpoints \ {f}) \cup {[f EXCEPT !.intact = FALSE, !.audio = <<>>]}
    /\ faults' = faults + 1
    /\ UNCHANGED <<engine, row, heard, strange, work, uncollected, server, crashes>>

Stray(r) ==
    /\ faults < MaxFaults /\ faults' = faults + 1
    /\ strange' = IF r \in strange THEN strange \ {r} ELSE strange \cup {r}
    /\ UNCHANGED <<engine, row, heard, checkpoints, work, uncollected, server, crashes>>

Next ==
    \/ \E a \in Attempts : Submit(a) \/ CancelQueued(a) \/ DeleteOne(a) \/ Start(a) \/ RunPaired(a)
    \/ ClearFailed \/ Cancelled \/ LoadCheckpoint \/ Infer \/ Save \/ ReplaceFile \/ FsyncDirectory \/ AppendChunk
    \/ PublishAudio \/ SyncAudio \/ Complete \/ CollectOwn
    \/ Crash \/ Reconcile \/ PruneTemporary \/ CollectAll
    \/ \E f \in checkpoints : Rot(f)
    \/ \E r \in Requests : Stray(r)

Spec == Init /\ [][Next]_vars

-----------------------------------------------------------------------------
(* Properties. *)

(* A completed attempt sounds as if it had been synthesised in one go,      *)
(* however often it was interrupted, whatever of the cache rotted and       *)
(* whoever shares it, and a crash does not take its audio.                  *)
ResumedEqualsFresh ==
    \A a \in Attempts \ Paired :
        row[a] = "completed" => [ok |-> TRUE, audio |-> heard[a].frames] = Fresh(engine, RequestOf[a])

(* A row that has not been completed may be tried again. *)
Resumable(request) == \E a \in Attempts : RequestOf[a] = request /\ row[a] \in {"queued", "generating", "failed"}

(* A finished chunk, once synced, stays for as long as a row may still be   *)
(* resumed, and is not synthesised a second time.                           *)
WorkIsKept ==
    [][/\ \A f \in checkpoints : (f.kind = "final" /\ f.intact /\ f.durable /\ f \notin checkpoints') =>
              \/ ~Resumable(f.key.request)'
              \/ \E g \in checkpoints' : g.key = f.key /\ ~g.intact
       /\ (work.at = "load" /\ work'.at = "infer" /\ ~OneChunk) => Intact(Here) = {}]_vars

(* The store never outgrows its quota, and what it holds belongs to a row   *)
(* that may be resumed: the collections leave nothing behind but what they  *)
(* were prevented from taking.                                              *)
StoreIsBounded ==
    /\ Cardinality(checkpoints) <= MaxFiles
    /\ server = "up" =>
          \A f \in checkpoints : \/ Resumable(f.key.request) \/ f.key.request \in uncollected
                                 \/ JobIs("collect") /\ f.key.request = Request

(* The cache is worth its bytes: it keeps what may be needed, within its    *)
(* quota, and nothing else.                                                 *)
CheckpointsServe == WorkIsKept /\ []StoreIsBounded

=============================================================================
