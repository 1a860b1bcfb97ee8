----------------------------- MODULE RenderJobs -----------------------------
(***************************************************************************)
(* Who renders audio, where, and for how long: the requests for previews,   *)
(* new versions and foreground speech (backend/services/                    *)
(* effects_processing.py) and for Story exports (backend/services/          *)
(* stories.py), from admission to the end of the response that streams the  *)
(* file (backend/utils/responses.py).                                       *)
(*                                                                         *)
(* A request holds its group's one slot while a worker thread renders into  *)
(* the request's private directory.  A thread cannot be cancelled: it is    *)
(* signalled and waited for.  What is rendered is RenderStages and StoryMix.*)
(*                                                                         *)
(* Abstracted: a directory is named by its request; the free-space ledger   *)
(* (DiskReservations) is the set of leases.                                 *)
(***************************************************************************)
EXTENDS Integers, FiniteSets

CONSTANTS Previews,      \* effects requests answered with the rendered file
          Renders,       \* effects requests that render into a file of their caller
          Exports,       \* Story exports
          MaxActive,     \* EFFECTS_MAX_ACTIVE_DIRECTORIES
          MaxTrouble,    \* bound: removals that fail
          MaxRestarts    \* bound

ASSUME RenderJobsAssumption ==
    /\ MaxActive \in Nat /\ IsFiniteSet(Previews \cup Renders \cup Exports)
    /\ Previews \cap Renders = {} /\ (Previews \cup Renders) \cap Exports = {}

VARIABLES call,      \* each request: new, rendering, draining, answering, gone
          thread,    \* its thread: none, begun, reserved, good, bad
          onDisk,    \* the directories there are
          inUse,     \* _active_effects_directories, _active_story_export_directories
          lease,     \* the requests whose disk space is reserved
          earlier,   \* the requests of processes that are gone
          boot,      \* startup has still to clean
          trouble, restarts

renderJobVars == <<call, thread, onDisk, inUse, lease, earlier, boot, trouble, restarts>>

Requests == Previews \cup Renders \cup Exports
Group(r) == IF r \in Exports THEN Exports ELSE Previews \cup Renders

(* _hold_effects_processing, _story_export_lock *)
RendersHeld == {r \in Requests : call[r] \in {"rendering", "draining"}}
GroupFree(r) == RendersHeld \cap Group(r) = {}

Working(r) == thread[r] \in {"begun", "reserved"}

RenderJobsInit ==
    /\ call = [r \in Requests |-> "new"]
    /\ thread = [r \in Requests |-> "none"]
    /\ onDisk = {} /\ inUse = {} /\ lease = {} /\ earlier = {}
    /\ boot = FALSE /\ trouble = 0 /\ restarts = 0

-----------------------------------------------------------------------------
(* Directories.                                                             *)

(* Faulty variant: every directory of the group is stale. *)
StaleAll(G) == onDisk \cap G

(* What a sweep takes for the remains of an earlier process. *)
Stale(G) == (onDisk \cap G) \ inUse

(* A sweep removes what it can; a Story's lease goes with its directory.    *)
Sweep(G, stuck) ==
    /\ stuck \subseteq Stale(G)
    /\ trouble + Cardinality(stuck) <= MaxTrouble
    /\ trouble' = trouble + Cardinality(stuck)

AfterSweep(G, stuck) == onDisk \ (Stale(G) \ stuck)
LeasesAfterSweep(G, stuck) == lease \ (IF G = Exports THEN Stale(G) \ stuck ELSE {})

(* _cleanup_effects_directory, _cleanup_story_export: the directory is not  *)
(* active any more, whether it can be removed or not.                       *)
Cleanup(r) ==
    /\ inUse' = inUse \ {r}
    /\ \/ /\ onDisk' = onDisk \ {r}
          /\ lease' = lease \ {r}
          /\ UNCHANGED trouble
       \/ /\ trouble < MaxTrouble /\ trouble' = trouble + 1
          /\ UNCHANGED <<onDisk, lease>>

-----------------------------------------------------------------------------
(* Requests.                                                                *)

(* The slot is busy, or too many responses are still being sent: at once    *)
(* refused.  Either the directories have been swept first or not.           *)
Refuse(r) ==
    /\ ~boot /\ call[r] = "new"
    /\ call' = [call EXCEPT ![r] = "gone"]
    /\ \/ ~GroupFree(r) /\ UNCHANGED <<onDisk, lease, trouble>>
       \/ /\ GroupFree(r) /\ r \notin Exports
          /\ Cardinality(inUse \cap Group(r)) >= MaxActive
          /\ \E stuck \in SUBSET Stale(Group(r)) :
                Sweep(Group(r), stuck) /\ onDisk' = AfterSweep(Group(r), stuck)
          /\ UNCHANGED lease
    /\ UNCHANGED <<thread, inUse, earlier, boot, restarts>>

(* _allocate_effects_directory, _allocate_story_export_directory, and the   *)
(* thread is started.                                                       *)
AdmitRender(r) ==
    /\ ~boot /\ call[r] = "new" /\ GroupFree(r)
    /\ r \in Exports \/ Cardinality(inUse \cap Group(r)) < MaxActive
    /\ \E stuck \in SUBSET Stale(Group(r)) :
          /\ Sweep(Group(r), stuck)
          /\ onDisk' = AfterSweep(Group(r), stuck) \cup {r}
          /\ lease' = LeasesAfterSweep(Group(r), stuck)
    /\ inUse' = inUse \cup {r}
    /\ call' = [call EXCEPT ![r] = "rendering"]
    /\ thread' = [thread EXCEPT ![r] = "begun"]
    /\ UNCHANGED <<earlier, boot, restarts>>

(* The worker reserves space for what it is about to write. *)
Reserve(r) ==
    /\ thread[r] = "begun"
    /\ thread' = [thread EXCEPT ![r] = "reserved"]
    /\ lease' = lease \cup {r}
    /\ UNCHANGED <<call, onDisk, inUse, earlier, boot, trouble, restarts>>

(* It ends: done, in an error, or because it saw the event.  An effects     *)
(* worker gives its leases back itself.                                     *)
ThreadEnds(r, how) ==
    /\ thread' = [thread EXCEPT ![r] = how]
    /\ lease' = IF r \in Exports THEN lease ELSE lease \ {r}
    /\ UNCHANGED <<call, onDisk, inUse, earlier, boot, trouble, restarts>>
FinishThread(r) == thread[r] = "reserved" /\ ThreadEnds(r, "good")
GiveUp(r) == Working(r) /\ ThreadEnds(r, "bad")

(* The coroutine goes on when the thread has ended.  Who answers with the   *)
(* file hands its directory to the response; the others clean up here.      *)
LeaveAs(r, to) == call' = [call EXCEPT ![r] = to] /\ UNCHANGED <<thread, earlier, boot, restarts>>

Answer(r) ==
    /\ call[r] = "rendering" /\ thread[r] = "good" /\ r \notin Renders
    /\ LeaveAs(r, "answering")
    /\ UNCHANGED <<onDisk, inUse, lease, trouble>>

(* Faulty variant: nobody comes back for a thread that is waited for. *)
EndInTime(r) ==
    /\ call[r] = "rendering" /\ (thread[r] = "bad" \/ (thread[r] = "good" /\ r \in Renders))
    /\ LeaveAs(r, "gone") /\ Cleanup(r)

EndRender(r) ==
    /\ \/ call[r] = "rendering" /\ (thread[r] = "bad" \/ (thread[r] = "good" /\ r \in Renders))
       \/ call[r] = "draining" /\ ~Working(r)
    /\ LeaveAs(r, "gone") /\ Cleanup(r)

(* CancelledError at the await of the thread, even if it has ended by now.  *)
(* The thread looks at the event between blocks and may end without having  *)
(* seen it: _run_worker_cancellation_safe,                                  *)
(* _run_export_worker_cancellation_safe.                                    *)
CancelRender(r) ==
    /\ call[r] = "rendering"
    /\ call' = [call EXCEPT ![r] = "draining"]
    /\ UNCHANGED <<thread, onDisk, inUse, lease, earlier, boot, trouble, restarts>>

(* CleanupFileResponse: sent, or the client has gone; once.                 *)
Sent(r) == call[r] = "answering" /\ LeaveAs(r, "gone") /\ Cleanup(r)

(* The process dies; the next one knows no leases and nothing active.       *)
Die ==
    /\ restarts < MaxRestarts /\ restarts' = restarts + 1
    /\ earlier' = {r \in Requests : call[r] # "new"}
    /\ call' = [r \in Requests |-> IF call[r] = "new" THEN "new" ELSE "gone"]
    /\ thread' = [r \in Requests |-> "none"]
    /\ inUse' = {} /\ lease' = {} /\ boot' = TRUE
    /\ UNCHANGED <<onDisk, trouble>>

(* cleanup_abandoned_effects_processing and                                 *)
(* cleanup_abandoned_story_audio_exports at startup.                        *)
Clean ==
    /\ boot /\ boot' = FALSE
    /\ \E stuck \in SUBSET Stale(Requests) :
          Sweep(Requests, stuck) /\ onDisk' = AfterSweep(Requests, stuck)
    /\ UNCHANGED <<call, thread, inUse, lease, earlier, restarts>>

Threads(r) == Reserve(r) \/ FinishThread(r) \/ GiveUp(r)
Handlers(r) == Answer(r) \/ EndRender(r) \/ Sent(r)

RenderJobsNext ==
    \/ \E r \in Requests : Refuse(r) \/ AdmitRender(r) \/ Threads(r) \/ Handlers(r) \/ CancelRender(r)
    \/ Die \/ Clean

RenderJobsSpec == RenderJobsInit /\ [][RenderJobsNext]_renderJobVars

(* A thread comes to an end, the loop runs what is ready, and every         *)
(* response is sent or broken off.                                          *)
RenderJobsFairness ==
    /\ \A r \in Requests : /\ WF_renderJobVars(Threads(r)) /\ WF_renderJobVars(Handlers(r))
    /\ WF_renderJobVars(Clean)

-----------------------------------------------------------------------------
(* Properties. *)

(* A directory in use is nobody's prey: the file a response is streaming    *)
(* and the files a thread writes are there until they are done with, while  *)
(* other requests sweep the same root; a group has one thread at a time,    *)
(* the drained ones included; and when all is quiet, only directories that  *)
(* could not be removed are left.                                           *)
ScratchIsOwned ==
    /\ \A r \in Requests : (call[r] = "answering" \/ Working(r)) => r \in onDisk \cap inUse
    /\ \A r, s \in Requests : (Working(r) /\ Working(s) /\ Group(r) = Group(s)) => r = s
    /\ RendersHeld = {} /\ inUse = {} /\ ~boot => Cardinality(onDisk) <= trouble

(* A Story's disk space stays reserved for as long as its directory may     *)
(* hold the bytes, whoever removes it in the end, and no longer.            *)
LeaseFollowsBytes ==
    /\ lease \cap Exports \subseteq onDisk
    /\ \A r \in Exports \ earlier : (r \in onDisk /\ thread[r] = "good") => r \in lease
    /\ \A r \in Requests \ Exports : r \in lease => Working(r)

(* A request that was admitted ends, and its slot is free again.            *)
SlotComesFree == \A r \in Requests : call[r] = "rendering" ~> call[r] \in {"answering", "gone"}

(* Nothing a request renders into is taken from it or left behind it, and   *)
(* the disk space it reserved is given back exactly when its bytes go,      *)
(* through cancellations, failed removals, sweeps and restarts.             *)
RendersAreOwned == ScratchIsOwned /\ LeaseFollowsBytes

=============================================================================
