------------------------ MODULE MCForegroundGeneration ------------------------
(* A request that waits for audio: for a generation it has in the queue, or *)
(* for a file that a thread renders.  The two share no state: a behaviour   *)
(* takes one of them.                                                       *)
EXTENDS ForegroundGeneration, RenderJobs

CONSTANTS r1, r2, r3, p1, v1, e1, e2

VARIABLE part

partVars == <<part, vars, renderJobVars>>

(* Three requests at once and two places in the queue: one waits behind the *)
(* executing one and the queue can be full.                                 *)
MCJobs == {{i} : i \in Ids}

MCInit == part \in {"foreground", "renders"} /\ Init /\ RenderJobsInit

MCNext ==
  /\ UNCHANGED part
  /\ \/ part = "foreground" /\ Next /\ UNCHANGED renderJobVars
     \/ part = "renders" /\ RenderJobsNext /\ UNCHANGED vars

MCSpec == MCInit /\ [][MCNext]_partVars /\ RequestFairness /\ RenderJobsFairness
=============================================================================
