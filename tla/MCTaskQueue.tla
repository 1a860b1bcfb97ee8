----------------------------- MODULE MCTaskQueue -----------------------------
(* Work in the background: the queue of generations, and the downloads and  *)
(* migrations of models.  They share no state: a behaviour takes one.       *)
EXTENDS TaskQueue, ModelTasks, TLC

CONSTANTS a, b, c, d, big, small, d1, d2, j1

VARIABLE part

partVars == <<part, queueVars, modelTaskVars>>

(* Four caller IDs, singletons and two overlapping pairs, so that a pair    *)
(* can wait behind or collide with either of its members.                   *)
MCIds == {a, b, c, d}
MCJobs == {{i} : i \in MCIds} \cup {{a, b}, {b, c}}

(* Two downloads and a generation want the model that is not there yet.     *)
MCModelOf == [t \in {d1, d2, j1} |-> big]

MCInit ==
  /\ part \in {"queue", "models"}
  /\ QueueInit /\ ModelTasksInit /\ big \notin cached /\ big \notin remains
  /\ part = "queue" => cached = {} /\ remains = {}

MCNext ==
  /\ UNCHANGED part
  /\ \/ part = "queue" /\ QueueNext /\ UNCHANGED modelTaskVars
     \/ part = "models" /\ ModelTasksNext /\ UNCHANGED queueVars

MCSpec == MCInit /\ [][MCNext]_partVars /\ QueueFairness /\ ModelTasksFairness
=============================================================================
