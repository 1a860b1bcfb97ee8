--------------------------- MODULE SerialExecutor ---------------------------
(***************************************************************************)
(* What the generation queue promises (backend/services/task_queue.py:1-4, *)
(* "only one TTS inference runs at a time"): jobs wait in order, at most   *)
(* one executes, an ID belongs to one job at a time, a waiting job can be  *)
(* dropped and then never executes, and closing abandons what waits.       *)
(***************************************************************************)
EXTENDS Naturals, Sequences

CONSTANTS Jobs, MaxQueued

VARIABLES
  open,       \* new jobs are accepted
  waiting,    \* the jobs not started yet, in order, with their drop marks
  executing   \* the job being executed, {} when there is none

vars == <<open, waiting, executing>>

HeldIds == executing \cup UNION {waiting[k].ids : k \in DOMAIN waiting}

Init == open = TRUE /\ waiting = <<>> /\ executing = {}

Submit(ids) ==
  /\ open /\ Len(waiting) < MaxQueued
  /\ ids \cap HeldIds = {}
  /\ waiting' = Append(waiting, [ids |-> ids, dropped |-> FALSE])
  /\ UNCHANGED <<open, executing>>

Drop(k) ==
  /\ ~waiting[k].dropped
  /\ waiting' = [waiting EXCEPT ![k].dropped = TRUE]
  /\ UNCHANGED <<open, executing>>

Begin ==
  /\ executing = {} /\ waiting # <<>> /\ ~Head(waiting).dropped
  /\ executing' = Head(waiting).ids
  /\ waiting' = Tail(waiting)
  /\ UNCHANGED open

Discard ==
  /\ executing = {} /\ waiting # <<>> /\ Head(waiting).dropped
  /\ waiting' = Tail(waiting)
  /\ UNCHANGED <<open, executing>>

End ==
  /\ executing # {}
  /\ executing' = {}
  /\ UNCHANGED <<open, waiting>>

Close ==
  /\ open
  /\ open' = FALSE
  /\ UNCHANGED <<waiting, executing>>

(* A closed executor may abandon what waits, but not what executes... *)
Abandon ==
  /\ ~open /\ executing = {}
  /\ waiting' = <<>>
  /\ UNCHANGED <<open, executing>>

(* ... and the death of the process loses both. *)
Lose ==
  /\ open' = FALSE /\ waiting' = <<>> /\ executing' = {}

Reopen ==
  /\ ~open /\ waiting = <<>> /\ executing = {}
  /\ open' = TRUE
  /\ UNCHANGED <<waiting, executing>>

Next ==
  \/ \E ids \in Jobs : Submit(ids)
  \/ \E k \in DOMAIN waiting : Drop(k)
  \/ Begin \/ Discard \/ End
  \/ Close \/ Abandon \/ Lose \/ Reopen

Spec == Init /\ [][Next]_vars
=============================================================================
