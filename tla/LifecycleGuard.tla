---------------------------- MODULE LifecycleGuard ----------------------------
(***************************************************************************)
(* The accelerator's lifecycle guard, MLXTTSLifecycleGuard of              *)
(* backend/backends/mlx_tts_lifecycle.py: one threading.Lock, an owner     *)
(* behind a second lock, re-entry by owner identity, waiters that poll.    *)
(* Actors are asyncio tasks on any loop and plain threads, and run truly   *)
(* in parallel.  Each access to the owner is atomic (the state lock); the  *)
(* accesses of a claim or a release are not atomic together.               *)
(*                                                                         *)
(* Inside the guard an actor runs blocking work in an executor thread that *)
(* cannot be cancelled: run_blocking_operation_cancellation_safe drains it *)
(* before the actor goes on, cancelled or not.                             *)
(***************************************************************************)
EXTENDS Naturals

CONSTANTS
  Actors,       \* tasks and threads
  Nobody,       \* _owner is None
  MaxDepth      \* bound on nested holds

ASSUME NobodyAssumption == Nobody \notin Actors
ASSUME DepthAssumption == MaxDepth \in Nat \ {0}

VARIABLES
  locked,       \* _lock.locked()
  owner,        \* _owner
  pc,           \* where an actor is in hold, try_hold or _release
  depth,        \* how many holds it is inside of
  claims,       \* the depths whose hold has to release (releases_lock)
  working       \* its executor thread is running

guardVars == <<locked, owner, pc, depth, claims, working>>

GuardTypeOK ==
  /\ locked \in BOOLEAN
  /\ owner \in Actors \cup {Nobody}
  /\ pc \in [Actors -> {"free", "asking", "trying", "sleeping", "grabbed", "leaving"}]
  /\ depth \in [Actors -> 0..MaxDepth]
  /\ claims \in [Actors -> SUBSET (1..MaxDepth)]
  /\ \A a \in Actors : claims[a] \subseteq 1..depth[a]
  /\ working \in [Actors -> BOOLEAN]

GuardInit ==
  /\ locked = FALSE /\ owner = Nobody
  /\ pc = [a \in Actors |-> "free"]
  /\ depth = [a \in Actors |-> 0]
  /\ claims = [a \in Actors |-> {}]
  /\ working = [a \in Actors |-> FALSE]

Goto(a, where) == pc' = [pc EXCEPT ![a] = where]

-----------------------------------------------------------------------------
(* hold and try_hold, through _try_claim *)

Ask(a) ==
  /\ pc[a] = "free" /\ ~working[a] /\ depth[a] < MaxDepth
  /\ Goto(a, "asking")
  /\ UNCHANGED <<locked, owner, depth, claims, working>>

(* Faulty variant: an identity that no nested call shows again. *)
NobodysOwn(a) == FALSE

(* _owner == _execution_owner(), the task or the thread that asks. *)
IsOwner(a) == owner = a

(* The owner comes in again: claim is False, nothing to release. *)
Reenter(a) ==
  /\ pc[a] = "asking" /\ IsOwner(a)
  /\ Goto(a, "free")
  /\ depth' = [depth EXCEPT ![a] = @ + 1]
  /\ UNCHANGED <<locked, owner, claims, working>>

NotOwner(a) ==
  /\ pc[a] = "asking" /\ ~IsOwner(a)
  /\ Goto(a, "trying")
  /\ UNCHANGED <<locked, owner, depth, claims, working>>

(* Faulty variant: the result of acquire(blocking=False) is not looked at. *)
GrabAnyway(a) ==
  /\ pc[a] = "trying"
  /\ locked' = TRUE
  /\ Goto(a, "grabbed")
  /\ UNCHANGED <<owner, depth, claims, working>>

(* acquire(blocking=False) succeeds ... *)
Grab(a) ==
  /\ pc[a] = "trying" /\ ~locked
  /\ locked' = TRUE
  /\ Goto(a, "grabbed")
  /\ UNCHANGED <<owner, depth, claims, working>>

(* ... or not: hold sleeps and polls again, try_hold raises. *)
Busy(a) ==
  /\ pc[a] = "trying" /\ locked
  /\ \E where \in {"sleeping", "free"} : Goto(a, where)
  /\ UNCHANGED <<locked, owner, depth, claims, working>>

Poll(a) ==
  /\ pc[a] = "sleeping"
  /\ Goto(a, "asking")
  /\ UNCHANGED <<locked, owner, depth, claims, working>>

(* The waiter is cancelled. *)
Abandon(a) ==
  /\ pc[a] = "sleeping"
  /\ Goto(a, "free")
  /\ UNCHANGED <<locked, owner, depth, claims, working>>

Own(a) ==
  /\ pc[a] = "grabbed"
  /\ owner' = a
  /\ depth' = [depth EXCEPT ![a] = @ + 1]
  /\ claims' = [claims EXCEPT ![a] = @ \cup {depth[a] + 1}]
  /\ Goto(a, "free")
  /\ UNCHANGED <<locked, working>>

-----------------------------------------------------------------------------
(* Work in an executor thread, awaited by the actor. *)

Work(a) ==
  /\ pc[a] = "free" /\ depth[a] > 0 /\ ~working[a]
  /\ working' = [working EXCEPT ![a] = TRUE]
  /\ UNCHANGED <<locked, owner, pc, depth, claims>>

WorkEnds(a) ==
  /\ working[a]
  /\ working' = [working EXCEPT ![a] = FALSE]
  /\ UNCHANGED <<locked, owner, pc, depth, claims>>

-----------------------------------------------------------------------------
(* Leaving the innermost hold, normally or by an exception. *)

Innermost(a) == claims[a] \cap {depth[a]}

LeaveNested(a) ==
  /\ pc[a] = "free" /\ ~working[a] /\ depth[a] > 0 /\ Innermost(a) = {}
  /\ depth' = [depth EXCEPT ![a] = @ - 1]
  /\ UNCHANGED <<locked, owner, pc, claims, working>>

(* Faulty variant: a cancellation gets through before the thread has ended.*)
DisownUndrained(a) ==
  /\ pc[a] = "free" /\ depth[a] > 0 /\ Innermost(a) # {}
  /\ owner = a
  /\ owner' = Nobody
  /\ depth' = [depth EXCEPT ![a] = @ - 1]
  /\ claims' = [claims EXCEPT ![a] = @ \ {depth[a]}]
  /\ Goto(a, "leaving")
  /\ UNCHANGED <<locked, working>>

(* _release raises for a non-owner; otherwise it clears the owner ... *)
Disown(a) ==
  /\ pc[a] = "free" /\ ~working[a] /\ depth[a] > 0 /\ Innermost(a) # {}
  /\ owner = a
  /\ owner' = Nobody
  /\ depth' = [depth EXCEPT ![a] = @ - 1]
  /\ claims' = [claims EXCEPT ![a] = @ \ {depth[a]}]
  /\ Goto(a, "leaving")
  /\ UNCHANGED <<locked, working>>

(* ... and then the lock. *)
Unlock(a) ==
  /\ pc[a] = "leaving"
  /\ locked' = FALSE
  /\ Goto(a, "free")
  /\ UNCHANGED <<owner, depth, claims, working>>

-----------------------------------------------------------------------------
GuardNext ==
  \E a \in Actors :
    \/ Ask(a) \/ Reenter(a) \/ NotOwner(a) \/ Grab(a) \/ Busy(a)
    \/ Poll(a) \/ Abandon(a) \/ Own(a)
    \/ Work(a) \/ WorkEnds(a)
    \/ LeaveNested(a) \/ Disown(a) \/ Unlock(a)

GuardSpec == GuardInit /\ [][GuardNext]_guardVars

(* What the code's callers owe the guard: threads end, polls wake up, and  *)
(* the body of every hold comes to its end however often it works or nests.*)
GoesOn(a) ==
  \/ Reenter(a) \/ NotOwner(a) \/ Grab(a) \/ Busy(a) \/ Poll(a) \/ Own(a)
  \/ WorkEnds(a) \/ Unlock(a)

EndsHold(a, d) == depth[a] = d /\ (LeaveNested(a) \/ Disown(a))

GuardFairness ==
  \A a \in Actors : /\ WF_guardVars(GoesOn(a))
                    /\ \A d \in 1..MaxDepth : SF_guardVars(EndsHold(a, d))

-----------------------------------------------------------------------------
(* Properties. *)

Inside(a) == depth[a] > 0

(* Exclusion: one actor at a time is inside the guard. *)
OneInside == \A a, b \in Actors : Inside(a) /\ Inside(b) => a = b

(* Who is inside is known as the owner, at every interleaving of its       *)
(* claims and other actors' releases: a nested hold never takes its own    *)
(* outer hold for somebody else's and polls a lock it holds itself, and    *)
(* leaving never raises "released by a non-owner".                         *)
OwnerIsInside == \A a \in Actors : Inside(a) <=> owner = a

(* An executor thread never touches the accelerator outside its actor's    *)
(* ownership, however the actor is cancelled.                              *)
WorkIsOwned == \A a \in Actors : working[a] => owner = a

(* The owner field is right for both who asks and who works: it is whoever  *)
(* is inside, and no thread works outside its ownership.                    *)
GuardIsOwned == OwnerIsInside /\ WorkIsOwned

(* The lock is held only by somebody who is going to release it: neither a *)
(* cancelled waiter nor a refused try_hold leaves it behind.               *)
Holding(a) == Inside(a) \/ pc[a] \in {"grabbed", "leaving"}
LockHasHolder == locked <=> \E a \in Actors : Holding(a)

(* The guard, with its re-entry, polling and two-step release, is a mutex. *)
Guard == INSTANCE Mutex WITH
  holder <- IF \E a \in Actors : Holding(a)
              THEN CHOOSE a \in Actors : Holding(a) ELSE Nobody
ImplementsMutex == Guard!Spec

(* No deadlock with oneself: every claim of the lock comes to its release, *)
(* although lifecycle routes hold the guard around backend calls that hold *)
(* it again.                                                               *)
ComesFree == locked ~> ~locked
=============================================================================
