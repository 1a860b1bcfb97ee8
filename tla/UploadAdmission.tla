-------------------------- MODULE UploadAdmission --------------------------
(***************************************************************************)
(* Large requests: RequestBodyLimitMiddleware of backend/request_limits.py. *)
(* Uploads and MCP calls have slots of their own, counted under one lock;   *)
(* an upload also reserves disk space, in the ledger of DiskReservations.  The *)
(* lock is awaited to enter and, in a finally block, to leave, in the order *)
(* of asyncio.Lock; a refusal is sent while it is held.                     *)
(*                                                                         *)
(* Abstracted: the wire: a length is one of a few sizes, and a body that    *)
(* is longer than declared or than its limit breaks the request off.  What  *)
(* others write to the disk is DiskReservations.                            *)
(***************************************************************************)
EXTENDS Integers, Sequences, FiniteSets, SequencesExt

CONSTANTS Large,       \* requests that are large: uploads and MCP calls
          Mcp,         \* the MCP calls of them
          Declared,    \* the length a request declares, or Undeclared
          Undeclared,
          Limit,       \* the limit of a body, reserved when nothing is declared
          Slots,       \* max_concurrent_large_requests, max_concurrent_large_mcp_requests
          Disk         \* free bytes beyond the floor

ASSUME UploadAdmissionAssumption ==
    /\ IsFiniteSet(Large) /\ Mcp \subseteq Large /\ Limit \in Nat /\ Disk \in Nat /\ Undeclared \notin Nat
    /\ Declared \in [Large -> Nat \cup {Undeclared}]
    /\ Slots \in [{"upload", "mcp"} -> Nat \ {0}]

VARIABLES request,    \* each request: new, entering, refused (being told so), served, leaving, done
          lock,       \* who has the admission lock, or NoRequest
          line,       \* who waits for it
          active,     \* _active_large_requests, _active_large_mcp_requests
          spooled,   \* _reserved_temp_bytes
          ledger,     \* what each request holds in the ledger
          broken      \* requests cancelled while they waited for the lock to leave

admissionVars == <<request, lock, line, active, spooled, ledger, broken>>

NoRequest == "no request"
Kind(r) == IF r \in Mcp THEN "mcp" ELSE "upload"

(* An upload is spooled and copied. *)
Reservation(r) ==
    IF r \in Mcp THEN 0 ELSE 2 * (IF Declared[r] = Undeclared THEN Limit ELSE Declared[r])
Total(l) == SumFunctionOnSet(l, Large)

UploadAdmissionInit ==
    /\ request = [r \in Large |-> "new"] /\ lock = NoRequest /\ line = <<>>
    /\ active = [k \in {"upload", "mcp"} |-> 0] /\ spooled = 0
    /\ ledger = [r \in Large |-> 0] /\ broken = {}

Moves(r, from, to) == request[r] = from /\ request' = [request EXCEPT ![r] = to]

(* The lock goes to whoever has waited longest. *)
Waits(r) == line' = Append(line, r)
Turn(r) == lock = NoRequest /\ line # <<>> /\ Head(line) = r /\ line' = Tail(line)

(* Told 413 before anything is counted, or in the queue for the lock. *)
Receive(r) ==
    /\ \/ Moves(r, "new", "done") /\ Declared[r] # Undeclared /\ Declared[r] > Limit /\ UNCHANGED line
       \/ Moves(r, "new", "entering") /\ ~(Declared[r] # Undeclared /\ Declared[r] > Limit) /\ Waits(r)
    /\ UNCHANGED <<lock, active, spooled, ledger, broken>>

(* Faulty variant: the slot is taken before the disk is asked. *)
AdmitFirst(r) ==
    /\ Turn(r)
    /\ LET k == Kind(r)
           fits == Total(ledger) + Reservation(r) <= Disk
       IN  IF active[k] < Slots[k]
           THEN /\ Moves(r, "entering", IF fits THEN "served" ELSE "refused")
                /\ active' = [active EXCEPT ![k] = @ + 1] /\ spooled' = spooled + Reservation(r)
                /\ ledger' = IF fits THEN [ledger EXCEPT ![r] = Reservation(r)] ELSE ledger
                /\ lock' = IF fits THEN lock ELSE r
           ELSE Moves(r, "entering", "refused") /\ lock' = r /\ UNCHANGED <<active, spooled, ledger>>
    /\ UNCHANGED broken

(* The lock is free: a slot and the disk, or a refusal, sent under the lock.*)
Admit(r) ==
    /\ Turn(r)
    /\ LET k == Kind(r)
       IN  IF active[k] < Slots[k] /\ Total(ledger) + Reservation(r) <= Disk
           THEN /\ Moves(r, "entering", "served")
                /\ active' = [active EXCEPT ![k] = @ + 1] /\ spooled' = spooled + Reservation(r)
                /\ ledger' = [ledger EXCEPT ![r] = Reservation(r)] /\ UNCHANGED lock
           ELSE Moves(r, "entering", "refused") /\ lock' = r /\ UNCHANGED <<active, spooled, ledger>>
    /\ UNCHANGED broken

(* Faulty variant: a refusal returns without leaving the lock. *)
RefusedHolding(r) ==
    /\ Moves(r, "refused", "done")
    /\ UNCHANGED <<lock, line, active, spooled, ledger, broken>>

(* The refusal is sent, or its client gone. *)
Refused(r) ==
    /\ Moves(r, "refused", "done") /\ lock' = NoRequest
    /\ UNCHANGED <<line, active, spooled, ledger, broken>>

(* The application returns, raises, is cancelled, or is broken off by a     *)
(* body that is too long: the finally block.                                *)
Serve(r) == Moves(r, "served", "leaving") /\ Waits(r) /\ UNCHANGED <<lock, active, spooled, ledger, broken>>

ReleaseSlot(r) ==
    /\ Turn(r) /\ Moves(r, "leaving", "done")
    /\ active' = [active EXCEPT ![Kind(r)] = @ - 1] /\ spooled' = spooled - Reservation(r)
    /\ ledger' = [ledger EXCEPT ![r] = 0]
    /\ UNCHANGED <<lock, broken>>

(* A cancellation in the line: on the way in it costs nothing, on the way   *)
(* out the release is not made.                                             *)
Abort(r) ==
    /\ \E k \in DOMAIN line : line[k] = r /\ (lock # NoRequest \/ k # 1) /\ line' = RemoveAt(line, k)
    /\ request' = [request EXCEPT ![r] = "done"]
    /\ broken' = IF request[r] = "leaving" THEN broken \cup {r} ELSE broken
    /\ UNCHANGED <<lock, active, spooled, ledger>>

UploadAdmissionNext ==
    \E r \in Large : Receive(r) \/ Admit(r) \/ Refused(r) \/ Serve(r) \/ ReleaseSlot(r) \/ Abort(r)

UploadAdmissionFairness ==
    \A r \in Large : /\ WF_admissionVars(Refused(r)) /\ WF_admissionVars(Serve(r))
                     /\ WF_admissionVars(Admit(r) \/ ReleaseSlot(r))

-----------------------------------------------------------------------------
(* Properties. *)

(* The counters and the ledger are those of the requests being served; only *)
(* a cancellation inside the release itself leaves its share behind.  No    *)
(* more are served than there are slots and room.                           *)
AdmissionIsExact ==
    LET held == {r \in Large : request[r] \in {"served", "leaving"}} \cup broken
    IN  /\ \A k \in {"upload", "mcp"} :
               active[k] = Cardinality({r \in held : Kind(r) = k}) /\ active[k] <= Slots[k]
        /\ spooled = Total(ledger) /\ spooled <= Disk
        /\ \A r \in Large : ledger[r] = IF r \in held THEN Reservation(r) ELSE 0

(* Whoever asks is admitted or told, and whoever is served leaves. *)
EveryRequestLeaves == \A r \in Large : request[r] # "new" ~> request[r] = "done"

=============================================================================
