--------------------------- MODULE ProgressStream ---------------------------
(***************************************************************************)
(* How the progress of one model reaches its subscribers:                   *)
(* ProgressManager of backend/utils/progress.py.  The loop announces a      *)
(* download; a thread reports its steps and its end by walking the list of  *)
(* listeners, without a lock, and posting to the loop; the loop puts what   *)
(* was posted into bounded queues, from which slow clients read.            *)
(*                                                                         *)
(* Abstracted: heartbeats; percentages; that a download's task ends when    *)
(* the loop runs what the thread posted last (asyncio.to_thread).           *)
(***************************************************************************)
EXTENDS Integers, Sequences, SequencesExt

CONSTANTS Clients,
          Room,        \* the size of a listener's queue
          MaxRuns,     \* bound: downloads, one after the other
          MaxSteps     \* bound: steps a download reports

ASSUME ProgressStreamAssumption ==
    Room \in Nat \ {0} /\ MaxRuns \in Nat /\ MaxSteps \in Nat /\ "task" \notin Clients

VARIABLES stream,     \* each client: new, reading, gone
          since,      \* the download that ran, or ran last, when it subscribed
          listeners,  \* _listeners of the model; empty is no key
          box,        \* each client's queue
          posted,     \* what the loop has still to run
          status,     \* the stored entry: none, going, end
          runs,       \* downloads so far
          thread,     \* no thread, at work, before its walk, walking, or ended
          next,       \* the next listener of the walk
          event,      \* what the walk tells
          steps,
          missed      \* clients that a full queue or a walk over a changing list passed by

progressVars == <<stream, since, listeners, box, posted, status, runs, thread, next, event, steps, missed>>
threadVars == <<thread, next, event, steps>>

Event(kind) == [run |-> runs, kind |-> kind]
TheEnd == [to |-> "task", event |-> [run |-> 0, kind |-> "done"]]

ProgressStreamInit ==
    /\ stream = [c \in Clients |-> "new"] /\ since = [c \in Clients |-> 0]
    /\ listeners = << >> /\ box = [c \in Clients |-> << >>] /\ posted = << >>
    /\ status = "none" /\ runs = 0 /\ thread = "none" /\ next = 1 /\ event = Event("going") /\ steps = 0
    /\ missed = {}

(* update_progress on the loop: straight into the queues that have room. *)
Announce ==
    /\ thread = "none" /\ runs < MaxRuns
    /\ runs' = runs + 1 /\ status' = "going" /\ thread' = "working" /\ steps' = 0
    /\ box' = [c \in Clients |-> IF c \in ToSet(listeners) /\ Len(box[c]) < Room
                                 THEN Append(box[c], [run |-> runs + 1, kind |-> "going"]) ELSE box[c]]
    /\ missed' = missed \cup {c \in ToSet(listeners) : Len(box[c]) >= Room}
    /\ UNCHANGED <<stream, since, listeners, posted, next, event>>

(* Faulty variant: an end is held back like any other news. *)
ThrottledAll(kind) == TRUE

(* Too soon after the last, or too small a change: stored, not told. *)
Throttled(kind) == kind = "going"

(* update_progress, mark_complete and mark_error in the thread: the entry   *)
(* under the lock, then the walk, if there is a list.                       *)
Report(kind) ==
    /\ thread = "working"
    /\ steps < MaxSteps \/ kind = "end"
    /\ status' = kind /\ steps' = steps + 1 /\ event' = Event(kind) /\ next' = 1
    /\ \/ thread' = IF listeners = << >> THEN (IF kind = "end" THEN "ended" ELSE "working") ELSE "walking"
       \/ Throttled(kind) /\ thread' = IF kind = "end" THEN "ended" ELSE "working"
    /\ UNCHANGED <<stream, since, listeners, box, posted, runs, missed>>

(* One listener of the walk; the list may have changed since the last.      *)
Walk ==
    /\ thread = "walking"
    /\ IF next <= Len(listeners)
       THEN /\ posted' = Append(posted, [to |-> listeners[next], event |-> event])
            /\ next' = next + 1 /\ UNCHANGED thread
       ELSE /\ thread' = IF event.kind = "end" THEN "ended" ELSE "working"
            /\ UNCHANGED <<posted, next>>
    /\ UNCHANGED <<stream, since, listeners, box, status, runs, event, steps, missed>>

(* The thread's last word to the loop; with it the task ends.               *)
EndThread ==
    /\ thread = "ended" /\ thread' = "posted" /\ posted' = Append(posted, TheEnd)
    /\ UNCHANGED <<stream, since, listeners, box, status, runs, next, event, steps, missed>>

(* The loop runs what was posted first. *)
Deliver ==
    /\ posted # << >> /\ posted' = Tail(posted)
    /\ LET p == Head(posted)
       IN  IF p = TheEnd THEN thread' = "none" /\ UNCHANGED <<box, missed>>
           ELSE /\ UNCHANGED thread
                /\ IF Len(box[p.to]) < Room THEN box' = [box EXCEPT ![p.to] = Append(@, p.event)] /\ UNCHANGED missed
                   ELSE missed' = missed \cup {p.to} /\ UNCHANGED box
    /\ UNCHANGED <<stream, since, listeners, status, runs, next, event, steps>>

(* subscribe: the stored entry is sent at once, if it is not an old end. *)
Subscribe(c) ==
    /\ stream[c] = "new" /\ stream' = [stream EXCEPT ![c] = "reading"]
    /\ since' = [since EXCEPT ![c] = IF status = "end" THEN runs + 1 ELSE runs]
    /\ listeners' = Append(listeners, c)
    /\ UNCHANGED <<box, posted, status, runs, threadVars, missed>>

(* Its queue leaves the list; what stood behind it moves up, under a walk   *)
(* that may be past it.                                                     *)
Unsubscribe(c) ==
    LET at == CHOOSE k \in DOMAIN listeners : listeners[k] = c
    IN  /\ stream' = [stream EXCEPT ![c] = "gone"]
        /\ listeners' = RemoveAt(listeners, at)
        /\ missed' = missed \cup {k \in ToSet(listeners) :
                         thread = "walking" /\ at < next /\ next <= Len(listeners) /\ listeners[next] = k}

ReadEvent(c) ==
    /\ stream[c] = "reading" /\ box[c] # << >>
    /\ box' = [box EXCEPT ![c] = Tail(@)]
    /\ IF Head(box[c]).kind = "end" THEN Unsubscribe(c) ELSE UNCHANGED <<stream, listeners, missed>>
    /\ UNCHANGED <<since, posted, status, runs, threadVars>>

Disconnect(c) == stream[c] = "reading" /\ Unsubscribe(c) /\ UNCHANGED <<since, box, posted, status, runs, threadVars>>

ProgressStreamNext ==
    \/ Announce \/ Walk \/ EndThread \/ Deliver
    \/ \E kind \in {"going", "end"} : Report(kind)
    \/ \E c \in Clients : Subscribe(c) \/ ReadEvent(c) \/ Disconnect(c)

-----------------------------------------------------------------------------
(* A client that subscribed before a download ended, and that no full queue *)
(* and no shrinking list made the walk pass by, is told of the end before   *)
(* anything else is announced, and nothing it is told is older than what it *)
(* was told before.                                                         *)
EndIsHeard ==
    \A c \in Clients : stream[c] = "reading" /\ c \notin missed =>
        /\ thread = "none" /\ status = "end" /\ since[c] <= runs =>
               \E k \in DOMAIN box[c] : box[c][k].kind = "end"
        /\ \A k \in DOMAIN box[c] :
               /\ \A j \in DOMAIN box[c] : j < k => box[c][j].run <= box[c][k].run
               /\ \A j \in DOMAIN posted : posted[j].to = c => box[c][k].run <= posted[j].event.run
        /\ \A j, k \in DOMAIN posted :
               j < k /\ posted[j].to = c /\ posted[k].to = c => posted[j].event.run <= posted[k].event.run

=============================================================================
