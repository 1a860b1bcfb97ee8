--------------------------- MODULE BackendInstall ---------------------------
(***************************************************************************)
(* The storage of one downloadable backend (services/cuda.py; rocm.py is   *)
(* the same protocol): a live directory, a staging copy, a backup and a    *)
(* swap journal, moved by utils/backend_archive.py, and the guard that     *)
(* gives the storage to one operation at a time.                           *)
(*                                                                         *)
(* A directory is its executable, the rest of the server's files, the      *)
(* accelerator libraries and the manifest that names their version; each   *)
(* is a version, or Gone when it is missing or incomplete.  Files that do  *)
(* not matter to what is installed (the journal's temporary files, the     *)
(* downloaded archive) are left out, and so are malformed journals and     *)
(* links.                                                                  *)
(***************************************************************************)
EXTENDS Integers, Sequences

CONSTANTS
  Ops,          \* operations in flight; a slot serves one after another
  NoOp,         \* no operation holds the guard
  Absent,       \* no such directory
  MaxFaults     \* bound: how many filesystem calls fail

ASSUME OpsAssumption == NoOp \notin Ops
ASSUME FaultsAssumption == MaxFaults \in Nat

Gone == 0
Old == 1
Current == 2
Versions == {Gone, Old, Current}
Dir == [exe: Versions, body: Versions, libs: Versions, mark: Versions]
ASSUME AbsentAssumption == Absent \notin Dir

Empty == [exe |-> Gone, body |-> Gone, libs |-> Gone, mark |-> Gone]
Release(s, l) == [exe |-> s, body |-> s, libs |-> l, mark |-> l]
Parts == {"exe", "body", "libs", "mark"}

VARIABLES
  dirs,         \* "live", "staging", "backup": a Dir or Absent
  journal,      \* the swap journal is on the disk
  active,       \* BackendOperationGuard._active
  op,           \* each slot's phase and the filesystem calls it has left
  server,       \* "down", "booting", "fresh" (update not tried), "up", "stopping"
  selfHosted,   \* this process is the downloaded backend (is_cuda_active)
  windows,      \* rename refuses a destination that exists
  faults,       \* filesystem calls that failed
  cut,          \* history: a deletion began to tear what is installed
  leftover      \* history: an operation could not put its own storage in order

vars == <<dirs, journal, active, op, server, selfHosted, windows, faults, cut, leftover>>

Idle == [phase |-> "idle", plan |-> <<>>]

\* "recovery", "check", "prepare" and "undo" run recover_backend_install: at the
\* start, for the update, for the download and inside a commit that raised.
Phases == {"idle", "recovery", "refused", "check", "prepare", "stage", "commit",
           "raised", "undo", "cleanup", "delete", "finished"}

Valid(d) == d # Absent /\ d.exe # Gone
Whole(d) == Valid(d) /\ d.body = d.exe /\ d.libs # Gone /\ d.mark = d.libs

\* What is installed: the directory that runs, or that the next recovery makes run.
Installed ==
  IF Valid(dirs["live"]) THEN dirs["live"]
  ELSE IF journal /\ Valid(dirs["staging"]) THEN dirs["staging"]
  ELSE IF Valid(dirs["backup"]) THEN dirs["backup"]
  ELSE Absent

-----------------------------------------------------------------------------
(* Plans: the filesystem calls a function makes, in its order.             *)

Rm(d) == <<"rm", d>>
Move(a, b) == <<"move", a, b>>

\* What recover_backend_install raises for when nothing valid is left.
Unrecoverable == /\ journal
                 /\ \A d \in {"live", "staging", "backup"} : ~Valid(dirs[d])

\* Faulty variant: a staging copy is published without the journal's word.
RecoverPlanUnjournaled ==
  IF Valid(dirs["live"]) THEN <<Rm("staging"), Rm("backup"), <<"unlink">>>>
  ELSE IF Valid(dirs["staging"])
    THEN <<Rm("live"), Move("staging", "live"), Rm("backup"), <<"unlink">>>>
  ELSE <<Rm("live"), Rm("staging"), Rm("backup"), <<"unlink">>>>

\* recover_backend_install looks at all three directories before it touches one.
RecoverPlan ==
  IF Valid(dirs["live"]) THEN <<Rm("staging"), Rm("backup"), <<"unlink">>>>
  ELSE IF journal /\ Valid(dirs["staging"])
    THEN <<Rm("live"), Move("staging", "live"), Rm("backup"), <<"unlink">>>>
  ELSE IF Valid(dirs["backup"])
    THEN <<Rm("live"), Rm("staging"), Move("backup", "live"), <<"unlink">>>>
  ELSE <<Rm("live"), Rm("staging"), Rm("backup"), <<"unlink">>>>

CommitPlan == << <<"journal">>, Move("live", "backup"), Move("staging", "live"),
                 Rm("backup"), <<"unlink">> >>

DeletePlan == <<Rm("staging"), Rm("backup"), Rm("live"), <<"unlink">>>>

StagePlan(needServer, needLibs) ==
  <<Rm("staging"), <<"copy">>>>
    \o (IF needServer THEN << <<"server">> >> ELSE <<>>)
    \o (IF needLibs THEN << <<"libs">>, <<"mark">> >> ELSE <<>>)

\* A version that cannot be read counts as one that must be downloaded.
NeedServer(d) == {TRUE, d.exe # Current}
NeedLibs(d) == {TRUE, d.mark # Current}

\* get_cuda_dir creates the directory it names.
Made(d) == IF d = Absent THEN Empty ELSE d
LiveMade == [dirs EXCEPT !["live"] = Made(@)]

-----------------------------------------------------------------------------
Init ==
  /\ dirs \in [{"live", "staging", "backup"} -> {Absent, Release(Old, Old),
                 Release(Old, Current), Release(Current, Old), Release(Current, Current)}]
  /\ dirs["staging"] = Absent /\ dirs["backup"] = Absent
  /\ journal = FALSE
  /\ active = NoOp
  /\ op = [o \in Ops |-> Idle]
  /\ server = "down"
  /\ selfHosted = FALSE
  /\ windows \in BOOLEAN
  /\ faults = 0
  /\ cut = FALSE /\ leftover = FALSE

Enter(o, phase, plan) == op' = [op EXCEPT ![o] = [phase |-> phase, plan |-> plan]]

\* Start recover_backend_install, which raises at once when nothing is valid.
EnterRecovery(o, phase, onError) ==
  IF Unrecoverable THEN Enter(o, onError, <<>>) ELSE Enter(o, phase, RecoverPlan)

-----------------------------------------------------------------------------
(* The process.                                                            *)

\* The lifespan recovers the swap before it serves; the desktop starts the
\* downloaded server only from a live directory that has its executable.
Boot(o) ==
  /\ server = "down" /\ active = NoOp
  /\ server' = "booting"
  /\ selfHosted' \in {FALSE, Valid(dirs["live"])}
  /\ active' = o
  /\ EnterRecovery(o, "recovery", "refused")
  /\ UNCHANGED <<dirs, journal, windows, faults, cut, leftover>>

\* An exception out of the recovery ends the lifespan.
Refuse(o) ==
  /\ op[o].phase = "refused"
  /\ server' = "down" /\ selfHosted' = FALSE
  /\ active' = NoOp
  /\ op' = [op EXCEPT ![o] = Idle]
  /\ UNCHANGED <<dirs, journal, windows, faults, cut, leftover>>

Stop ==
  /\ server \in {"fresh", "up"}
  /\ server' = "stopping"
  /\ UNCHANGED <<dirs, journal, active, op, selfHosted, windows, faults, cut, leftover>>

Exit ==
  /\ server = "stopping" /\ active = NoOp
  /\ server' = "down" /\ selfHosted' = FALSE
  /\ UNCHANGED <<dirs, journal, active, op, windows, faults, cut, leftover>>

Crash ==
  /\ server # "down"
  /\ server' = "down" /\ selfHosted' = FALSE
  /\ active' = NoOp
  /\ op' = [o \in Ops |-> Idle]
  /\ UNCHANGED <<dirs, journal, windows, faults, cut, leftover>>

\* A status request asks where the executable is, and so creates the directory,
\* whoever holds the guard.
Status ==
  /\ server \in {"fresh", "up"}
  /\ dirs["live"] = Absent
  /\ dirs' = LiveMade
  /\ UNCHANGED <<journal, active, op, server, selfHosted, windows, faults, cut, leftover>>

-----------------------------------------------------------------------------
(* Requests and the startup update.                                        *)

Reserve(o) == active = NoOp /\ op[o] = Idle /\ active' = o

ReleaseGuard(o) ==
  /\ op[o].phase = "finished"
  /\ active' = IF active = o THEN NoOp ELSE active
  /\ op' = [op EXCEPT ![o] = Idle]
  /\ UNCHANGED <<dirs, journal, server, selfHosted, windows, faults, cut, leftover>>

\* check_and_update_cuda_binary, once after the start; it gives way to an
\* operation that holds the storage and to the backend it would replace.
Update(o) ==
  /\ server = "fresh"
  /\ server' = "up"
  /\ IF selfHosted \/ active # NoOp
       THEN UNCHANGED <<active, op>>
       ELSE Reserve(o) /\ EnterRecovery(o, "check", "finished")
  /\ UNCHANGED <<dirs, journal, selfHosted, windows, faults, cut, leftover>>

\* schedule_cuda_binary_download: a backend that is there is not downloaded again.
Download(o) ==
  /\ server \in {"fresh", "up"}
  /\ ~Valid(dirs["live"])
  /\ dirs' = LiveMade
  /\ Reserve(o)
  /\ EnterRecovery(o, "prepare", "finished")
  /\ UNCHANGED <<journal, server, selfHosted, windows, faults, cut, leftover>>

Delete(o) ==
  /\ server \in {"fresh", "up"}
  /\ ~selfHosted
  /\ Reserve(o)
  /\ Enter(o, "delete", DeletePlan)
  /\ UNCHANGED <<dirs, journal, server, selfHosted, windows, faults, cut, leftover>>

-----------------------------------------------------------------------------
(* One filesystem call.                                                    *)

Call(o) == Head(op[o].plan)
Pending(o) == op[o].plan # <<>>

\* os.rename onto an empty directory replaces it, except on Windows.
CanMove(b) == dirs[b] = Absent \/ (~windows /\ dirs[b] = Empty)
Refused(c) == c[1] = "move" /\ dirs[c[2]] # Absent /\ ~CanMove(c[3])

\* The state of the directories after the call.
After(c) ==
  CASE c[1] = "rm" -> [dirs EXCEPT ![c[2]] = Absent]
    [] c[1] = "move" -> IF dirs[c[2]] = Absent THEN dirs
                        ELSE [dirs EXCEPT ![c[3]] = dirs[c[2]], ![c[2]] = Absent]
    [] c[1] = "copy" -> [dirs EXCEPT !["staging"] = Made(dirs["live"])]
    [] c[1] = "server" -> [dirs EXCEPT !["staging"].exe = Current, !["staging"].body = Current]
    [] c[1] = "libs" -> [dirs EXCEPT !["staging"].libs = Current]
    [] c[1] = "mark" -> [dirs EXCEPT !["staging"].mark = Current]
    [] OTHER -> dirs

JournalAfter(c) == IF c[1] = "journal" THEN TRUE ELSE IF c[1] = "unlink" THEN FALSE ELSE journal

Lose(d, S) == [p \in Parts |-> IF p \in S THEN Gone ELSE d[p]]

\* What a call that takes many files leaves when it is cut short.
Torn(c) ==
  CASE c[1] = "rm" /\ dirs[c[2]] # Absent ->
         {[dirs EXCEPT ![c[2]] = Lose(@, S)] : S \in SUBSET Parts}
    [] c[1] = "copy" /\ dirs["staging"] = Absent ->
         {[dirs EXCEPT !["staging"] = Lose(Made(dirs["live"]), S)] : S \in SUBSET Parts}
    [] c[1] = "server" ->
         {[dirs EXCEPT !["staging"].exe = v, !["staging"].body = Gone] :
            v \in {Current, dirs["staging"].exe}}
    [] c[1] = "libs" -> {[dirs EXCEPT !["staging"].libs = Gone]}
    [] OTHER -> {}

\* The call has reached part of its files.
Tear(o) ==
  /\ Pending(o)
  /\ dirs' \in Torn(Call(o)) \ {dirs}
  /\ UNCHANGED <<journal, active, op, server, selfHosted, windows, faults, leftover>>
  /\ cut' = (cut \/ (op[o].phase \in {"delete", "cleanup"} /\ Installed' # Installed))

Step(o) ==
  /\ Pending(o)
  /\ ~Refused(Call(o))
  /\ dirs' = After(Call(o))
  /\ journal' = JournalAfter(Call(o))
  /\ op' = [op EXCEPT ![o].plan = Tail(@)]
  /\ UNCHANGED <<active, server, selfHosted, windows, faults, cut, leftover>>

-----------------------------------------------------------------------------
(* The end of a phase.                                                     *)

Ended(o, phase) == op[o] = [phase |-> phase, plan |-> <<>>]

Cleanup == <<Rm("staging")>>

\* What a deletion tore is forgotten once what is installed is whole or gone.
StillCut == cut /\ Installed # Absent /\ ~Whole(Installed)

Recovered(o) ==
  /\ Ended(o, "recovery")
  /\ server' = "fresh"
  /\ active' = NoOp
  /\ op' = [op EXCEPT ![o] = Idle]
  /\ cut' = StillCut
  /\ leftover' = FALSE
  /\ UNCHANGED <<dirs, journal, selfHosted, windows, faults>>

\* The update downloads only what is installed and out of date.
Checked(o) ==
  /\ Ended(o, "check")
  /\ dirs' = LiveMade
  /\ \/ ~Valid(dirs["live"]) /\ Enter(o, "finished", <<>>)
     \/ /\ Valid(dirs["live"])
        /\ \E needServer \in NeedServer(dirs["live"]), needLibs \in NeedLibs(dirs["live"]) :
             IF needServer \/ needLibs
               THEN EnterRecovery(o, "prepare", "finished")
               ELSE Enter(o, "finished", <<>>)
  /\ cut' = StillCut
  /\ leftover' = FALSE
  /\ UNCHANGED <<journal, active, server, selfHosted, windows, faults>>

Prepared(o) ==
  /\ Ended(o, "prepare")
  /\ dirs' = LiveMade
  /\ \E needServer \in NeedServer(LiveMade["live"]), needLibs \in NeedLibs(LiveMade["live"]) :
       IF needServer \/ needLibs
         THEN Enter(o, "stage", StagePlan(needServer, needLibs))
         ELSE Enter(o, "finished", <<>>)
  /\ cut' = StillCut
  /\ leftover' = FALSE
  /\ UNCHANGED <<journal, active, server, selfHosted, windows, faults>>

\* commit_backend_install refuses a storage that was not reconciled.
Staged(o) ==
  /\ Ended(o, "stage")
  /\ IF Valid(dirs["staging"]) /\ dirs["backup"] = Absent /\ ~journal
       THEN Enter(o, "commit", CommitPlan)
       ELSE Enter(o, "cleanup", Cleanup)
  /\ UNCHANGED <<dirs, journal, active, server, selfHosted, windows, faults, cut, leftover>>

Undo(o) ==
  /\ Ended(o, "raised")
  /\ IF Unrecoverable
       THEN Enter(o, "cleanup", Cleanup) /\ leftover' = TRUE
       ELSE Enter(o, "undo", RecoverPlan) /\ UNCHANGED leftover
  /\ UNCHANGED <<dirs, journal, active, server, selfHosted, windows, faults, cut>>

Undone(o) ==
  /\ Ended(o, "undo")
  /\ Enter(o, "cleanup", Cleanup)
  /\ UNCHANGED <<dirs, journal, active, server, selfHosted, windows, faults, cut, leftover>>

Finished(o) ==
  /\ \E phase \in {"commit", "cleanup", "delete"} : Ended(o, phase)
  /\ Enter(o, "finished", <<>>)
  /\ cut' = StillCut
  /\ leftover' = (leftover /\ op[o].phase # "delete")
  /\ UNCHANGED <<dirs, journal, active, server, selfHosted, windows, faults>>

-----------------------------------------------------------------------------
(* Failure.                                                                *)

\* Where an exception out of a phase leads.
OnError(o) ==
  CASE op[o].phase = "recovery" -> Enter(o, "refused", <<>>)
    [] op[o].phase = "stage" -> Enter(o, "cleanup", Cleanup)
    [] op[o].phase = "commit" -> Enter(o, "raised", <<>>)
    [] op[o].phase = "undo" -> Enter(o, "cleanup", Cleanup)
    [] OTHER -> Enter(o, "finished", <<>>)

Untidy(o) == leftover' = (leftover \/ op[o].phase \in {"undo", "cleanup", "delete"})

\* A call fails before or after its effect (the fsync behind it fails).
Fault(o) ==
  /\ Pending(o)
  /\ faults < MaxFaults /\ faults' = faults + 1
  /\ \/ UNCHANGED <<dirs, journal>>
     \/ ~Refused(Call(o)) /\ dirs' = After(Call(o)) /\ journal' = JournalAfter(Call(o))
  /\ OnError(o) /\ Untidy(o)
  /\ UNCHANGED <<active, server, selfHosted, windows, cut>>

\* The destination of a rename is there: a status request made it.
Collide(o) ==
  /\ Pending(o)
  /\ Refused(Call(o))
  /\ OnError(o) /\ Untidy(o)
  /\ UNCHANGED <<dirs, journal, active, server, selfHosted, windows, faults, cut>>

\* The network, the checksum, the archive or the disk reservation fails, or the
\* stopping server cancels the download; the worker thread is drained first, and
\* whatever it has staged by then goes.
Abandon(o) ==
  /\ op[o].phase = "stage"
  /\ Enter(o, "cleanup", Cleanup)
  /\ UNCHANGED <<dirs, journal, active, server, selfHosted, windows, faults, cut, leftover>>

\* Cancelled while recover_backend_install runs: drained, then nothing is begun.
Cancel(o) ==
  /\ server = "stopping"
  /\ Ended(o, "check") \/ Ended(o, "prepare")
  /\ Enter(o, "finished", <<>>)
  /\ UNCHANGED <<dirs, journal, active, server, selfHosted, windows, faults, cut, leftover>>

Operate(o) == \/ Tear(o) \/ Step(o)
              \/ Recovered(o) \/ Checked(o) \/ Prepared(o) \/ Staged(o)
              \/ Undo(o) \/ Undone(o) \/ Finished(o) \/ ReleaseGuard(o)
              \/ Fault(o) \/ Collide(o) \/ Abandon(o) \/ Cancel(o) \/ Refuse(o)

Next == \/ Stop \/ Exit \/ Crash \/ Status
        \/ \E o \in Ops : Boot(o) \/ Update(o) \/ Download(o) \/ Delete(o) \/ Operate(o)

Spec == Init /\ [][Next]_vars

-----------------------------------------------------------------------------
(* Properties.                                                             *)

\* Every variable has its type; the guard is held exactly by the one slot that
\* is not idle (BackendOperationGuard, backend_operations.py).
TypeOK ==
  /\ dirs \in [{"live", "staging", "backup"} -> Dir \cup {Absent}]
  /\ journal \in BOOLEAN /\ selfHosted \in BOOLEAN /\ windows \in BOOLEAN
  /\ cut \in BOOLEAN /\ leftover \in BOOLEAN
  /\ server \in {"down", "booting", "fresh", "up", "stopping"}
  /\ faults \in 0..MaxFaults
  /\ active \in Ops \cup {NoOp}
  /\ \A o \in Ops : op[o].phase \in Phases /\ (op[o] # Idle <=> active = o)

Deleting == \E o \in Ops : op[o].phase = "delete"

\* No crash, failed call, cancelled download or status request publishes a
\* directory with files missing or with a server of one version among files of
\* another (commit_backend_install).  A deletion cut short may, nothing records
\* that it began: a user's, and the download's own of a copy that the journal
\* still vouches for because the commit and its recovery both raised.
NothingHalfInstalled == Installed # Absent => (cut \/ Whole(Installed))

\* An installation is lost only to a deletion, and changes only to one that is
\* up to date.  The exception is a copy whose publication raised and whose
\* recovery raised too: the download deletes it.
InstallSurvives ==
  [][(Installed # Absent /\ ~Deleting /\ Installed' # Installed)
       => \/ Installed' # Absent /\ Installed'.exe = Current /\ Installed'.mark = Current
          \/ leftover' /\ Installed = dirs["staging"]]_vars

\* A server that was started from the live directory runs from it undisturbed:
\* no recovery, update, download or deletion touches it (is_cuda_active).
RunningUntouched == [][selfHosted /\ selfHosted' => dirs'["live"] = dirs["live"]]_vars

\* With no operation under way nothing is left of earlier ones, across crashes,
\* failures and cancellations: no copy, no backup, no journal.
QuietIsClean ==
  (active = NoOp /\ server \in {"fresh", "up"} /\ ~leftover)
    => dirs["staging"] = Absent /\ dirs["backup"] = Absent /\ ~journal

\* backend_archive.py:608 says of commit_backend_install: "Durably replace a live
\* backend and leave all crash states recoverable."  Whenever the journal is on
\* the disk there is a directory for the next recovery to make live.
CrashStatesRecoverable == journal => Installed # Absent

(* An install replaces the live backend as a whole or not at all, across    *)
(* crashes at every rename, concurrent installs and a failing removal: what *)
(* is found is whole, rests are gone when all is quiet, an installed        *)
(* backend is never lost, and the one that runs is never replaced.          *)
InstallIsWhole ==
    /\ [](TypeOK /\ NothingHalfInstalled /\ QuietIsClean)
    /\ InstallSurvives
    /\ RunningUntouched

=============================================================================
