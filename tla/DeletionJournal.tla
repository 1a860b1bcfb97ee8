--------------------------- MODULE DeletionJournal ---------------------------
(***************************************************************************)
(* Files and the rows that own them: backend/services/deletion_journal.py  *)
(* and the protocols its callers follow (history.py, profiles.py,          *)
(* generation.py), with crash at every step and recovery at startup.       *)
(*                                                                         *)
(* SQLite and the filesystem share no transaction.  A deletion hides the   *)
(* file under a staged name, commits the row, then discards it; a          *)
(* publication writes the file under a staged name, renames it into place, *)
(* then commits the row.  An intent on disk covers the file meanwhile.     *)
(* Every rename, commit and intent is fsynced, so that the steps below are *)
(* durable in their order.                                                 *)
(*                                                                         *)
(* There is one profile.  Its samples live in a directory that is itself   *)
(* staged when the profile is deleted; its generations' audio lives in a   *)
(* flat directory that is always there.  An entry stands for an inode: its *)
(* public and staged names are fresh UUIDs, except that the profile's      *)
(* directory can be made again under the same name.                        *)
(***************************************************************************)
EXTENDS Naturals, FiniteSets

CONSTANTS
  Profile,      \* the profile's row
  Audio,        \* files below generations/
  Samples,      \* files below profiles/<Profile>/
  Dirs,         \* successive directories named profiles/<Profile>
  Absent,       \* an entry that is not there
  Public,       \* an entry under its public name
  MaxIntents,   \* bound on the intents of one kind for one entry
  MaxFaults     \* bound on spells of failing filesystem operations

Files == Audio \cup Samples
Entries == Files \cup Dirs

Intents == [kind : {"publish", "delete"}, of : Entries, n : 1..MaxIntents]

ASSUME NamesAssumption ==
  /\ Audio \cap Samples = {} /\ Files \cap Dirs = {}
  /\ Profile \notin Entries
  /\ Absent # Public /\ {Absent, Public} \cap (Entries \cup Intents) = {}
ASSUME BoundsAssumption == MaxIntents \in Nat \ {0} /\ MaxFaults \in Nat

VARIABLES
  (* durable *)
  rows,         \* rows that own a path: profile, sample, version
  place,        \* Absent, Public, or the intent under whose staged name it is
  home,         \* the directory a sample was written into
  intents,      \* the journal
  (* the event loop *)
  phase,        \* idle, or the synchronous operation that has the loop
  worklist,     \* intents the operation has still to settle
  todo,         \* entries a deletion has still to stage
  staging,      \* the intent just recorded, whose rename comes next
  doomed,       \* rows the open transaction deletes
  stuck,        \* recovery has met an intent it cannot settle
  pubStep,      \* the publication in flight
  pubFile,      \* ... and the file it publishes, Absent when there is none
  faults        \* spells of filesystem errors so far

durableVars == <<rows, place, home, intents>>
deleteVars == <<todo, staging, doomed>>
pubVars == <<pubStep, pubFile>>
vars == <<durableVars, phase, worklist, deleteVars, stuck, pubVars, faults>>

TypeOK ==
  /\ rows \in SUBSET (Files \cup {Profile})
  /\ place \in [Entries -> {Absent, Public} \cup Intents]
  /\ home \in [Samples -> Dirs]
  /\ intents \in SUBSET Intents
  /\ phase \in {"down", "recover", "refused", "idle", "staging", "undo", "discard"}
  /\ worklist \in SUBSET Intents
  /\ todo \in SUBSET Entries
  /\ staging \in SUBSET intents /\ Cardinality(staging) <= 1
  /\ doomed \in SUBSET rows
  /\ stuck \in BOOLEAN
  /\ pubStep \in {"none", "checked", "created", "writing", "published", "committed", "failed"}
  /\ pubFile \in Files \cup {Absent}
  /\ faults \in 0..MaxFaults

Init ==
  /\ rows = {} /\ intents = {}
  /\ place = [e \in Entries |-> Absent]
  /\ home \in [Samples -> Dirs] /\ \A s, t \in Samples : home[s] = home[t]
  /\ phase = "idle" /\ worklist = {} /\ stuck = FALSE
  /\ todo = {} /\ staging = {} /\ doomed = {}
  /\ pubStep = "none" /\ pubFile = Absent
  /\ faults = 0

Fault == faults < MaxFaults /\ faults' = faults + 1
NoFault == UNCHANGED faults

(* Another handler can run: nobody is between two awaits. *)
LoopFree == phase = "idle" /\ pubStep \in {"none", "checked", "writing"}

-----------------------------------------------------------------------------
(* The filesystem, as managed_entry_stat sees it: names are looked up in   *)
(* the public directory, and a missing parent raises.                      *)

PublicDirs == {d \in Dirs : place[d] = Public}
ParentThere(e) == e \in Samples => PublicDirs # {}
InView(e) == e \in Samples => place[home[e]] = Public

AtOriginal(i) ==
  IF i.of \in Dirs THEN PublicDirs # {} ELSE InView(i.of) /\ place[i.of] = Public
AtStaged(i) == InView(i.of) /\ place[i.of] = i

(* Move or remove an entry; a directory takes its contents along. *)
Moved(e, where) ==
  [x \in Entries |->
     IF x = e \/ (where = Absent /\ x \in Samples /\ e \in Dirs /\ home[x] = e)
       THEN where ELSE place[x]]

Unused(e) == place[e] = Absent /\ \A i \in intents : i.of # e

(* prepare_deletion_intent: a fresh operation ID *)
Fresh(kind, e) == {i \in Intents \ intents : i.kind = kind /\ i.of = e /\ place[e] # i}

-----------------------------------------------------------------------------
(* reconcile_deletion_intent: finish one operation from durable ownership. *)

(* _database_owns *)
Owns(e) == IF e \in Dirs THEN rows \cap (Samples \cup {Profile}) # {} ELSE e \in rows

(* It raises, and the intent stays, if the parent is gone or the original  *)
(* name is held by another inode.                                          *)
Resolvable(i) ==
  /\ ParentThere(i.of)
  /\ i.of \in Dirs /\ PublicDirs # {} => PublicDirs = {i.of}

(* Faulty variant: an original that is in place is always kept. *)
OutcomeKeeps(i) ==
  CASE AtOriginal(i) -> Public
    [] AtStaged(i) -> IF i.kind = "delete" /\ Owns(i.of) THEN Public ELSE Absent
    [] OTHER -> place[i.of]

Outcome(i) ==
  CASE AtOriginal(i) -> IF Owns(i.of) THEN Public ELSE Absent
    [] AtStaged(i) -> IF i.kind = "delete" /\ Owns(i.of) THEN Public ELSE Absent
    [] OTHER -> place[i.of]

(* First the file ... *)
ReconcileMove(i) ==
  /\ Resolvable(i) /\ Outcome(i) # place[i.of]
  /\ place' = Moved(i.of, Outcome(i))
  /\ UNCHANGED <<rows, home, intents, worklist, stuck, faults>>

(* ... then the intent. *)
ReconcileFinish(i) ==
  /\ Resolvable(i) /\ Outcome(i) = place[i.of]
  /\ intents' = intents \ {i} /\ worklist' = worklist \ {i}
  /\ UNCHANGED <<rows, place, home, stuck, faults>>

(* An intent that cannot be settled is kept for the next startup. *)
ReconcileRaises(i) ==
  /\ (~Resolvable(i) /\ NoFault) \/ Fault
  /\ worklist' = worklist \ {i}
  /\ stuck' = (phase = "recover" \/ stuck)
  /\ UNCHANGED <<durableVars>>

Reconcile(i) == ReconcileMove(i) \/ ReconcileFinish(i) \/ ReconcileRaises(i)

-----------------------------------------------------------------------------
(* Publishing a file: add_profile_sample, _publish_generation_audio and    *)
(* its callers.  "checked" and "writing" await worker threads.             *)

PubIntent == [kind |-> "publish", of |-> pubFile, n |-> 1]

CreateProfile ==
  /\ LoopFree /\ pubStep = "none"
  /\ Profile \notin rows /\ \A e \in Dirs \cup Samples : Unused(e)
  /\ rows' = rows \cup {Profile}
  /\ \/ UNCHANGED place      \* the directory is made by the first sample
     \/ \E d \in Dirs : place' = Moved(d, Public)
  /\ UNCHANGED <<home, intents, phase, worklist, deleteVars, stuck, pubVars, faults>>

PubBegin(f) ==
  /\ LoopFree /\ pubStep = "none"
  /\ Profile \in rows /\ f \notin rows /\ Unused(f)
  /\ pubStep' = "checked" /\ pubFile' = f
  /\ UNCHANGED <<durableVars, phase, worklist, deleteVars, stuck, faults>>

(* The pending file; a sample's directory is made if there is none. *)
PubCreate ==
  /\ LoopFree /\ pubStep = "checked"
  /\ pubStep' = "created"
  /\ IF pubFile \in Audio
       THEN place' = [place EXCEPT ![pubFile] = PubIntent] /\ UNCHANGED home
       ELSE \E d \in Dirs :
              /\ IF PublicDirs = {} THEN Unused(d) ELSE d \in PublicDirs
              /\ place' = [place EXCEPT ![d] = Public, ![pubFile] = PubIntent]
              /\ home' = [home EXCEPT ![pubFile] = d]
  /\ UNCHANGED <<rows, intents, phase, worklist, deleteVars, stuck, pubFile, faults>>

PubJournal ==
  /\ phase = "idle" /\ pubStep = "created"
  /\ intents' = intents \cup {PubIntent}
  /\ pubStep' = "writing"
  /\ UNCHANGED <<rows, place, home, phase, worklist, deleteVars, stuck, pubFile, faults>>

(* Faulty variant: the profile is not looked up again after the await. *)
PubRenameUnchecked ==
  /\ LoopFree /\ pubStep = "writing"
  /\ AtStaged(PubIntent)
  /\ place' = Moved(pubFile, Public)
  /\ pubStep' = "published"
  /\ UNCHANGED <<rows, home, intents, phase, worklist, deleteVars, stuck, pubFile, faults>>

PubRename ==
  /\ LoopFree /\ pubStep = "writing"
  /\ AtStaged(PubIntent) /\ Profile \in rows
  /\ place' = Moved(pubFile, Public)
  /\ pubStep' = "published"
  /\ UNCHANGED <<rows, home, intents, phase, worklist, deleteVars, stuck, pubFile, faults>>

PubCommit ==
  /\ phase = "idle" /\ pubStep = "published"
  /\ rows' = rows \cup {pubFile}
  /\ pubStep' = "committed"
  /\ UNCHANGED <<place, home, intents, phase, worklist, deleteVars, stuck, pubFile, faults>>

PubFinish ==
  /\ phase = "idle" /\ pubStep = "committed"
  /\ \/ intents' = intents \ {PubIntent} /\ NoFault
     \/ UNCHANGED intents /\ Fault      \* cleanup deferred
  /\ pubStep' = "none" /\ pubFile' = Absent
  /\ UNCHANGED <<rows, place, home, phase, worklist, deleteVars, stuck>>

(* An error before the intent exists: discard the pending file, or try to. *)
PubFailEarly ==
  /\ phase = "idle"
  /\ \/ pubStep = "checked" /\ UNCHANGED place /\ NoFault
     \/ pubStep = "created" /\ place' = Moved(pubFile, Absent) /\ NoFault
     \/ pubStep = "created" /\ UNCHANGED place /\ Fault
  /\ pubStep' = "none" /\ pubFile' = Absent
  /\ UNCHANGED <<rows, home, intents, phase, worklist, deleteVars, stuck>>

(* Any later error, a commit that raises (durable or not) included: roll   *)
(* back and reconcile.  A sample whose directory went with its profile     *)
(* only has its intent cleared.                                            *)
PubFail ==
  /\ phase = "idle" /\ pubStep \in {"writing", "published", "committed"}
  /\ IF pubFile \in Samples /\ PublicDirs = {} /\ rows \cap {pubFile, Profile} = {}
       THEN /\ \/ intents' = intents \ {PubIntent} /\ NoFault
               \/ UNCHANGED intents /\ Fault
            /\ pubStep' = "none" /\ pubFile' = Absent
            /\ UNCHANGED <<phase, worklist>>
       ELSE /\ phase' = "undo" /\ worklist' = {PubIntent}
            /\ pubStep' = "failed"
            /\ UNCHANGED <<intents, pubFile>> /\ NoFault
  /\ UNCHANGED <<rows, place, home, deleteVars, stuck>>

Empty(d) == \A s \in Samples : place[s] = Absent \/ home[s] # d

(* rmdir of the directory that the upload made again for a lost profile *)
PubTidy ==
  /\ phase = "undo" /\ pubStep = "failed" /\ worklist = {}
  /\ place' = IF pubFile \in Samples /\ rows \cap {pubFile, Profile} = {} /\ PubIntent \notin intents
                THEN [e \in Entries |-> IF e \in PublicDirs /\ Empty(e) THEN Absent ELSE place[e]]
                ELSE place
  /\ phase' = "idle" /\ pubStep' = "none" /\ pubFile' = Absent
  /\ UNCHANGED <<rows, home, intents, worklist, deleteVars, stuck, faults>>

Publication ==
  \/ CreateProfile \/ \E f \in Files : PubBegin(f)
  \/ PubCreate \/ PubJournal \/ PubRename \/ PubCommit \/ PubFinish
  \/ PubFailEarly \/ PubFail \/ PubTidy

-----------------------------------------------------------------------------
(* Deleting: delete_generation, delete_profile_sample, delete_profile.     *)
(* Nothing is awaited; the process can die between any two steps.          *)

DeleteFile(f) ==
  /\ LoopFree /\ f \in rows
  /\ phase' = "staging" /\ doomed' = {f} /\ todo' = {f}
  /\ UNCHANGED <<durableVars, worklist, staging, stuck, pubVars, faults>>

(* Refused while a generation of the profile is active. *)
DeleteProfile ==
  /\ LoopFree /\ Profile \in rows
  /\ pubStep = "none" \/ pubFile \in Samples
  /\ phase' = "staging" /\ doomed' = rows
  /\ todo' = (rows \cap Audio) \cup PublicDirs
  /\ UNCHANGED <<durableVars, worklist, staging, stuck, pubVars, faults>>

(* Faulty variant: what is to be deleted is unlinked at once.              *)
StageUnlinks ==
  \E i \in staging :
    /\ phase = "staging"
    /\ place' = Moved(i.of, Absent)
    /\ worklist' = worklist \cup {i}
    /\ todo' = todo \ {i.of} /\ staging' = {}
    /\ UNCHANGED <<rows, home, intents, phase, doomed, stuck, pubVars, faults>>

(* _stage_*: nothing to hide, or record the intent ... *)
StageSkip(e) ==
  /\ phase = "staging" /\ staging = {} /\ e \in todo
  /\ ParentThere(e) /\ ~(InView(e) /\ place[e] = Public)
  /\ todo' = todo \ {e}
  /\ UNCHANGED <<durableVars, phase, worklist, staging, doomed, stuck, pubVars, faults>>

StagePrepare(e) ==
  /\ phase = "staging" /\ staging = {} /\ e \in todo
  /\ e \in Dirs => todo = {e}
  /\ InView(e) /\ place[e] = Public
  /\ \E i \in Fresh("delete", e) : intents' = intents \cup {i} /\ staging' = {i}
  /\ UNCHANGED <<rows, place, home, phase, worklist, todo, doomed, stuck, pubVars, faults>>

(* ... and rename. *)
StageRename ==
  \E i \in staging :
    /\ phase = "staging"
    /\ place' = Moved(i.of, i)
    /\ worklist' = worklist \cup {i}
    /\ todo' = todo \ {i.of} /\ staging' = {}
    /\ UNCHANGED <<rows, home, intents, phase, doomed, stuck, pubVars, faults>>

(* A rename that raises is undone, if that is possible, and the operation  *)
(* rolled back.                                                            *)
StageRaises ==
  \E i \in staging :
    /\ phase = "staging"
    /\ \/ UNCHANGED place /\ intents' = intents \ {i}
       \/ place' \in {place, Moved(i.of, i)} /\ UNCHANGED intents
    /\ Fault
    /\ phase' = "undo" /\ todo' = {} /\ staging' = {} /\ doomed' = {}
    /\ UNCHANGED <<rows, home, worklist, stuck, pubVars>>

(* A missing parent raises, a read-only disk, a locked database. *)
DeleteRaises ==
  /\ phase = "staging" /\ staging = {}
  /\ phase' = "undo" /\ todo' = {} /\ doomed' = {}
  /\ UNCHANGED <<durableVars, worklist, staging, stuck, pubVars, faults>>

(* The commit is durable; when it raises all the same, the handler undoes. *)
DeleteCommit ==
  /\ phase = "staging" /\ staging = {} /\ todo = {}
  /\ rows' = rows \ doomed
  /\ phase' \in {"discard", "undo"}
  /\ doomed' = {} /\ UNCHANGED todo
  /\ UNCHANGED <<place, home, intents, worklist, staging, stuck, pubVars, faults>>

Undo(i) ==
  /\ phase = "undo" /\ i \in worklist
  /\ Reconcile(i)
  /\ UNCHANGED <<phase, deleteVars, pubVars>>

(* _discard_*: the staged entry, then the intent; an OSError defers both. *)
Discard(i) ==
  /\ phase = "discard" /\ i \in worklist
  /\ \/ /\ AtStaged(i) /\ place' = Moved(i.of, Absent) /\ NoFault
        /\ UNCHANGED <<intents, worklist>>
     \/ /\ ~AtStaged(i) /\ intents' = intents \ {i} /\ worklist' = worklist \ {i}
        /\ UNCHANGED place /\ NoFault
     \/ /\ Fault /\ worklist' = worklist \ {i}
        /\ UNCHANGED <<place, intents>>
  /\ UNCHANGED <<rows, home, phase, stuck, deleteVars, pubVars>>

DeleteEnds ==
  /\ phase \in {"undo", "discard"} /\ pubStep # "failed" /\ worklist = {}
  /\ phase' = "idle"
  /\ UNCHANGED <<durableVars, worklist, deleteVars, stuck, pubVars, faults>>

Deletion ==
  \/ \E f \in Files : DeleteFile(f)
  \/ DeleteProfile
  \/ \E e \in Entries : StageSkip(e) \/ StagePrepare(e)
  \/ StageRename \/ StageRaises \/ DeleteRaises \/ DeleteCommit
  \/ \E i \in worklist : Undo(i) \/ Discard(i)
  \/ DeleteEnds

-----------------------------------------------------------------------------
(* Crash, and recover_interrupted_deletions at startup. *)

Crash ==
  /\ phase \notin {"down", "refused"}
  /\ phase' = "down" /\ pubStep' = "none" /\ pubFile' = Absent
  /\ worklist' = {} /\ todo' = {} /\ staging' = {} /\ doomed' = {} /\ stuck' = FALSE
  /\ UNCHANGED <<durableVars, faults>>

Start ==
  /\ phase \in {"down", "refused"}
  /\ phase' = "recover" /\ worklist' = intents /\ stuck' = FALSE
  /\ UNCHANGED <<durableVars, deleteVars, pubVars, faults>>

(* Directories first, then by depth, then by random name. *)
Rank(i) == IF i.of \in Dirs THEN 0 ELSE IF i.of \in Audio THEN 1 ELSE 2

Recover(i) ==
  /\ phase = "recover" /\ i \in worklist
  /\ \A j \in worklist : Rank(i) <= Rank(j)
  /\ Reconcile(i)
  /\ UNCHANGED <<phase, deleteVars, pubVars>>

(* _recover_managed_storage refuses to start over an unresolved intent. *)
RecoverEnds ==
  /\ phase = "recover" /\ worklist = {}
  /\ phase' = IF stuck THEN "refused" ELSE "idle"
  /\ UNCHANGED <<durableVars, worklist, deleteVars, stuck, pubVars, faults>>

Recovery ==
  \/ Crash \/ Start \/ RecoverEnds
  \/ \E i \in worklist : Recover(i)

Next == Publication \/ Deletion \/ Recovery

Spec == Init /\ [][Next]_vars

-----------------------------------------------------------------------------
(* Properties. *)

(* A directory or file that is public, or hidden by a deletion the journal *)
(* still knows.                                                            *)
Restorable(e) == place[e] = Public \/ (place[e] \in intents /\ place[e].kind = "delete")

(* What recovery would leave of a file, started in this very state. *)
Survives(f) ==
  f \in rows /\ Restorable(f) /\ (f \in Samples => Restorable(home[f]))

(* More than one directory of the profile, public or hidden. *)
Twice == \E d, e \in Dirs : d # e /\ Absent \notin {place[d], place[e]}

(* A file with a durable row is never removed, at whatever step the process *)
(* dies and whichever filesystem operations fail; and it is in place, or    *)
(* the journal knows under which name it is hidden.  One exception: a       *)
(* sample that a failed undo left hidden, below a directory that another    *)
(* failed undo left hidden and an upload has made again, is forgotten.      *)
NoLostFile ==
  \A f \in rows \cap Files :
    /\ place[f] # Absent /\ (f \in Samples => place[home[f]] # Absent)
    /\ Survives(f) \/ (faults > 1 /\ f \in Samples /\ Twice)

(* The converse: a file that nobody owns is in view of the journal, which  *)
(* will remove it.  Only a pending file can be forgotten, by a crash       *)
(* between its creation and its intent; and a sample, after a failed       *)
(* rename has left its profile with two directories.                       *)
Accountable(f) == f \in Audio \/ faults = 0
NoStrayFile ==
  \A f \in Files \ rows : Accountable(f) =>
    \/ place[f] = Absent
    \/ place[f] \notin intents /\ place[f] # Public /\ place[f].kind = "publish"
    \/ \E i \in intents : i.of = f \/ (f \in Samples /\ i.of = home[f])

(* A sample that is uploaded while its profile is deleted does not come    *)
(* back under nobody's name.                                               *)
NoOrphanSample == rows \cap Samples # {} => Profile \in rows

(* Once a startup has let requests in, files and rows agree: what is owned *)
(* is in place, and what is not is gone.                                   *)
InPlace(f) == place[f] = Public /\ InView(f)
StartupSettles ==
  [][phase = "recover" /\ phase' = "idle" =>
       /\ intents = {}
       /\ \A f \in rows \cap Files : InPlace(f)
       /\ \A f \in Files \ rows : Accountable(f) => ~InPlace(f)]_vars

(* Without filesystem errors a startup is never refused over storage that  *)
(* somebody still owns.                                                    *)
OwnedStorageStarts == phase = "refused" /\ faults = 0 => Profile \notin rows

(* At every step, and so wherever the process dies: no owned file is lost,  *)
(* no file is forgotten, no sample outlives its profile, and storage that   *)
(* is owned does not keep the server from starting.                         *)
RowsAndFilesAgree == TypeOK /\ NoLostFile /\ NoStrayFile /\ NoOrphanSample /\ OwnedStorageStarts

(* Deletions and publications are atomic whatever crashes: what survives   *)
(* changes only at commits, by whole operations.                           *)
Library == INSTANCE ManagedLibrary WITH kept <- {f \in Files : Survives(f)}
ImplementsLibrary == Library!Spec

(* "Restore/discard the shallow container first so child intents are       *)
(* actionable in this same startup rather than requiring a second restart" *)
(* (deletion_journal.py:634-635): without filesystem errors no startup is  *)
(* refused.                                                                *)
ChildIntentsActionable == faults = 0 => phase # "refused"
=============================================================================
