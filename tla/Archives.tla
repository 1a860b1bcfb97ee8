------------------------------ MODULE Archives ------------------------------
(***************************************************************************)
(* Archives: profiles and generations that are brought in from a ZIP or     *)
(* brought out into one.  backend/services/export_import.py, with the       *)
(* routes that call it.                                                     *)
(*                                                                         *)
(* An import inspects, extracts and copies in threads, each an await during *)
(* which profiles are named, deleted or imported by others; what it brings  *)
(* is journaled, renamed to its public name and committed in one turn of    *)
(* the loop.  An export takes down what files it is about to copy, and a    *)
(* thread copies them while they may be replaced.  Both own a directory     *)
(* with a lease on the disk space it may take.                              *)
(*                                                                         *)
(* Abstracted: what an archive says and how it is checked is a refusal that *)
(* may come at any await; a file is the number of the change that wrote it, *)
(* one that is renamed into place (its identity tells it from any other);   *)
(* deletion of a profile is whole here, DeletionJournal takes it apart.     *)
(***************************************************************************)
EXTENDS Integers, FiniteSets

CONSTANTS Imports,
          Profiling,     \* the imports that bring a profile; the others bring a generation
          OldProfile,    \* the profile that is there at the start
          NoProfile,
          ImportsMost,   \* ARCHIVE_IMPORT_MAX_CONCURRENT
          Exports,
          Rows,       \* what an export reads from the database
          Copies,        \* the files it copies
          ExportsMost,   \* ARCHIVE_EXPORT_MAX_ACTIVE
          MaxMishaps,    \* bound: calls of the disk, the journal or the database that fail
          MaxKills,
          MaxChanges     \* bound: changes of what is exported

ASSUME ArchivesAssumption ==
    /\ Profiling \subseteq Imports /\ OldProfile \notin Imports /\ NoProfile \notin Imports
    /\ Imports \cap Exports = {} /\ ImportsMost \in Nat /\ ExportsMost \in Nat

VARIABLES imports,     \* each import: at, ok, the name it chose or the profile it goes to
          owners,      \* the profiles and generations of the database that are imported, and OldProfile
          placed,      \* <<import, "staged" or "public">>: its storage
          journaled,   \* imports with a publish intent
          exports,     \* each export: at, what it saw and what its archive has
          content,     \* what is exported now: 0 for a file that is gone
          past,        \* what it was at any time (history)
          workspaces,  \* the job directories on the disk
          busy,        \* _active_archive_import_directories, _active_archive_export_directories
          claims,      \* _archive_disk_reservations
          mishaps,
          kills,
          changes

archiveVars == <<imports, owners, placed, journaled, exports, content, past, workspaces, busy, claims, mishaps, kills, changes>>
importVars == <<imports, owners, placed, journaled>>
exportVars == <<exports, content, past, changes>>

Exported == Rows \cup Copies
Untouched == [m \in Exported |-> 0]

ArchivesInit ==
    /\ imports = [i \in Imports |-> [at |-> "new", ok |-> FALSE, name |-> 0, profile |-> NoProfile]]
    /\ owners = {OldProfile} /\ placed = {} /\ journaled = {}
    /\ exports = [e \in Exports |-> [at |-> "new", seen |-> Untouched, has |-> Untouched]]
    /\ content = [m \in Exported |-> 1] /\ past = {content}
    /\ workspaces = {} /\ busy = {} /\ claims = {} /\ mishaps = 0 /\ kills = 0 /\ changes = 1

At(i) == imports[i].at
(* Between publication and the end of the commit the loop is not given up. *)
InTurn(i) == At(i) \in {"published", "committed", "broken"}
TurnFree == \A i \in Imports : ~InTurn(i)
Turns(i, from, to) == At(i) = from /\ imports' = [imports EXCEPT ![i].at = to]
Mishap == mishaps < MaxMishaps /\ mishaps' = mishaps + 1
NoMishap == UNCHANGED mishaps

ImportedProfiles == owners \cap (Profiling \cup {OldProfile})
NameOf(p) == IF p = OldProfile THEN 0 ELSE imports[p].name
Names == {NameOf(p) : p \in ImportedProfiles}

-----------------------------------------------------------------------------
(* Workspaces. *)

(* _cleanup_stale_archive_imports, _cleanup_stale_archive_exports_locked:   *)
(* the directories that no request of this process is at work in.           *)
Stale(requests) == (workspaces \cap requests) \ busy

(* _remove_archive_export_directory over a set: the lease goes with the     *)
(* directory, and stays with one that cannot be removed.                    *)
Removed(ws) ==
    \E gone \in SUBSET ws :
        /\ IF gone = ws THEN NoMishap ELSE Mishap
        /\ workspaces' = workspaces \ gone /\ claims' = claims \ gone

(* Faulty variant: the lease is released whatever became of the directory.  *)
ClearWorkspaceReleasing(w) ==
    /\ busy' = busy \ {w} /\ claims' = claims \ {w}
    /\ \/ NoMishap /\ workspaces' = workspaces \ {w}
       \/ Mishap /\ UNCHANGED workspaces

(* _cleanup_archive_import, _cleanup_archive_export *)
ClearWorkspace(w) == busy' = busy \ {w} /\ Removed({w})

(* _inspect_profile_import, _inspect_generation_import: a thread reads the   *)
(* archive through before anything is written; a sound one goes on.         *)
InspectImport(i) ==
    /\ TurnFree
    /\ Turns(i, "new", "inspected") /\ Removed(Stale(Imports))
    /\ UNCHANGED <<owners, placed, journaled, exportVars, busy, kills>>

(* An archive that is not whole is refused, and has left nothing.           *)
RefuseImport(i) ==
    /\ TurnFree /\ Turns(i, "new", "refused")
    /\ UNCHANGED <<owners, placed, journaled, exportVars, workspaces, busy, claims, mishaps, kills>>

(* _allocate_archive_import: too many, or no space. *)
AllocateImport(i) ==
    /\ TurnFree
    /\ \/ /\ Turns(i, "inspected", "working") /\ Cardinality(busy \cap Imports) < ImportsMost
          /\ workspaces' = workspaces \cup {i} /\ busy' = busy \cup {i} /\ claims' = claims \cup {i}
       \/ Turns(i, "inspected", "refused") /\ UNCHANGED <<workspaces, busy, claims>>
    /\ UNCHANGED <<owners, placed, journaled, exportVars, mishaps, kills>>

-----------------------------------------------------------------------------
(* import_profile_from_zip, import_generation_from_zip *)

(* _get_unique_profile_name *)
UniqueName == CHOOSE n \in 0..Cardinality(Names) : n \notin Names /\ \A k \in 0..n - 1 : k \in Names

(* A profile goes to nobody; a generation to the profile of its name, or to *)
(* any that is there.                                                       *)
GivenTo(i) == IF i \in Profiling THEN {NoProfile} ELSE ImportedProfiles

(* What was extracted is sound: a profile is named and a generation given   *)
(* to one, by name or to any; the placeholder is made and journaled, and a  *)
(* thread fills it.  Or the import is refused or cancelled on the way.      *)
Prepare(i) ==
    /\ TurnFree /\ At(i) = "working"
    /\ \/ \E p \in GivenTo(i) :
             /\ imports' = [imports EXCEPT ![i] = [at |-> "filling", ok |-> FALSE, profile |-> p,
                                                 name |-> IF i \in Profiling THEN UniqueName ELSE 0]]
             /\ placed' = placed \cup {<<i, "staged">>} /\ journaled' = journaled \cup {i}
       \/ Turns(i, "working", "cleaning") /\ UNCHANGED <<placed, journaled>>
    /\ UNCHANGED <<owners, exportVars, workspaces, busy, claims, mishaps, kills>>

(* The copy is whole and takes its public name. *)
TakesName(i) ==
    /\ Turns(i, "filling", "published")
    /\ placed' = (placed \ {<<i, "staged">>}) \cup {<<i, "public">>}

(* Faulty variant: the profile was there when it was chosen. *)
PublishAsChosen(i) ==
    /\ TurnFree /\ TakesName(i)
    /\ UNCHANGED <<owners, journaled, exportVars, workspaces, busy, claims, mishaps, kills>>

(* A profile's storage takes its name when the copy is whole, a             *)
(* generation's only if its profile is still there; or the copy failed or   *)
(* was cancelled.                                                           *)
PublishImport(i) ==
    /\ TurnFree
    /\ \/ TakesName(i) /\ (i \in Profiling \/ imports[i].profile \in owners)
       \/ Turns(i, "filling", "broken") /\ UNCHANGED placed
    /\ UNCHANGED <<owners, journaled, exportVars, workspaces, busy, claims, mishaps, kills>>

(* The row; a name may have been taken.  What raises may be durable.        *)
Commit(i) ==
    /\ IF i \in Profiling /\ imports[i].name \in Names
       THEN Turns(i, "published", "broken") /\ NoMishap /\ UNCHANGED owners
       ELSE \/ Turns(i, "published", "committed") /\ NoMishap /\ owners' = owners \cup {i}
            \/ Turns(i, "published", "broken") /\ Mishap /\ owners' \in {owners, owners \cup {i}}
    /\ UNCHANGED <<placed, journaled, exportVars, workspaces, busy, claims, kills>>

(* reconcile_deletion_intent *)
Reconciled(is) ==
    LET lost == is \ owners
    IN  /\ journaled' = journaled \ is
        /\ placed' = {IF f[1] \in is THEN <<f[1], "public">> ELSE f : f \in {f \in placed : f[1] \notin lost}}

(* _durable_imported_profile_response, _durable_imported_generation_result: *)
(* the rows and the storage as they were meant, read again.                 *)
Proven(i) == i \in owners

(* The commit returned, or is proven: the intent is finished, if it can be. *)
(* A failure is reconciled, unless nobody can say whether it is one.        *)
SettleImport(i) ==
    /\ At(i) \in {"committed", "broken"}
    /\ \/ /\ imports' = [imports EXCEPT ![i] = [at |-> "cleaning", ok |-> Proven(i), name |-> @.name, profile |-> @.profile]]
          /\ \/ NoMishap /\ Reconciled({i})
             \/ Mishap /\ UNCHANGED <<placed, journaled>>
       \/ At(i) = "broken" /\ Turns(i, "broken", "cleaning") /\ Mishap /\ UNCHANGED <<placed, journaled>>
    /\ UNCHANGED <<owners, exportVars, workspaces, busy, claims, kills>>

CleanupImport(i) ==
    /\ TurnFree /\ Turns(i, "cleaning", IF imports[i].ok THEN "answered" ELSE "refused")
    /\ ClearWorkspace(i)
    /\ UNCHANGED <<owners, placed, journaled, exportVars, kills>>

(* delete_profile, with the generations that were given to it. *)
DeleteProfile(p) ==
    LET gone == {p} \cup {i \in Imports \ Profiling : imports[i].profile = p}
    IN  /\ TurnFree /\ p \in ImportedProfiles
        /\ owners' = owners \ gone
        /\ placed' = {f \in placed : ~(f[1] \in gone \cap owners)}
        /\ UNCHANGED <<imports, journaled, exportVars, workspaces, busy, claims, mishaps, kills>>

-----------------------------------------------------------------------------
(* export_profile_to_zip, export_generation_to_zip *)

(* What is exported changes, rows and files at once or any of them. *)
ChangeSource(ms) ==
    /\ TurnFree /\ changes < MaxChanges /\ changes' = changes + 1 /\ ms # {}
    /\ \E gone \in SUBSET (ms \cap Copies) :
          content' = [m \in Exported |-> IF m \in gone THEN 0 ELSE IF m \in ms THEN changes + 1 ELSE content[m]]
    /\ past' = past \cup {content'}
    /\ UNCHANGED <<importVars, exports, workspaces, busy, claims, mishaps, kills>>

(* The rows of a generation and its versions, or of a profile and its       *)
(* samples, as they are now.                                                *)
RowsRead == [m \in Exported |-> IF m \in Rows THEN content[m] ELSE 0]

(* _preflight_managed_export_file: every file is there. *)
Inventoried == \A m \in Copies : content[m] # 0

(* _allocate_archive_export: a sweep, then the directory and its lease, if  *)
(* the disk has the space.                                                  *)
AllocateExport(e) ==
    \E left \in SUBSET Stale(Exports), space \in BOOLEAN :
        LET stay == (workspaces \ Exports) \cup busy \cup left
            mine == IF space THEN {e} ELSE {}
        IN  /\ IF left = {} THEN NoMishap ELSE Mishap
            /\ workspaces' = (workspaces \cap stay) \cup mine
            /\ claims' = (claims \cap stay) \cup mine /\ busy' = busy \cup mine
            /\ exports' = [exports EXCEPT ![e] =
                  [at |-> IF space THEN "copying" ELSE "refused", seen |-> content, has |-> RowsRead]]

(* Rows are read, files inventoried and the directory taken in one turn.    *)
StartExport(e) ==
    /\ TurnFree /\ exports[e].at = "new"
    /\ IF Cardinality(busy \cap Exports) < ExportsMost /\ Inventoried
       THEN AllocateExport(e)
       ELSE exports' = [exports EXCEPT ![e].at = "refused"] /\ NoMishap /\ UNCHANGED <<workspaces, busy, claims>>
    /\ UNCHANGED <<importVars, content, past, kills, changes>>

(* _open_preflighted_export_member: the file of the inventory, or none.     *)
CopyMember(e, m) ==
    /\ exports[e].at = "copying" /\ exports[e].has[m] = 0
    /\ IF content[m] = exports[e].seen[m]
       THEN exports' = [exports EXCEPT ![e].has[m] = content[m]]
       ELSE exports' = [exports EXCEPT ![e].at = "ending"]
    /\ UNCHANGED <<importVars, content, past, workspaces, busy, claims, mishaps, kills, changes>>

(* The archive is whole and handed to the response; or cancelled meanwhile. *)
Deliver(e) ==
    /\ exports[e].at = "copying" /\ \A m \in Copies : exports[e].has[m] # 0
    /\ \E to \in {"sending", "ending"} : exports' = [exports EXCEPT ![e].at = to]
    /\ UNCHANGED <<importVars, content, past, workspaces, busy, claims, mishaps, kills, changes>>

(* The client has it, or has left; or nothing was delivered. *)
EndExport(e) ==
    /\ exports[e].at \in {"sending", "ending"} /\ ClearWorkspace(e)
    /\ exports' = [exports EXCEPT ![e].at = IF @ = "sending" THEN "sent" ELSE "refused"]
    /\ UNCHANGED <<importVars, content, past, kills, changes>>

-----------------------------------------------------------------------------
(* The process dies and starts again: recover_interrupted_deletions.        *)
Kill ==
    /\ kills < MaxKills /\ kills' = kills + 1
    /\ imports' = [i \in Imports |-> IF At(i) \in {"new", "refused", "answered"} THEN imports[i]
                                     ELSE [imports[i] EXCEPT !.at = "refused"]]
    /\ exports' = [e \in Exports |-> IF exports[e].at \in {"new", "sent", "refused"} THEN exports[e]
                                     ELSE [exports[e] EXCEPT !.at = "refused"]]
    /\ \E failed \in SUBSET journaled :
          /\ IF failed = {} THEN NoMishap ELSE Mishap
          /\ Reconciled(journaled \ failed)
    /\ busy' = {} /\ claims' = {}
    /\ UNCHANGED <<owners, content, past, workspaces, changes>>

ImportsNext ==
    \/ \E i \in Imports :
           InspectImport(i) \/ RefuseImport(i) \/ AllocateImport(i) \/ Prepare(i) \/ PublishImport(i) \/ Commit(i)
           \/ SettleImport(i) \/ CleanupImport(i)
    \/ \E p \in ImportedProfiles : DeleteProfile(p)

ExportsNext ==
    \/ \E ms \in SUBSET Exported : ChangeSource(ms)
    \/ \E e \in Exports : StartExport(e) \/ Deliver(e) \/ EndExport(e) \/ \E m \in Copies : CopyMember(e, m)

ArchivesNext == ImportsNext \/ ExportsNext \/ Kill

-----------------------------------------------------------------------------
(* Properties. *)

(* Nothing is imported by half: a row has its storage under the public name,*)
(* or a journaled name that recovery makes public; storage without a row is *)
(* journaled; a generation's profile is there though it may be deleted      *)
(* between the choice and the row; and no two profiles have one name though *)
(* two imports may choose it at once.                                       *)
ImportsAreWhole ==
    /\ \A i \in owners \ {OldProfile} : <<i, "public">> \in placed
    /\ \A f \in placed : f[1] \in owners \/ f[1] \in journaled
    /\ \A g \in owners \ ImportedProfiles : imports[g].profile \in owners
    /\ \A p, q \in ImportedProfiles : NameOf(p) = NameOf(q) => p = q

(* An archive that is sent is the profile or the generation as it was at    *)
(* one time, rows and files: never the text of one version and the audio of *)
(* another, whatever is edited while it is copied.                          *)
ExportsAreOfOneMoment ==
    \A e \in Exports : exports[e].at \in {"sending", "sent"} => exports[e].has \in past

(* A directory that this process made holds its lease until it is gone,     *)
(* even if its removal fails and a later sweep has to take it; a response   *)
(* or an import at work has its directory, and there are never too many.    *)
WorkspacesAreClaimed ==
    /\ busy \subseteq claims /\ claims \subseteq workspaces
    /\ kills = 0 => workspaces = claims
    /\ Cardinality(busy \cap Imports) <= ImportsMost /\ Cardinality(busy \cap Exports) <= ExportsMost
    /\ \A e \in Exports : exports[e].at \in {"copying", "sending"} => e \in busy

(* An export is a sound copy from a place of its own: both of the above.    *)
ExportsAreSound == ExportsAreOfOneMoment /\ WorkspacesAreClaimed

=============================================================================
