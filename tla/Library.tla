-------------------------------- MODULE Library --------------------------------
(***************************************************************************)
(* The audio of the library and who refers to it: generation rows with a   *)
(* public file, their versions, the clips of one story that play them.     *)
(* SQLite enforces none of these references; services/versions.py,         *)
(* services/history.py, services/stories.py and the writers of             *)
(* services/generation.py keep them between them.                          *)
(*                                                                         *)
(* Handlers run to their end on one event loop unless they await.  Two     *)
(* await in the middle: the job of a generation, while its WAV is written  *)
(* or rendered (_publish_generation_audio), and a request that applies     *)
(* effects (apply_effects_to_generation).  Every other handler may run     *)
(* then.  A file becomes public in the step that commits its row; the      *)
(* window between the two and the crash in it are DeletionJournal's.       *)
(***************************************************************************)
EXTENDS Naturals, FiniteSets

CONSTANTS
  Gens,         \* generation IDs
  Clips,        \* story item IDs
  MaxFiles,     \* bound on the files and versions ever made
  None          \* a null column

ASSUME NoneAssumption == None \notin Gens \cup Clips \cup Nat \cup {"job", "apply", "preview"}
ASSUME FilesAssumption == MaxFiles \in Nat /\ MaxFiles >= 2   \* the files of LibraryInit

VARIABLES
  gen,          \* rows of generations: status and audio_path
  ver,          \* rows of generation_versions, by ID in creation order
  clip,         \* rows of story_items: generation_id and version_id
  files,        \* files under generations/ that no journal entry hides
  next,         \* the next unused file and version ID
  job,          \* the generation the worker runs, and the await it is in
  apply,        \* the request that applies effects
  slot,         \* who holds _effects_processing_lock
  unversioned   \* files published as audio_path without a version row

libraryVars == <<gen, ver, clip, files, next, job, apply, slot, unversioned>>

Ids == 1..MaxFiles
Version == [gen : Gens, file : Ids, fx : BOOLEAN, dflt : BOOLEAN, src : Ids \cup {None}]

ASSUME RowAssumption == None \notin Version

LibraryTypeOK ==
  /\ gen \in [Gens -> [st : {"absent", "generating", "completed", "failed"},
                       audio : Ids \cup {None}]]
  /\ ver \in [Ids -> Version \cup {None}]
  /\ clip \in [Clips -> [gen : Gens, pin : Ids \cup {None}] \cup {None}]
  /\ files \subseteq Ids /\ unversioned \subseteq Ids
  /\ next \in 1..(MaxFiles + 1)
  /\ job \in [at : {"idle", "clean", "processed", "synth", "retry", "regenerate"},
              gen : Gens \cup {None}, old : Ids \cup {None}]
  /\ apply \in [gen : Gens \cup {None}, src : Ids \cup {None}]
  /\ slot \in {None, "job", "apply", "preview"}

Idle == [at |-> "idle", gen |-> None, old |-> None]
NoApply == [gen |-> None, src |-> None]
NoGeneration == [st |-> "absent", audio |-> None]

Rows == {v \in Ids : ver[v] # None}
VersionsOf(g) == {v \in Rows : ver[v].gen = g}
Defaults(g) == {v \in VersionsOf(g) : ver[v].dflt}
First(S) == CHOOSE v \in S : \A w \in S : v <= w
Used(g) == \E c \in Clips : clip[c] # None /\ clip[c].gen = g

(* An empty library, or one with two versions that name one file by two    *)
(* aliases, as old databases have them.                                    *)
LibraryInit ==
  /\ clip = [c \in Clips |-> None]
  /\ job = Idle /\ apply = NoApply /\ slot = None /\ unversioned = {}
  /\ \/ /\ gen = [g \in Gens |-> NoGeneration]
        /\ ver = [v \in Ids |-> None] /\ files = {} /\ next = 1
     \/ \E g \in Gens :
          /\ gen = [h \in Gens |-> IF h = g THEN [st |-> "completed", audio |-> 1] ELSE NoGeneration]
          /\ ver = [v \in Ids |-> IF v \in {1, 2}
                      THEN [gen |-> g, file |-> 1, fx |-> FALSE, dflt |-> v = 1, src |-> None]
                      ELSE None]
          /\ files = {1} /\ next = 3

-----------------------------------------------------------------------------
(* What a commit may do.  "ok": durable, also when the driver reported a   *)
(* failure that a fresh session refuted.  "lost": rolled back.  "untold":  *)
(* durable, but no session could tell, so the handler fails.               *)

Outcomes == {"ok", "lost", "untold"}
Durable(o) == o # "lost"

(* create_version: a default one takes the flag from the others. *)
AddVersion(g, f, fx, dflt, src) ==
  [v \in Ids |->
     IF v = f THEN [gen |-> g, file |-> f, fx |-> fx, dflt |-> dflt, src |-> src]
     ELSE IF dflt /\ v \in VersionsOf(g) THEN [ver[v] EXCEPT !.dflt = FALSE]
     ELSE ver[v]]

(* The rows of a durable create_version, with the public path of a default. *)
Create(g, fx, dflt, src) ==
  /\ ver' = AddVersion(g, next, fx, dflt, src)
  /\ files' = files \cup {next} /\ next' = next + 1

(* reconcile_deletion_intent of a publication whose row is not durable. *)
DropPublication == UNCHANGED <<files, next>>

SetGen(g, st, audio) == gen' = [gen EXCEPT ![g] = [st |-> st, audio |-> audio]]

(* _unreferenced_managed_audio_paths: the files of S that lose their last  *)
(* owner when the versions dropped go and the rows of changing move on.    *)
Unreferenced(S, dropped, changing) ==
  {f \in S : /\ ~\E v \in Rows \ dropped : ver[v].file = f
             /\ ~\E g \in Gens \ changing : gen[g].audio = f}

(* The files of S are hidden, and discarded when the rows are durable. *)
DiscardFiles(S) == files' = files \ S

(* _hold_effects_processing: one rendering at a time, nobody queues. *)
SlotFree == slot = None

-----------------------------------------------------------------------------
(* The job of a generation: run_generation and its three ways to save *)

(* Bound: a step that makes a file needs an unused one. *)
CanMake == next <= MaxFiles

(* create_generation for generate_speech: a new row, and its job if the     *)
(* handler knows of it; one that is durable untold waits for the next       *)
(* start.  The effects it asked for are first read when the audio is saved. *)
Submit(g, o) ==
  /\ job = Idle /\ gen[g] = NoGeneration /\ Durable(o)
  /\ job' = IF o = "ok" THEN [at |-> "clean", gen |-> g, old |-> None] ELSE Idle
  /\ SetGen(g, "generating", None)
  /\ UNCHANGED <<ver, clip, files, next, apply, slot, unversioned>>

Retry(g) ==
  /\ job = Idle /\ gen[g].st = "failed"
  /\ job' = [at |-> "synth", gen |-> g, old |-> None]
  /\ SetGen(g, "generating", gen[g].audio)
  /\ UNCHANGED <<ver, clip, files, next, apply, slot, unversioned>>

Regenerate(g) ==
  /\ job = Idle /\ gen[g].st = "completed"
  /\ job' = [at |-> "regenerate", gen |-> g, old |-> None]
  /\ SetGen(g, "generating", gen[g].audio)
  /\ UNCHANGED <<ver, clip, files, next, apply, slot, unversioned>>

(* run_generation ends in failure or cancelled; a rendering that was       *)
(* interrupted has drained its worker and left the slot.                   *)
EndFailed(audio) ==
  /\ job' = Idle /\ SetGen(job.gen, "failed", audio)
  /\ slot' = IF slot = "job" THEN None ELSE slot

JobFails ==
  /\ job # Idle /\ EndFailed(gen[job.gen].audio)
  /\ UNCHANGED <<ver, clip, files, next, apply, unversioned>>

(* The status "completed" is committed with the final path, or not at all. *)
EndSaved(o, audio) ==
  IF o = "ok"
  THEN \E done \in BOOLEAN :
         /\ job' = Idle /\ SetGen(job.gen, IF done THEN "completed" ELSE "failed", audio)
         /\ slot' = IF slot = "job" THEN None ELSE slot
  ELSE EndFailed(IF Durable(o) THEN audio ELSE gen[job.gen].audio)

(* _save_generate, first version.  With effects wanted the clean version   *)
(* is not the default, and the processed one needs the effects slot at     *)
(* once: nobody queues for it, so a request that holds it fails the job.   *)
SaveClean(o, fx) ==
  /\ job.at = "clean" /\ CanMake
  /\ IF Durable(o) THEN Create(job.gen, FALSE, ~fx, None)
                   ELSE DropPublication /\ UNCHANGED ver
  /\ IF fx
     THEN IF o = "ok" /\ SlotFree
          THEN /\ job' = [job EXCEPT !.at = "processed"] /\ slot' = "job"
               /\ UNCHANGED gen
          ELSE EndFailed(gen[job.gen].audio)
     ELSE EndSaved(o, next)
  /\ UNCHANGED <<clip, apply, unversioned>>

(* _save_generate, second version. *)
SaveProcessed(o) ==
  /\ job.at = "processed" /\ CanMake
  /\ IF Durable(o) THEN Create(job.gen, TRUE, TRUE, None)
                   ELSE DropPublication /\ UNCHANGED ver
  /\ EndSaved(o, next)
  /\ UNCHANGED <<clip, apply, unversioned>>

(* _save_retry reads the predecessor, then awaits its publication. *)
ReadPredecessor ==
  /\ job.at = "synth"
  /\ job' = [job EXCEPT !.at = "retry", !.old = gen[job.gen].audio]
  /\ UNCHANGED <<gen, ver, clip, files, next, apply, slot, unversioned>>

(* ... then replaces the public path and hides the predecessor if nobody   *)
(* else owns it, in one transaction; versions are left alone.              *)
SaveRetry(o) ==
  /\ job.at = "retry" /\ CanMake
  /\ IF Durable(o)
     THEN /\ files' = (files \ Unreferenced({job.old} \ {None}, {}, {job.gen})) \cup {next}
          /\ next' = next + 1 /\ unversioned' = unversioned \cup {next}
     ELSE DropPublication /\ UNCHANGED unversioned
  /\ EndSaved(o, next)
  /\ UNCHANGED <<ver, clip, apply>>

(* _save_regenerate: a new default take. *)
SaveTake(o) ==
  /\ job.at = "regenerate" /\ CanMake
  /\ IF Durable(o) THEN Create(job.gen, FALSE, TRUE, None)
                   ELSE DropPublication /\ UNCHANGED ver
  /\ EndSaved(o, next)
  /\ UNCHANGED <<clip, apply, unversioned>>

(* import_audio and import_generation_from_zip: a completed row with one   *)
(* file and no version, or nothing.                                        *)
Import(g) ==
  /\ gen[g] = NoGeneration /\ CanMake
  /\ SetGen(g, "completed", next)
  /\ files' = files \cup {next} /\ next' = next + 1
  /\ unversioned' = unversioned \cup {next}
  /\ UNCHANGED <<ver, clip, job, apply, slot>>

-----------------------------------------------------------------------------
(* Versions and effects *)

(* The source of a request that names none: the first clean version, or    *)
(* the public file of a row without one.                                   *)
Sources(g) ==
  LET clean == {v \in VersionsOf(g) : ~ver[v].fx}
  IN VersionsOf(g) \cup (IF clean = {} THEN {None} ELSE {First(clean)})

SourceFile(g, s) == IF s = None THEN gen[g].audio ELSE ver[s].file

(* apply_effects_to_generation up to its await.  A slot in use is a 409.    *)
(* Whether the version is to be the default is first read after the await.  *)
ApplyEffects(g, s) ==
  /\ SlotFree /\ gen[g].st = "completed"
  /\ s \in Sources(g) /\ SourceFile(g, s) \in files
  /\ apply' = [gen |-> g, src |-> s] /\ slot' = "apply"
  /\ UNCHANGED <<gen, ver, clip, files, next, job, unversioned>>

(* Faulty variant: what was read before the await is still believed. *)
StillThereUnread == TRUE

(* Read again after the await: the generation and the source version. *)
StillThere ==
  /\ gen[apply.gen] # NoGeneration
  /\ apply.src # None => apply.src \in VersionsOf(apply.gen)

Publish(o, dflt) ==
  IF StillThere /\ Durable(o)
  THEN /\ Create(apply.gen, TRUE, dflt, apply.src)
       /\ gen' = IF dflt /\ gen[apply.gen] # NoGeneration
                 THEN [gen EXCEPT ![apply.gen].audio = next] ELSE gen
  ELSE DropPublication /\ UNCHANGED <<ver, gen>>

EffectsApplied(o, dflt) ==
  /\ slot = "apply" /\ CanMake
  /\ Publish(o, dflt) /\ apply' = NoApply /\ slot' = None
  /\ UNCHANGED <<clip, job, unversioned>>

(* The rendering fails or its client leaves: nothing was published. *)
EffectsFail ==
  /\ slot = "apply" /\ apply' = NoApply /\ slot' = None
  /\ UNCHANGED <<gen, ver, clip, files, next, job, unversioned>>

(* preview_effects, and the file of a streamed answer: no rows at all. *)
Preview(g) ==
  /\ SlotFree /\ gen[g].st = "completed" /\ slot' = "preview"
  /\ UNCHANGED <<gen, ver, clip, files, next, job, apply, unversioned>>

PreviewEnds ==
  /\ slot = "preview" /\ slot' = None
  /\ UNCHANGED <<gen, ver, clip, files, next, job, apply, unversioned>>

(* set_default_version, one transaction. *)
SetDefault(v) ==
  /\ v \in Rows
  /\ ver' = [w \in Ids |-> IF w \in VersionsOf(ver[v].gen)
                           THEN [ver[w] EXCEPT !.dflt = w = v] ELSE ver[w]]
  /\ gen' = [gen EXCEPT ![ver[v].gen].audio = ver[v].file]
  /\ UNCHANGED <<clip, files, next, job, apply, slot, unversioned>>

(* Faulty variant: only derived versions keep their source. *)
Underived(v) == ~\E w \in Rows : ver[w].src = v

(* VersionInUseError: a clip pins it, or another version came from it. *)
Deletable(v) ==
  /\ ~\E c \in Clips : clip[c] # None /\ clip[c].pin = v
  /\ ~\E w \in Rows : ver[w].src = v

(* The heir of a deleted default also becomes the public file. *)
Promote(v, heir) ==
  gen' = IF ver[v].dflt THEN [gen EXCEPT ![ver[v].gen].audio = ver[heir].file] ELSE gen

(* delete_version, one transaction around the hidden file.  Rolled back,   *)
(* it changes nothing.                                                     *)
DeleteVersion(v) ==
  LET g == ver[v].gen
      rest == VersionsOf(g) \ {v}
      heir == First(rest)
  IN /\ v \in Rows /\ Deletable(v) /\ rest # {}
     /\ DiscardFiles(Unreferenced({ver[v].file}, {v}, IF ver[v].dflt THEN {g} ELSE {}))
     /\ ver' = [w \in Ids |-> CASE w = v -> None
                                [] ver[v].dflt /\ w \in rest -> [ver[w] EXCEPT !.dflt = w = heir]
                                [] OTHER -> ver[w]]
     /\ Promote(v, heir)
     /\ UNCHANGED <<clip, next, job, apply, slot, unversioned>>

-----------------------------------------------------------------------------
(* Deleting generations *)

(* _delete_generation_records and its commit. *)
DeleteRecords(S) ==
  LET gone == {v \in Rows : ver[v].gen \in S}
      named == {ver[v].file : v \in gone} \cup ({gen[g].audio : g \in S} \ {None})
  IN /\ ~\E g \in S : Used(g)
     /\ DiscardFiles(Unreferenced(named, gone, S))
     /\ ver' = [v \in Ids |-> IF v \in gone THEN None ELSE ver[v]]
     /\ gen' = [g \in Gens |-> IF g \in S THEN NoGeneration ELSE gen[g]]
     /\ UNCHANGED <<clip, next, job, apply, slot, unversioned>>

(* The route: no job of its own, and no status of running work. *)
DeleteGeneration(g) ==
  /\ gen[g].st \in {"completed", "failed"} /\ job.gen # g
  /\ DeleteRecords({g})

Failed == {g \in Gens : gen[g].st = "failed" /\ job.gen # g}

(* "Clear failed": all of them, or none if a clip uses one. *)
ClearFailed == Failed # {} /\ DeleteRecords(Failed)

-----------------------------------------------------------------------------
(* The clips of a story *)

(* add_item_to_story: a usable row that the story does not have yet. *)
AddClip(c, g) ==
  /\ clip[c] = None /\ ~Used(g)
  /\ gen[g].st = "completed" /\ gen[g].audio \in files
  /\ clip' = [clip EXCEPT ![c] = [gen |-> g, pin |-> None]]
  /\ UNCHANGED <<gen, ver, files, next, job, apply, slot, unversioned>>

(* set_story_item_version: a version of the clip's own generation. *)
Pin(c, p) ==
  /\ clip[c] # None /\ (p = None \/ p \in VersionsOf(clip[c].gen))
  /\ clip' = [clip EXCEPT ![c].pin = p]
  /\ UNCHANGED <<gen, ver, files, next, job, apply, slot, unversioned>>

(* split_story_item and duplicate_story_item: the copy keeps the pin. *)
CopyClip(c, d) ==
  /\ clip[c] # None /\ clip[d] = None
  /\ clip' = [clip EXCEPT ![d] = clip[c]]
  /\ UNCHANGED <<gen, ver, files, next, job, apply, slot, unversioned>>

(* remove_item_from_story of one clip, delete_story of all of them. *)
RemoveClips(S) ==
  /\ S \in {{c} : c \in Clips} \cup {Clips} /\ \E c \in S : clip[c] # None
  /\ clip' = [c \in Clips |-> IF c \in S THEN None ELSE clip[c]]
  /\ UNCHANGED <<gen, ver, files, next, job, apply, slot, unversioned>>

-----------------------------------------------------------------------------
(* Death and the next start: init_db backfills a default version for every *)
(* completed row without one, publications nobody owns are discarded, and  *)
(* rows of running work are failed.                                        *)

Backfilled == {g \in Gens : /\ gen[g].st = "completed" /\ VersionsOf(g) = {}
                            /\ gen[g].audio \in files}

Restart ==
  /\ gen' = [g \in Gens |-> IF gen[g].st = "generating" THEN [gen[g] EXCEPT !.st = "failed"]
                            ELSE gen[g]]
  /\ ver' = [v \in Ids |-> IF \E g \in Backfilled : gen[g].audio = v
               THEN LET g == CHOOSE g \in Backfilled : gen[g].audio = v
                    IN [gen |-> g, file |-> v, fx |-> FALSE, dflt |-> TRUE, src |-> None]
               ELSE ver[v]]
  /\ unversioned' = unversioned \ {gen[g].audio : g \in Backfilled}
  /\ job' = Idle /\ apply' = NoApply /\ slot' = None
  /\ UNCHANGED <<clip, files, next>>

-----------------------------------------------------------------------------
JobStep == \/ JobFails \/ ReadPredecessor
           \/ \E o \in Outcomes : \/ \E fx \in BOOLEAN : SaveClean(o, fx)
                                  \/ SaveProcessed(o) \/ SaveRetry(o) \/ SaveTake(o)

LibraryNext ==
  \/ \E g \in Gens : \/ Retry(g) \/ Regenerate(g) \/ Import(g) \/ Preview(g)
                     \/ DeleteGeneration(g)
                     \/ \E o \in Outcomes : Submit(g, o)
                     \/ \E s \in Ids \cup {None} : ApplyEffects(g, s)
                     \/ \E c \in Clips : AddClip(c, g)
  \/ JobStep
  \/ \E o \in Outcomes, dflt \in BOOLEAN : EffectsApplied(o, dflt)
  \/ EffectsFail \/ PreviewEnds
  \/ \E v \in Ids : SetDefault(v) \/ DeleteVersion(v)
  \/ ClearFailed
  \/ \E c \in Clips : \/ \E p \in Ids \cup {None} : Pin(c, p)
                      \/ \E d \in Clips : CopyClip(c, d)
  \/ \E S \in SUBSET Clips : RemoveClips(S)
  \/ Restart

LibrarySpec == LibraryInit /\ [][LibraryNext]_libraryVars

-----------------------------------------------------------------------------
(* Every file that a generation or a version names is there, whoever else  *)
(* let go of it: aliases, retried predecessors and deleted versions share  *)
(* files (versions.py:50, history.py:135).                                 *)
AudioIsThere ==
  /\ \A g \in Gens : gen[g].audio # None => gen[g].audio \in files
  /\ \A v \in Rows : ver[v].file \in files

(* The references SQLite does not enforce: a clip's generation exists and  *)
(* its pin is a version of that generation; a version's generation and     *)
(* source exist (versions.py:321, effects.py:322, stories.py:1239).        *)
ReferencesResolve ==
  /\ \A c \in Clips : clip[c] # None =>
       /\ gen[clip[c].gen] # NoGeneration
       /\ clip[c].pin # None => clip[c].pin \in VersionsOf(clip[c].gen)
  /\ \A v \in Rows :
       /\ gen[ver[v].gen] # NoGeneration
       /\ ver[v].src # None => ver[v].src \in VersionsOf(ver[v].gen)

(* A generation has at most one default version, and what it plays is that *)
(* version or a take that came without one (retried or imported).          *)
DefaultIsPublic ==
  \A g \in Gens :
    /\ Cardinality(Defaults(g)) <= 1
    /\ gen[g].audio \in {None} \cup unversioned \cup {ver[v].file : v \in Defaults(g)}

(* Nothing is left on the disk that no row names, except a take that never *)
(* had a version and lost its place as the public file.                    *)
OnlyUnversionedStray ==
  files \ ({gen[g].audio : g \in Gens} \cup {ver[v].file : v \in Rows}) \subseteq unversioned

(* Rows, versions, clips and files name each other and nothing else. *)
LibraryIsWhole == LibraryTypeOK /\ AudioIsThere /\ ReferencesResolve /\ DefaultIsPublic /\ OnlyUnversionedStray

(* While a clip stays pinned to a version, what it plays does not change,  *)
(* whatever is retried, regenerated, processed, deleted or restarted.      *)
PinnedClipKeepsItsAudio ==
  [][\A c \in Clips :
       /\ clip[c] # None /\ clip[c].pin # None /\ clip'[c] = clip[c]
       => /\ ver'[clip[c].pin] # None
          /\ ver'[clip[c].pin].file = ver[clip[c].pin].file
          /\ ver[clip[c].pin].file \in files']_libraryVars
=============================================================================
