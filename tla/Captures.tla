------------------------------ MODULE Captures ------------------------------
(***************************************************************************)
(* Captures: an uploaded recording that is stored, transcribed, refined,    *)
(* transcribed again and deleted.  backend/services/captures.py with        *)
(* routes/captures.py.                                                      *)
(*                                                                         *)
(* A recording is journaled before it has a byte, renamed to its public     *)
(* name and then committed; a deletion hides it, commits and discards it.   *)
(* The loop is not given up between these steps, but the process may die.   *)
(* Transcribing and refining await a model with nothing locked.             *)
(*                                                                         *)
(* Abstracted: the journal's own failures (DeletionJournal); an empty       *)
(* placeholder that a crash leaves before its intent; how text is made.     *)
(***************************************************************************)
EXTENDS Integers, FiniteSets

CONSTANTS Uploads,
          Compressed,    \* the uploads that are not WAV and are transcoded
          Revisions,     \* requests to refine or to transcribe again
          Texts,
          NoText,
          MaxRaises,     \* bound: calls of the journal or the database that fail
          MaxDeaths

ASSUME CapturesAssumption ==
    /\ Compressed \subseteq Uploads /\ NoText \notin Texts /\ Uploads # {} /\ "nobody" \notin Uploads

VARIABLES at,        \* each upload: new, filling, transcoding, ready, published, failing, committed,
                     \* answered, refused, deleting, bare, settling, gone, lost
          rows,      \* the captures of the database: raw text, and the text its refinement is of
          files,     \* <<upload, name>> with name raw, new, audio (the public one) or hidden
          intents,   \* <<upload, hidden name>> of the journal
          revision,  \* each revision: idle, or what it is about and has read
          turn,      \* the upload whose handler has the loop, or nobody
          up,        \* FALSE from a crash until the journal is read
          tried,     \* intents that startup has tried
          raises,
          deaths

captureVars == <<at, rows, files, intents, revision, turn, up, tried, raises, deaths>>

NoUpload == "nobody"
NoRow == [raw |-> NoText, refined |-> NoText]
NoRevision == [kind |-> "idle"]
RevisionOf(u, kind) == [kind |-> kind, of |-> u, read |-> rows[u].raw]

CapturesInit ==
    /\ at = [u \in Uploads |-> "new"] /\ rows = [u \in Uploads |-> NoRow]
    /\ files = {} /\ intents = {} /\ revision = [r \in Revisions |-> NoRevision]
    /\ turn = NoUpload /\ up = TRUE /\ tried = {} /\ raises = 0 /\ deaths = 0

Exists(u) == rows[u] # NoRow
Goes(u, from, to) == up /\ at[u] = from /\ at' = [at EXCEPT ![u] = to]
LoopFree == up /\ turn = NoUpload
Raise == raises < MaxRaises /\ raises' = raises + 1
NoRaise == UNCHANGED raises

(* reconcile_deletion_intent: what the database owns is renamed back, or    *)
(* is there; all else goes, by either name.  A failure retains the intents. *)
Reconcile(is) ==
    LET Public(i) == <<i[1], "audio">>
        unowned == {i \in is : ~Exists(i[1])}
        restored == {i \in (is \cap files) \ unowned : i[2] # "raw"}
    IN  \/ /\ NoRaise /\ intents' = intents \ is
           /\ files' = (files \ (is \cup {Public(i) : i \in unowned})) \cup {Public(i) : i \in restored}
        \/ is # {} /\ Raise /\ UNCHANGED <<files, intents>>

-----------------------------------------------------------------------------
(* create_capture *)

(* A placeholder with its intent, for a thread to fill. *)
Placeholder(f) == files' = files \cup {f} /\ intents' = intents \cup {f}

Place(u) ==
    /\ LoopFree /\ Goes(u, "new", "filling")
    /\ Placeholder(<<u, IF u \in Compressed THEN "raw" ELSE "new">>)
    /\ UNCHANGED <<rows, revision, turn, up, tried, raises, deaths>>

(* Decoded; another placeholder for the WAV of it. *)
Transcode(u) ==
    /\ u \in Compressed /\ LoopFree /\ Goes(u, "filling", "transcoding")
    /\ Placeholder(<<u, "new">>)
    /\ UNCHANGED <<rows, revision, turn, up, tried, raises, deaths>>

(* The WAV is whole; what was uploaded goes, and its transcription begins.  *)
Transcribe(u) ==
    /\ LoopFree /\ Goes(u, IF u \in Compressed THEN "transcoding" ELSE "filling", "ready")
    /\ files' = files \ {<<u, "raw">>} /\ intents' = intents \ {<<u, "raw">>}
    /\ UNCHANGED <<rows, revision, turn, up, tried, raises, deaths>>

(* Faulty variant: published, hence no more in need of its intent. *)
PublishFinished(u) ==
    /\ LoopFree /\ Goes(u, "ready", "published") /\ turn' = u
    /\ files' = (files \ {<<u, "new">>}) \cup {<<u, "audio">>}
    /\ intents' = intents \ {<<u, "new">>} /\ UNCHANGED <<rows, revision, up, tried, raises, deaths>>

Publish(u) ==
    /\ LoopFree /\ Goes(u, "ready", "published") /\ turn' = u
    /\ files' = (files \ {<<u, "new">>}) \cup {<<u, "audio">>}
    /\ UNCHANGED <<rows, intents, revision, up, tried, raises, deaths>>

(* A commit is durable or not, whether it raises or not. *)
Insert(u) ==
    /\ \/ \E t \in Texts : rows' = [rows EXCEPT ![u] = [raw |-> t, refined |-> NoText]]
          /\ Goes(u, "published", "committed") /\ NoRaise
       \/ Goes(u, "published", "failing") /\ Raise /\ UNCHANGED rows
    /\ UNCHANGED <<files, intents, revision, turn, up, tried, deaths>>

(* The row and the file are proven; the intent may stay.                    *)
Finish(u) ==
    /\ Goes(u, "committed", "answered") /\ turn' = NoUpload
    /\ \/ NoRaise /\ intents' = intents \ {<<u, "new">>}
       \/ Raise /\ UNCHANGED intents
    /\ UNCHANGED <<rows, files, revision, up, tried, deaths>>

(* Refused, cancelled or broken at an await; or at the commit, without a    *)
(* proof that it is durable.                                                *)
GiveUp(u) ==
    /\ up /\ at[u] \in {"filling", "transcoding", "ready", "failing", "committed"}
    /\ at[u] \in {"failing", "committed"} \/ turn = NoUpload
    /\ at' = [at EXCEPT ![u] = "refused"] /\ turn' = NoUpload
    /\ Reconcile({i \in intents : i[1] = u})
    /\ UNCHANGED <<rows, revision, up, tried, deaths>>

-----------------------------------------------------------------------------
(* delete_capture *)

(* The audio is hidden behind an intent, unless it is not there: an earlier *)
(* deletion may have hidden it and failed.                                  *)
Stage(u) ==
    LET audio == <<u, "audio">>  hidden == <<u, "hidden">>
    IN  /\ LoopFree /\ Exists(u) /\ turn' = u
        /\ IF audio \in files
           THEN /\ files' = (files \ {audio}) \cup {hidden} /\ intents' = intents \cup {hidden}
                /\ at' = [at EXCEPT ![u] = "deleting"]
           ELSE at' = [at EXCEPT ![u] = "bare"] /\ UNCHANGED <<files, intents>>
        /\ UNCHANGED <<rows, revision, up, tried, raises, deaths>>

DeleteRow(u) ==
    /\ Goes(u, "deleting", "settling")
    /\ \/ rows' = [rows EXCEPT ![u] = NoRow] /\ NoRaise
       \/ Raise /\ UNCHANGED rows
    /\ UNCHANGED <<files, intents, revision, turn, up, tried, deaths>>

(* Where nothing was staged there is nothing to settle, and an intent of an *)
(* earlier deletion is left to startup.                                     *)
DeleteBareRow(u) ==
    /\ up /\ at[u] = "bare" /\ turn' = NoUpload
    /\ \/ at' = [at EXCEPT ![u] = "gone"] /\ rows' = [rows EXCEPT ![u] = NoRow] /\ NoRaise
       \/ at' = [at EXCEPT ![u] = "answered"] /\ Raise /\ UNCHANGED rows
    /\ UNCHANGED <<files, intents, revision, up, tried, deaths>>

(* _discard_capture_audio, _reconcile_capture_audio *)
Settle(u) ==
    /\ Goes(u, "settling", IF Exists(u) THEN "answered" ELSE "gone") /\ turn' = NoUpload
    /\ Reconcile(intents \cap {<<u, "hidden">>})
    /\ UNCHANGED <<rows, revision, up, tried, deaths>>

-----------------------------------------------------------------------------
(* refine_capture, retranscribe_capture *)

Ask(r, u, kind) ==
    /\ LoopFree /\ revision[r] = NoRevision /\ Exists(u)
    /\ kind = "retranscribe" => <<u, "audio">> \in files
    /\ revision' = [revision EXCEPT ![r] = RevisionOf(u, kind)]
    /\ UNCHANGED <<at, rows, files, intents, turn, up, tried, raises, deaths>>

RevisionEnds(r) ==
    /\ LoopFree /\ revision[r] # NoRevision /\ revision' = [revision EXCEPT ![r] = NoRevision]
    /\ UNCHANGED <<at, files, intents, turn, up, tried, deaths>>

(* Faulty variant: the row is looked up by its ID alone. *)
RefineById(r) ==
    LET v == revision[r]
    IN  /\ RevisionEnds(r) /\ v.kind = "refine" /\ NoRaise
        /\ IF Exists(v.of) THEN rows' = [rows EXCEPT ![v.of].refined = v.read] ELSE UNCHANGED rows

(* The update asks for the text it has read: 409 otherwise, 404 without row.*)
Refine(r) ==
    LET v == revision[r]
    IN  /\ RevisionEnds(r) /\ v.kind = "refine"
        /\ \/ Exists(v.of) /\ rows[v.of].raw = v.read /\ NoRaise
              /\ rows' = [rows EXCEPT ![v.of].refined = v.read]
           \/ ~(Exists(v.of) /\ rows[v.of].raw = v.read) /\ NoRaise /\ UNCHANGED rows
           \/ Raise /\ UNCHANGED rows

Retranscribe(r) ==
    LET v == revision[r]
    IN  /\ RevisionEnds(r) /\ v.kind = "retranscribe"
        /\ \/ Exists(v.of) /\ NoRaise
              /\ \E t \in Texts : rows' = [rows EXCEPT ![v.of] = [raw |-> t, refined |-> NoText]]
           \/ ~Exists(v.of) /\ NoRaise /\ UNCHANGED rows
           \/ Raise /\ UNCHANGED rows

-----------------------------------------------------------------------------
(* The process dies; recover_interrupted_deletions before it serves again.  *)
Die ==
    /\ up /\ deaths < MaxDeaths /\ deaths' = deaths + 1
    /\ up' = FALSE /\ turn' = NoUpload /\ tried' = {}
    /\ revision' = [r \in Revisions |-> NoRevision]
    /\ at' = [u \in Uploads |-> IF at[u] = "new" THEN "new" ELSE IF Exists(u) THEN "answered" ELSE "lost"]
    /\ UNCHANGED <<rows, files, intents, raises>>

Recover(i) ==
    /\ ~up /\ i \in intents \ tried /\ tried' = tried \cup {i}
    /\ Reconcile({i})
    /\ UNCHANGED <<at, rows, revision, turn, up, deaths>>

Start ==
    /\ ~up /\ intents \subseteq tried /\ up' = TRUE
    /\ UNCHANGED <<at, rows, files, intents, revision, turn, tried, raises, deaths>>

CapturesNext ==
    \/ \E u \in Uploads :
           Place(u) \/ Transcode(u) \/ Transcribe(u) \/ Publish(u) \/ Insert(u) \/ Finish(u) \/ GiveUp(u)
           \/ Stage(u) \/ DeleteRow(u) \/ DeleteBareRow(u) \/ Settle(u)
    \/ \E r \in Revisions : Refine(r) \/ Retranscribe(r)
                            \/ \E u \in Uploads, kind \in {"refine", "retranscribe"} : Ask(r, u, kind)
    \/ Die \/ Start \/ \E i \in intents : Recover(i)

CapturesSpec == CapturesInit /\ [][CapturesNext]_captureVars

-----------------------------------------------------------------------------
(* Properties. *)

InFlight(u) == at[u] \notin {"new", "answered", "refused", "gone", "lost"}

(* Whatever raises, is cancelled or dies: a capture has its recording,      *)
(* under its own name or hidden behind an intent; a recording that no       *)
(* capture owns has an intent that will discard it; and when no call failed *)
(* and no handler runs there is nothing else on the disk.                   *)
RecordingsAccounted ==
    /\ \A u \in Uploads : Exists(u) =>
           <<u, "audio">> \in files \/ <<u, "hidden">> \in files \cap intents
    /\ \A f \in files : IF f[2] = "audio" THEN Exists(f[1]) \/ <<f[1], "new">> \in intents ELSE f \in intents
    /\ up /\ raises = 0 => \A u \in Uploads : ~InFlight(u) =>
           /\ u \notin {i[1] : i \in intents}
           /\ {f \in files : f[1] = u} = (IF Exists(u) THEN {<<u, "audio">>} ELSE {})

(* A refinement that is shown is one of the transcript it is shown with,    *)
(* however long the model took and whatever was transcribed meanwhile.      *)
RefinedFitsRaw == \A u \in Uploads : rows[u].refined \in {NoText, rows[u].raw}

=============================================================================
