--------------------------- MODULE VoiceSnapshots ---------------------------
(***************************************************************************)
(* The store of exact voices: what an exact request froze of a profile, and *)
(* the prompts that are derived from it.  backend/services/profiles.py,     *)
(* freeze_exact_voice_profile to garbage_collect_exact_voice_snapshots.     *)
(*                                                                         *)
(* An entry is named after its content and written as a pending directory   *)
(* that is renamed.  Routes freeze without giving up the loop; the one      *)
(* worker derives prompts and awaits the model in between; what nobody      *)
(* owns is collected at startup only, by a rename and a removal.            *)
(*                                                                         *)
(* Abstracted: a voice is what its samples hash to; bytes are counted in    *)
(* units, one for an entry and more for what a prompt may become; entry and *)
(* file counts, and directories that are not the store's own, are left out, *)
(* as are fine-tuned voices, which have no entry here.                      *)
(***************************************************************************)
EXTENDS Integers, FiniteSets, Functions

CONSTANTS Voices,      \* what the samples of a profile may hash to
          Single,      \* the voices of one sample, which is itself the prompt
          Profiles,
          Envelopes,   \* exact requests
          PromptMost,  \* EXACT_VOICE_SNAPSHOT_MAX_DERIVED_AUDIO_BYTES
          StoreMost,   \* EXACT_VOICE_SNAPSHOT_MAX_STORE_BYTES
          MaxStarts,   \* bound: starts of the process
          MaxEdits     \* bound: changes of a profile's samples

ASSUME VoiceSnapshotsAssumption ==
    /\ PromptMost \in Nat \ {0} /\ StoreMost \in Nat /\ Voices # {} /\ Single \subseteq Voices
    /\ IsFiniteSet(Envelopes) /\ {"worker", "no request"} \cap Envelopes = {}

VARIABLES voice,      \* each profile's voice now, or NoVoice
          envelope,   \* each request: none, freezing, frozen, accepted, failed, completed or deleted,
                      \* and the voice it froze
          snapshots,  \* entries of the store: kind raw, prompt, pending or hidden; a prompt's implementation
          claimed,    \* _exact_snapshot_reserved_bytes, by writer
          deriving,   \* the request whose prompt the worker derives, or NoEnvelope
          implementation,   \* the implementation that runs
          stage,      \* starting, collecting, serving
          doomed,     \* what the collection has still to remove
          edits

snapshotVars == <<voice, envelope, snapshots, claimed, deriving, implementation, stage, doomed, edits>>

NoVoice == "no voice"
NoEnvelope == "no request"

Raw(v) == [kind |-> "raw", of |-> v, implementation |-> 0]
Prompt(v) == [kind |-> "prompt", of |-> v, implementation |-> implementation]
PendingEntry(v) == [kind |-> "pending", of |-> v, implementation |-> 0]
Hidden(x) == [x EXCEPT !.kind = "hidden"]

Bytes == Cardinality(snapshots) + SumFunctionOnSet(claimed, DOMAIN claimed)
Phase(r) == envelope[r].phase
Enters(r, phase) == envelope' = [envelope EXCEPT ![r].phase = phase]
Claim(w, units) == [x \in DOMAIN claimed \cup {w} |-> IF x = w THEN units ELSE claimed[x]]
Unclaim(w) == [x \in DOMAIN claimed \ {w} |-> claimed[x]]
NobodyFreezes == \A r \in Envelopes : Phase(r) # "freezing"
LoopServes == stage = "serving" /\ NobodyFreezes

VoiceSnapshotsInit ==
    /\ voice \in [Profiles -> Voices] /\ envelope = [r \in Envelopes |-> [phase |-> "none", voice |-> NoVoice]]
    /\ snapshots = {} /\ claimed = [w \in {} |-> 0] /\ deriving = NoEnvelope
    /\ implementation = 1 /\ stage = "serving" /\ doomed = {} /\ edits = 0

-----------------------------------------------------------------------------
(* Samples are added, removed or changed; the last may go with the profile. *)
Edit(p) ==
    /\ LoopServes /\ edits < MaxEdits /\ edits' = edits + 1
    /\ \E v \in Voices \cup {NoVoice} : v # voice[p] /\ voice' = [voice EXCEPT ![p] = v]
    /\ UNCHANGED <<envelope, snapshots, claimed, deriving, implementation, stage, doomed>>

(* _reserve_exact_snapshot_capacity *)
StoreFits(units) == Bytes + units <= StoreMost

(* _verify_raw_exact_snapshot *)
Verified(v) == Raw(v) \in snapshots

(* freeze_exact_voice_profile: a snapshot that is there is verified; one    *)
(* that is not is reserved and written aside.                               *)
Freeze(r, p) ==
    LET v == voice[p]
    IN  /\ LoopServes /\ Phase(r) = "none" /\ v # NoVoice
        /\ \/ Verified(v)
              /\ envelope' = [envelope EXCEPT ![r] = [phase |-> "frozen", voice |-> v]]
              /\ UNCHANGED <<snapshots, claimed>>
           \/ ~Verified(v) /\ StoreFits(1)
              /\ envelope' = [envelope EXCEPT ![r] = [phase |-> "freezing", voice |-> v]]
              /\ snapshots' = snapshots \cup {PendingEntry(v)} /\ claimed' = Claim(r, 1)
    /\ UNCHANGED <<voice, deriving, implementation, stage, doomed, edits>>

(* _publish_private_snapshot_directory, or the copy failed. *)
Frozen(r) ==
    LET v == envelope[r].voice
    IN  /\ Phase(r) = "freezing" /\ claimed' = Unclaim(r)
        /\ \/ Enters(r, "frozen") /\ snapshots' = (snapshots \ {PendingEntry(v)}) \cup {Raw(v)}
           \/ Enters(r, "deleted") /\ snapshots' = snapshots \ {PendingEntry(v)}
        /\ UNCHANGED <<voice, deriving, implementation, stage, doomed, edits>>

(* The rows of the request are committed, or its submission is refused. *)
Accept(r) ==
    /\ LoopServes /\ Phase(r) = "frozen"
    /\ Enters(r, "accepted") \/ Enters(r, "deleted")
    /\ UNCHANGED <<voice, snapshots, claimed, deriving, implementation, stage, doomed, edits>>

(* create_exact_voice_prompt_from_snapshot, in the one worker: the prompt   *)
(* of several samples may be there, or is reserved at its largest before    *)
(* the model is awaited.                                                    *)
Derive(r) ==
    LET v == envelope[r].voice
    IN  /\ LoopServes /\ Phase(r) = "accepted" /\ deriving = NoEnvelope
        /\ IF ~Verified(v) THEN Enters(r, "failed") /\ UNCHANGED <<claimed, deriving>>
           ELSE IF v \in Single \/ Prompt(v) \in snapshots THEN deriving' = r /\ UNCHANGED <<envelope, claimed>>
           ELSE IF StoreFits(PromptMost) THEN deriving' = r /\ claimed' = Claim("worker", PromptMost) /\ UNCHANGED envelope
           ELSE Enters(r, "failed") /\ UNCHANGED <<claimed, deriving>>
        /\ UNCHANGED <<voice, snapshots, implementation, stage, doomed, edits>>

(* A combined prompt is published; the generation goes on and ends. *)
DeriveEnds(r) ==
    LET v == envelope[r].voice
    IN  /\ LoopServes /\ deriving = r /\ deriving' = NoEnvelope /\ claimed' = Unclaim("worker")
        /\ \/ /\ snapshots' = IF v \in Single THEN snapshots ELSE snapshots \cup {Prompt(v)}
              /\ \E to \in {"completed", "failed"} : Enters(r, to)
           \/ Enters(r, "failed") /\ UNCHANGED snapshots
        /\ UNCHANGED <<voice, implementation, stage, doomed, edits>>

(* A row that is over is deleted.  No row runs again: a failed request goes *)
(* on as another attempt, with a row of its own.                            *)
DeleteRequest(r) ==
    /\ LoopServes /\ Phase(r) \in {"failed", "completed"} /\ Enters(r, "deleted")
    /\ UNCHANGED <<voice, snapshots, claimed, deriving, implementation, stage, doomed, edits>>

-----------------------------------------------------------------------------
(* The process ends anywhere, with another implementation after it; killed  *)
(* rows are failed (_reconcile_stale_generations).                          *)
Restart ==
    /\ implementation < MaxStarts
    /\ \E same \in BOOLEAN : implementation' = implementation + 1 /\
          (IF same THEN snapshots' = {IF x.kind = "prompt" /\ x.implementation = implementation THEN [x EXCEPT !.implementation = implementation + 1]
                                      ELSE x : x \in snapshots}
           ELSE UNCHANGED snapshots)
    /\ envelope' = [r \in Envelopes |-> CASE Phase(r) = "accepted" -> [envelope[r] EXCEPT !.phase = "failed"]
                                          [] Phase(r) \in {"freezing", "frozen"} -> [envelope[r] EXCEPT !.phase = "deleted"]
                                          [] OTHER -> envelope[r]]
    /\ claimed' = [w \in {} |-> 0] /\ deriving' = NoEnvelope /\ stage' = "starting" /\ doomed' = {}
    /\ UNCHANGED <<voice, edits>>

(* Faulty variant: a request that is over, failed or completed, owns nothing.*)
OwnersActive == {envelope[r].voice : r \in {r \in Envelopes : Phase(r) = "accepted"}}
                \cup {voice[p] : p \in Profiles}

(* _exact_voice_snapshot_owners: the voices of requests that are not        *)
(* completed, and of the profiles.                                          *)
Owners == {envelope[r].voice : r \in {r \in Envelopes : Phase(r) \in {"accepted", "failed"}}}
          \cup {voice[p] : p \in Profiles}

Kept(x) ==
    \/ x.kind = "raw" /\ x.of \in Owners
    \/ x.kind = "prompt" /\ x.of \in Owners /\ x.implementation = implementation

(* Pending and hidden directories go, and owners are counted completely     *)
(* before a finished entry is touched; doubt about one ends the collection. *)
Collect ==
    /\ stage = "starting"
    /\ LET left == {x \in snapshots : x.kind \in {"raw", "prompt"}}
       IN  /\ snapshots' = left
           /\ \/ stage' = "collecting" /\ doomed' = {x \in left : ~Kept(x)}
              \/ stage' = "serving" /\ UNCHANGED doomed
    /\ UNCHANGED <<voice, envelope, claimed, deriving, implementation, edits>>

(* _safe_remove_exact_snapshot_directory; a refused entry stays. *)
Hide(x) ==
    /\ stage = "collecting" /\ x \in doomed /\ x \in snapshots
    /\ snapshots' = (snapshots \ {x}) \cup {Hidden(x)}
    /\ UNCHANGED <<voice, envelope, claimed, deriving, implementation, stage, doomed, edits>>
Discard(x) ==
    /\ stage = "collecting" /\ x \in doomed /\ doomed' = doomed \ {x}
    /\ snapshots' = snapshots \ {Hidden(x)}
    /\ UNCHANGED <<voice, envelope, claimed, deriving, implementation, stage, edits>>
Open ==
    /\ stage = "collecting" /\ doomed = {} /\ stage' = "serving"
    /\ UNCHANGED <<voice, envelope, snapshots, claimed, deriving, implementation, doomed, edits>>

VoiceSnapshotsNext ==
    \/ \E p \in Profiles : Edit(p) \/ \E r \in Envelopes : Freeze(r, p)
    \/ \E r \in Envelopes : Frozen(r) \/ Accept(r) \/ Derive(r) \/ DeriveEnds(r) \/ DeleteRequest(r)
    \/ Restart \/ Collect \/ Open
    \/ \E x \in doomed : Hide(x) \/ Discard(x)

-----------------------------------------------------------------------------
(* Properties. *)

(* The voice of every request that is to run, and of every failed one that  *)
(* may be attempted again, is in the store, unchanged by what becomes of    *)
(* its profile, by other requests and by collections, whole or cut short;   *)
(* and the store never outgrows its limit, whatever is being written.       *)
VoicesAreKept ==
    /\ \A r \in Envelopes : Phase(r) \in {"frozen", "accepted", "failed"} => Raw(envelope[r].voice) \in snapshots
    /\ Cardinality(snapshots) <= StoreMost

=============================================================================
