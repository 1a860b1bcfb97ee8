---------------------------- MODULE RenderStages ----------------------------
(***************************************************************************)
(* One effects render of backend/services/effects_processing.py: the        *)
(* worker thread's passage over the samples.  A short source is processed   *)
(* in one call, a long one block by block, straight into the WAV or, when   *)
(* a pitch shift or a normalisation needs the whole signal, through two     *)
(* scratch files that take turns as source and destination.  One action is  *)
(* one block.                                                               *)
(*                                                                         *)
(* Abstracted: a frame is its number in the source and the effects it has   *)
(* gone through; a plugin keeps its first `latency` frames back until more  *)
(* input comes; Block, Overlap, Guard and Flush stand for the module's      *)
(* constants.                                                               *)
(***************************************************************************)
EXTENDS Integers, Sequences, SequencesExt

CONSTANTS Jobs,     \* what may be asked for, see Job below
          Block,    \* EFFECTS_PROCESS_BLOCK_FRAMES
          Overlap,  \* frames two pitch windows share on either side of a seam
          Guard,    \* context frames read around a window
          Flush     \* silence after the last block of a streamed board

ASSUME RenderAssumption ==
    /\ Block \in Nat \ {0} /\ Overlap \in Nat \ {0} /\ Guard \in Nat /\ Flush \in Nat
    /\ Overlap <= Guard /\ 2 * Overlap <= Block

VARIABLES job,      \* the request: frames probed and decoded, chain, normalise, latency
          doing,    \* where the worker is
          segment,  \* index of the current segment of the chain
          pos,      \* frames read in the current stage
          put,      \* frames written in the current stage
          files,    \* the scratch files a and b, and the WAV
          current,  \* current_descriptor
          stopped,  \* the cancel event is set
          touched   \* the source file's identity has changed since it was opened

renderVars == <<job, doing, segment, pos, put, files, current, stopped, touched>>

(* frames: what _probe_source found; decoded: what the decoder yields       *)
(* later; stored: a file is read (else an array, which cannot change).      *)
Job == [frames : Nat, decoded : Nat, chain : Seq([pitch : BOOLEAN, on : BOOLEAN]),
        normalize : BOOLEAN, latency : Nat, stored : BOOLEAN]

ASSUME RendersAssumption == Jobs \subseteq Job

NoJob == [frames |-> 0, decoded |-> 0, chain |-> <<>>, normalize |-> FALSE, latency |-> 0, stored |-> FALSE]
Empty == [a |-> <<>>, b |-> <<>>, wav |-> <<>>]
NoRender == /\ job = NoJob /\ doing = "none" /\ segment = 0 /\ pos = 0 /\ put = 0
            /\ files = Empty /\ current = "a" /\ stopped = FALSE /\ touched = FALSE

Frame(i) == [of |-> i, by |-> <<>>]
Hole == [of |-> 0, by |-> <<>>]
AtMost(m, n) == Min({m, n})

-----------------------------------------------------------------------------
(* _effect_segments: pitch shifts apart, their neighbours together, in the  *)
(* order of the chain; an effect is named by its place in it.               *)
Enabled(chain) == FoldLeft(LAMBDA ks, k : IF chain[k].on THEN Append(ks, k) ELSE ks,
                           <<>>, [k \in DOMAIN chain |-> k])

Segments(chain) ==
    FoldLeft(LAMBDA segs, k :
                 IF chain[k].pitch THEN Append(segs, [kind |-> "pitch", effects |-> <<k>>])
                 ELSE IF segs # <<>> /\ Last(segs).kind = "stream"
                 THEN [segs EXCEPT ![Len(segs)].effects = Append(@, k)]
                 ELSE Append(segs, [kind |-> "stream", effects |-> <<k>>]),
             <<>>, Enabled(chain))

Through(frames, effects) == [i \in DOMAIN frames |-> [frames[i] EXCEPT !.by = @ \o effects]]

(* _read_raw_frames and _write_raw_frames, counting from 0; what was never  *)
(* written reads as silence.                                                *)
Read(f, start, n) == [i \in 1 .. n |-> IF start + i \in DOMAIN f THEN f[start + i] ELSE Hole]
Written(f, start, frames) ==
    [i \in 1 .. Max({Len(f), start + Len(frames)}) |->
        IF i \in start + 1 .. start + Len(frames) THEN frames[i - start]
        ELSE IF i \in DOMAIN f THEN f[i] ELSE Hole]

Others == [a |-> "b", b |-> "a"]

(* Faulty variant: the stage writes over the file it reads. *)
SameFile(f) == f

(* The file a stage writes. *)
Destination(f) == Others[f]

-----------------------------------------------------------------------------
(* The source as the decoder, the resampler and _coalesced_blocks yield it. *)
Source == [i \in 1 .. job.decoded |-> Frame(i)]
NextBlock == Read(Source, pos, AtMost(Block, job.decoded - pos))
MoreBlocks == pos < job.decoded

(* On disk when the whole signal is needed and does not fit one block.      *)
Pitched == \E k \in DOMAIN job.chain : job.chain[k].on /\ job.chain[k].pitch
OnDisk == job.frames > Block /\ (Pitched \/ job.normalize)

Fails == /\ doing' = "failed"
         /\ UNCHANGED <<segment, pos, put, files, current>>

Checked(step) == IF stopped THEN Fails ELSE step

RenderInit ==
    /\ job \in Jobs
    /\ doing = "probe" /\ segment = 0 /\ pos = 0 /\ put = 0
    /\ files = Empty /\ current = "a" /\ stopped = FALSE /\ touched = FALSE

(* The source is opened, identified and probed; anything but a private      *)
(* regular file with plausible audio within the limits is refused.          *)
Refused == doing = "probe" /\ Fails
Accept ==
    /\ doing = "probe"
    /\ Checked(/\ doing' = IF job.frames <= Block THEN "once"
                           ELSE IF OnDisk THEN "spool" ELSE "stream"
               /\ UNCHANGED <<segment, pos, put, files, current>>)

(* One call of the whole board on a short source. *)
Once ==
    /\ doing = "once"
    /\ Checked(IF job.decoded # job.frames THEN Fails
               ELSE /\ files' = [files EXCEPT !.wav =
                          Through(Through(Source, IF job.normalize THEN <<"n">> ELSE <<>>), Enabled(job.chain))]
                    /\ doing' = "written"
                    /\ UNCHANGED <<segment, pos, put, current>>)

(* What a streamed board has yielded when it has been fed n frames; without *)
(* an enabled effect there is no board and nothing is kept back.            *)
Yielded(n) == IF Enabled(job.chain) = <<>> THEN n ELSE Max({0, n - job.latency})

(* A streamed block and its result: the last one carries the silence that   *)
(* flushes the board, and no more than `frames` frames are ever written.    *)
Streamed(f, block, effects) ==
    LET fed == pos + Len(block)
        last == fed = job.decoded
        kept == AtMost(Yielded(IF last THEN fed + Flush ELSE fed), job.frames) IN
    [fed |-> fed, put |-> Max({put, kept}),
     file |-> Written(f, put, Read(Through(Source, effects), put, Max({0, kept - put})))]

(* _render_streaming_blocks_to_wav: no pitch shift, straight into the WAV.  *)
StreamOut ==
    /\ doing = "stream"
    /\ IF MoreBlocks
       THEN LET s == Streamed(files.wav, NextBlock, Enabled(job.chain)) IN
            Checked(/\ pos' = s.fed /\ put' = s.put /\ files' = [files EXCEPT !.wav = s.file]
                    /\ UNCHANGED <<doing, segment, current>>)
       ELSE IF pos # job.frames \/ put # job.frames THEN Fails
       ELSE doing' = "written" /\ UNCHANGED <<segment, pos, put, files, current>>

(* _spool_float32_blocks into the first scratch file. *)
Spool ==
    /\ doing = "spool"
    /\ IF MoreBlocks
       THEN Checked(IF pos + Len(NextBlock) > job.frames THEN Fails
                    ELSE /\ files' = [files EXCEPT !.a = Written(@, pos, NextBlock)]
                         /\ pos' = pos + Len(NextBlock)
                         /\ UNCHANGED <<doing, segment, put, current>>)
       ELSE IF pos # job.frames THEN Fails
       ELSE /\ doing' = IF job.normalize THEN "normalize" ELSE "stage"
            /\ segment' = 1 /\ pos' = 0 /\ put' = 0 /\ current' = "a"
            /\ UNCHANGED files

(* _normalize_raw_in_place: the squares fill the second file, the gain is   *)
(* taken from all of them, then the first file is rewritten block by block. *)
Normalize ==
    /\ doing = "normalize"
    /\ LET n == AtMost(Block, job.frames - pos) IN
       IF n > 0
       THEN Checked(/\ files' = [files EXCEPT !.a = Written(@, pos, Through(Read(@, pos, n), <<"n">>)),
                                              !.b = [i \in 1 .. job.frames |-> Hole]]
                    /\ pos' = pos + n
                    /\ UNCHANGED <<doing, segment, put, current>>)
       ELSE /\ doing' = "stage" /\ pos' = 0
            /\ UNCHANGED <<segment, put, files, current>>

StageEnds == /\ segment' = segment + 1 /\ pos' = 0 /\ put' = 0
             /\ current' = Destination(current)
             /\ UNCHANGED <<doing, files>>

InSegment(kind) == doing = "stage" /\ segment <= Len(Segments(job.chain))
                   /\ Segments(job.chain)[segment].kind = kind
Effects == Segments(job.chain)[segment].effects

(* _prepare_raw_destination empties the file before the first block. *)
Prepared == IF pos = 0 THEN <<>> ELSE files[Destination(current)]

(* _process_streaming_raw_stage *)
StreamStage ==
    /\ InSegment("stream")
    /\ LET n == AtMost(Block, job.frames - pos)
           in == files[current]
           last == pos + n = job.frames
           kept == AtMost(Yielded(IF last THEN pos + n + Flush ELSE pos + n), job.frames) IN
       IF n > 0
       THEN Checked(/\ files' = [files EXCEPT ![Destination(current)] =
                          Written(Prepared, put, Through(Read(in, put, Max({0, kept - put})), Effects))]
                    /\ pos' = pos + n /\ put' = Max({put, kept})
                    /\ UNCHANGED <<doing, segment, current>>)
       ELSE IF put # job.frames THEN Fails ELSE StageEnds

(* The window of a block: the frames it gives, and those it is computed     *)
(* from.                                                                    *)
Window(start) ==
    LET from == Max({0, start - Overlap})
        to == AtMost(job.frames, AtMost(job.frames, start + Block) + Overlap) IN
    [from |-> from, to |-> to,
     left |-> Max({0, from - Guard}), right |-> AtMost(job.frames, to + Guard)]

(* A shifted frame is sound if the shifter saw Guard frames around it, or   *)
(* the signal's own end.                                                    *)
Sound(w, i) ==
    /\ w.left = 0 \/ i - w.left > Guard
    /\ w.right = job.frames \/ w.right - i >= Guard

(* _adaptive_crossfade joins two renderings of the same frames. *)
Joined(previous, region) ==
    [i \in DOMAIN previous |-> IF previous[i] = region[i] THEN region[i] ELSE Hole]

(* _process_pitch_raw_stage: a window, joined to what is already there. *)
PitchStage ==
    /\ InSegment("pitch")
    /\ LET w == Window(pos)
           in == Read(files[current], w.from, w.to - w.from)
           shifted == [i \in DOMAIN in |-> IF Sound(w, w.from + i) THEN Through(in, Effects)[i] ELSE Hole]
           seam == put - w.from IN
       IF pos >= job.frames THEN IF put # job.frames THEN Fails ELSE StageEnds
       ELSE Checked(
          IF put > 0 /\ (seam <= 0 \/ seam > Len(shifted)) THEN Fails
          ELSE /\ files' = [files EXCEPT ![Destination(current)] =
                     IF put = 0 THEN Written(Prepared, w.from, shifted)
                     ELSE Written(@, w.from,
                            Joined(Read(@, w.from, seam), SubSeq(shifted, 1, seam))
                              \o SubSeq(shifted, seam + 1, Len(shifted)))]
               /\ put' = w.to /\ pos' = AtMost(job.frames, pos + Block)
               /\ UNCHANGED <<doing, segment, current>>)

(* _encode_raw_wav from the file the last stage wrote. *)
Encode ==
    /\ doing = "stage" /\ segment > Len(Segments(job.chain))
    /\ LET n == AtMost(Block, job.frames - pos) IN
       IF n > 0
       THEN Checked(/\ files' = [files EXCEPT !.wav = @ \o Read(files[current], pos, n)]
                    /\ pos' = pos + n
                    /\ UNCHANGED <<doing, segment, put, current>>)
       ELSE doing' = "written" /\ UNCHANGED <<segment, pos, put, files, current>>

(* The source's identity is compared with the one it was opened with. *)
AcceptWritten ==
    /\ doing = "written"
    /\ doing' = IF touched /\ job.stored THEN "failed" ELSE "done"
    /\ UNCHANGED <<segment, pos, put, files, current>>

Finished == doing \in {"done", "failed", "none"}

(* The request is cancelled; another program writes the source.             *)
Cancel == ~Finished /\ ~stopped /\ stopped' = TRUE
          /\ UNCHANGED <<job, doing, segment, pos, put, files, current, touched>>
Touch == ~Finished /\ ~touched /\ job.stored /\ touched' = TRUE
         /\ UNCHANGED <<job, doing, segment, pos, put, files, current, stopped>>

Work == /\ \/ Refused \/ Accept \/ Once \/ StreamOut \/ Spool \/ Normalize
           \/ StreamStage \/ PitchStage \/ Encode \/ AcceptWritten
        /\ UNCHANGED <<job, stopped, touched>>

RenderNext == Work \/ Cancel \/ Touch

-----------------------------------------------------------------------------
(* Properties. *)

(* A finished render holds every frame of the source once and in its place, *)
(* normalised at most once and through every enabled effect in the order of *)
(* the chain, whatever path and however many blocks and windows it took,    *)
(* with no frame that a stage left unwritten or shifted without context;    *)
(* and its source is still the file that was opened.                        *)
RenderedInFull ==
    doing = "done" =>
        /\ files.wav = [i \in 1 .. job.frames |->
              [of |-> i, by |-> (IF job.normalize THEN <<"n">> ELSE <<>>) \o Enabled(job.chain)]]
        /\ ~(touched /\ job.stored)

(* With a sound source and no cancellation the stages' own consistency      *)
(* checks never refuse: a render fails in its stages only for a reason from *)
(* outside, a decoder that yields another length or a plugin that keeps     *)
(* more back than the flush can drive out.                                  *)
Works(j) == j.decoded = j.frames /\ j.latency <= Flush
FailsForAReason ==
    [][(doing \in {"once", "stream", "spool", "normalize", "stage"} /\ doing' = "failed") =>
            stopped \/ ~Works(job)]_renderVars

=============================================================================
