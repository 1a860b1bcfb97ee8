------------------------------ MODULE StoryMix ------------------------------
(***************************************************************************)
(* The worker of a Story export (_render_story_audio_to_path and what it    *)
(* calls in backend/services/stories.py): the clips are probed, the length  *)
(* of the mix is computed from them, then every clip is decoded, resampled  *)
(* and added to a timeline file block by block, and the timeline is written *)
(* as a WAV with one gain for all of it.                                    *)
(*                                                                         *)
(* Abstracted: samples are finite (_mono_block refuses a source with others *)
(* as it decodes it); a frame of the mix is the bag of clip frames added,   *)
(* listed in order; every clip frame has amplitude one, so the peak is the  *)
(* longest list.  Rate frames make a second of the mix, and Second is the   *)
(* number of time units (milliseconds in the source) in one.                *)
(***************************************************************************)
EXTENDS Integers, Sequences, FiniteSets, SequencesExt, FiniteSetsExt

CONSTANTS Stories,     \* sequences of clips to export
          Rate,        \* STORY_EXPORT_SAMPLE_RATE
          Second,      \* time units in a second
          BlockFrames, \* the most frames the resampler yields at once
          MaxTimeline, \* STORY_MAX_TIMELINE_MS
          MaxSource    \* frames all sources may have together

(* A clip: frames of its source and their rate, start on the timeline, and  *)
(* the time trimmed from its head and its tail.                             *)
Clip == [frames : Nat, rate : Nat, start : Nat, head : Nat, tail : Nat]

ASSUME MixAssumption == /\ {Rate, Second, BlockFrames, MaxTimeline, MaxSource} \subseteq Nat \ {0}
                        /\ Stories \subseteq Seq(Clip)

VARIABLES clips,     \* the clips of the story
          mixing,    \* where the worker is
          clip,      \* index of the clip being probed or mixed
          position,  \* output_position: frames the resampler has yielded for it
          timeline,  \* timeline.f32
          wav,       \* story.wav
          cancelled, \* the cancel event is set
          replaced   \* clips whose file has changed since the probe

mixVars == <<clips, mixing, clip, position, timeline, wav, cancelled, replaced>>

NoMix == /\ clips = <<>> /\ mixing = "none" /\ clip = 0 /\ position = 0
         /\ timeline = <<>> /\ wav = <<>> /\ cancelled = FALSE /\ replaced = {}

-----------------------------------------------------------------------------
(* Time units to frames of the mix, rounded down as the source does.        *)
InFrames(t) == (t * Rate) \div Second

(* Faulty variant: Python's round(), ties to even. *)
OutFramesEven(c) ==
    LET q == (c.frames * Rate) \div c.rate
        r == (c.frames * Rate) % c.rate IN
    IF 2 * r > c.rate \/ (2 * r = c.rate /\ q % 2 = 1) THEN q + 1 ELSE q

(* The frames the source will have at the rate of the mix: the resampler    *)
(* rounds half a frame up.                                                  *)
OutFrames(c) == (c.frames * Rate + c.rate \div 2) \div c.rate

(* What libsoxr really yields. *)
Resampled(c) == (2 * c.frames * Rate + c.rate) \div (2 * c.rate)

KeepEnd(c) == OutFrames(c) - InFrames(c.tail)
Kept(c) == KeepEnd(c) - InFrames(c.head)
Length(cs) == Max({0} \cup {InFrames(cs[i].start) + Kept(cs[i]) : i \in DOMAIN cs})

(* _validated_export_clips and _probe_clip accept it. *)
Probes(c) == /\ c.frames > 0 /\ c.rate > 0
             /\ InFrames(c.head) + InFrames(c.tail) < OutFrames(c)
SourceFrames(n) == MapThenSumSet(LAMBDA i : clips[i].frames, 1 .. n)

(* timeline.f32 is unlinked however the render ends. *)
Fail == mixing' = "failed" /\ timeline' = <<>> /\ UNCHANGED <<clip, position, wav>>

MixInit ==
    /\ clips \in Stories
    /\ mixing = "probe" /\ clip = 1 /\ position = 0
    /\ timeline = <<>> /\ wav = <<>> /\ cancelled = FALSE /\ replaced = {}

Probe ==
    /\ mixing = "probe" /\ clip <= Len(clips)
    /\ IF cancelled \/ ~Probes(clips[clip]) \/ SourceFrames(clip) > MaxSource
       THEN Fail
       ELSE clip' = clip + 1 /\ UNCHANGED <<mixing, position, timeline, wav>>

(* The file of a clip is gone or is not audio. *)
Unreadable == mixing = "probe" /\ clip <= Len(clips) /\ Fail

(* The room for timeline and WAV is reserved and the timeline filled with   *)
(* zeros, or the export is refused.                                         *)
Reserve ==
    /\ mixing = "probe" /\ clip > Len(clips)
    /\ \/ Fail
       \/ /\ Length(clips) \in 1 .. InFrames(MaxTimeline)
          /\ mixing' = "mix" /\ clip' = 1 /\ position' = 0
          /\ timeline' = [i \in 1 .. Length(clips) |-> <<>>]
          /\ UNCHANGED wav

(* Decoding stops when the event is set, or the file is gone or has another *)
(* rate, shape or length than the probed one.                               *)
Undecodable ==
    /\ mixing = "mix" /\ clip <= Len(clips)
    /\ cancelled \/ clip \in replaced
    /\ Fail

(* Where frame i of a clip belongs on the timeline.                         *)
Placed(c, i) == InFrames(c.start) + i - InFrames(c.head)

(* _mix_clip with one block of n frames: what trims leave of it is added.   *)
(* A file that was replaced by one of the same rate, channels and frames is *)
(* taken for the probed one, and an open file outlives its name.            *)
MixBlock(n) ==
    LET c == clips[clip]
        kept == {i \in position + 1 .. position + n : InFrames(c.head) < i /\ i <= KeepEnd(c)} IN
    /\ mixing = "mix" /\ clip <= Len(clips) /\ ~cancelled
    /\ position + n <= Resampled(c)
    /\ IF \E i \in kept : Placed(c, i) > Len(timeline) THEN Fail
       ELSE /\ timeline' = [k \in DOMAIN timeline |->
                  timeline[k] \o SetToSeq({<<clip, i>> : i \in {j \in kept : Placed(c, j) = k}})]
            /\ position' = position + n
            /\ UNCHANGED <<mixing, clip, wav>>

ClipEnds ==
    /\ mixing = "mix" /\ clip <= Len(clips) /\ position = Resampled(clips[clip])
    /\ IF position # OutFrames(clips[clip]) THEN Fail
       ELSE /\ clip' = clip + 1 /\ position' = 0
            /\ UNCHANGED <<mixing, timeline, wav>>

Peak == Max({Len(timeline[k]) : k \in DOMAIN timeline})

(* The peak is taken over the whole timeline before the first frame is      *)
(* written, and scales all of them.                                         *)
Write ==
    /\ mixing = "mix" /\ clip > Len(clips)
    /\ IF cancelled THEN Fail
       ELSE /\ wav' = [k \in DOMAIN timeline |-> [of |-> timeline[k], over |-> Max({1, Peak})]]
            /\ mixing' = "mixed"
            /\ timeline' = <<>>  \* timeline.f32 is unlinked
            /\ UNCHANGED <<clip, position>>

Mixing == mixing \in {"probe", "mix"}

MixCancel == Mixing /\ ~cancelled /\ cancelled' = TRUE
             /\ UNCHANGED <<clips, mixing, clip, position, timeline, wav, replaced>>

(* Another handler replaces or removes the file of a clip.                  *)
Replace(k) == Mixing /\ k \notin replaced /\ replaced' = replaced \cup {k}
              /\ UNCHANGED <<clips, mixing, clip, position, timeline, wav, cancelled>>

MixNext ==
    \/ /\ \/ Probe \/ Unreadable \/ Reserve \/ Undecodable \/ ClipEnds \/ Write
          \/ \E n \in 1 .. BlockFrames : MixBlock(n)
       /\ UNCHANGED <<clips, cancelled, replaced>>
    \/ MixCancel
    \/ \E k \in DOMAIN clips : Replace(k)

-----------------------------------------------------------------------------
(* Properties. *)

(* What clip c, the k-th of the story, contributes to frame f of the mix.   *)
Contributed(k, f) ==
    {<<k, i>> : i \in {j \in 1 .. OutFrames(clips[k]) :
        /\ InFrames(clips[k].head) < j /\ j <= OutFrames(clips[k]) - InFrames(clips[k].tail)
        /\ f = InFrames(clips[k].start) + j - InFrames(clips[k].head)}}

(* A finished mix ends with its last clip, holds every frame that trims     *)
(* leave of every clip once and in its place, and no frame exceeds full     *)
(* scale.                                                                   *)
MixIsExact ==
    mixing = "mixed" =>
        /\ Len(wav) = Length(clips)
        /\ \A f \in DOMAIN wav :
              /\ ToSet(wav[f].of) = UNION {Contributed(k, f) : k \in DOMAIN clips}
              /\ Len(wav[f].of) = Cardinality(ToSet(wav[f].of))
              /\ Len(wav[f].of) <= wav[f].over

(* Lengths are computed before a sample is decoded.  The mix of files that  *)
(* did not change never runs past the timeline sized that way, and no clip  *)
(* yields another length than was probed: the export is not refused for a   *)
(* rounding difference.                                                     *)
ProbedLengthsHold ==
    [][mixing = "mix" /\ mixing' = "failed" => cancelled \/ replaced # {}]_mixVars

=============================================================================
