----------------------------- MODULE MCSynthesis -----------------------------
(* From a text to its audio: the computations of the pipelines, exact       *)
(* requests with their checkpoints, the progress clients hear of meanwhile, *)
(* and the Story the audio is put into.  They share no state: a behaviour   *)
(* is a computation or takes one of the others.                             *)
EXTENDS AudioPipelines, ExactSynthesis, ProgressStream, StoryTimeline, TLC

CONSTANTS a1, a2, a3, c1, c2, g1, g2, take1, take2

VARIABLE part

partVars == <<part, pipelineVars, vars, progressVars, storyVars>>

(* Texts of up to four characters over one of every class, with every limit *)
(* below them; renders of up to four blocks through every chain of up to    *)
(* three effects; stories of one and two clips at rates below and above the *)
(* rate of the mix, with starts and trims that do not fall on a frame.      *)
MCTexts == {t \in UNION {[1 .. n -> Characters] : n \in 1 .. 4} : t[1] # " " /\ t[Len(t)] # " "}
MCLimits == {2, 3}

MCEffects == {[pitch |-> p, on |-> TRUE] : p \in BOOLEAN} \cup {[pitch |-> TRUE, on |-> FALSE]}
Chains(n) == UNION {[1 .. m -> MCEffects] : m \in 0 .. n}
RenderOf(f, d, c, n, l, s) ==
    [frames |-> f, decoded |-> d, chain |-> c, normalize |-> n, latency |-> l, stored |-> s]
MCJobs ==
    {RenderOf(f, f, c, FALSE, 1, TRUE) : f \in {2, 3, 4, 5, 7}, c \in Chains(3)}
      \cup {RenderOf(f, f, c, n, 1, FALSE) : f \in {3, 5}, c \in Chains(2), n \in BOOLEAN}
      \cup {RenderOf(4, d, c, FALSE, l, TRUE) : d \in {3, 5}, c \in Chains(1), l \in {0, 3}}

Clips == [frames : {3, 4, 5}, rate : {2, 4}, start : {0, 3}, head : {0, 2}, tail : {0, 3}]
MCStories == {<<c>> : c \in Clips}
               \cup {<<c, d>> : c \in Clips, d \in {x \in Clips : x.rate = 4 /\ x.frames = 5 /\ x.tail = 0}}

(* Two singletons and a paired attempt, all at one request of three words,  *)
(* two logical chunks, whose second seed wraps around.  The engines: one     *)
(* without fault; one that is over its limit at the first chunk's seed and   *)
(* then spoils it; one that finds no seed for it, whose halves succeed; one  *)
(* that fails at the paired text and never at a chunk.                       *)
MCWords == 1 .. 3
Book == [words |-> <<1, 2, 3>>, seed |-> 29999]
MCRequestOf == [a \in {a1, a2, a3} |-> Book]
MCEngines == {[long |-> {}, wild |-> {}],
              [long |-> {29999}, wild |-> {9999}],
              [long |-> {29999, 9999, 19999}, wild |-> {}],
              [long |-> {0}, wild |-> {29999}]}

(* Two generations with up to two takes each, alike in everything. *)
MCStarts == {0, 3}
MCCuts == {0, 1}
MCTracks == {0, 1}
MCLengths == {2, 4}
MCSymmetry == Permutations(Generations)

(* All but what the last edit was: no step looks at it, and a property only *)
(* asks what the step was that it is about.                                 *)
MCView == <<part, pipelineVars, vars, progressVars, story, item, edits, raised, libraryRows>>

SynthesisInit ==
    /\ part \in {"pipelines", "exact", "progress", "timeline"}
    /\ IF part = "pipelines" THEN PipelineInit ELSE NoText /\ NoRender /\ NoMix
    /\ Init /\ (part # "exact" => engine = [long |-> {}, wild |-> {}])
    /\ ProgressStreamInit /\ StoryTimelineInit

SynthesisNext ==
    /\ UNCHANGED part
    /\ \/ part = "pipelines" /\ PipelineNext /\ UNCHANGED <<vars, progressVars, storyVars>>
       \/ part = "exact" /\ Next /\ UNCHANGED <<pipelineVars, progressVars, storyVars>>
       \/ part = "progress" /\ ProgressStreamNext /\ UNCHANGED <<pipelineVars, vars, storyVars>>
       \/ part = "timeline" /\ StoryTimelineNext /\ UNCHANGED <<pipelineVars, vars, progressVars>>

SynthesisSpec == SynthesisInit /\ [][SynthesisNext]_partVars

(* Only the Story. *)
StorySpec == SynthesisInit /\ part = "timeline" /\ [][SynthesisNext]_partVars

=============================================================================
