--------------------------- MODULE AudioPipelines ---------------------------
(***************************************************************************)
(* The computations on text and samples that run to their end inside one    *)
(* worker: a behaviour of this module is one of them, the splitting of a    *)
(* text, the render of an effects chain, or the mix of a Story.  They share *)
(* no state; what they are part of is modelled in ExactSynthesis and        *)
(* Renders.                                                                 *)
(***************************************************************************)
EXTENDS SplitText, RenderStages, StoryMix

pipelineVars == <<splitVars, renderVars, mixVars>>

PipelineInit ==
    \/ SplitInit /\ NoRender /\ NoMix
    \/ RenderInit /\ NoText /\ NoMix
    \/ MixInit /\ NoText /\ NoRender

PipelineNext ==
    \/ SplitNext /\ UNCHANGED <<renderVars, mixVars>>
    \/ RenderNext /\ UNCHANGED <<splitVars, mixVars>>
    \/ MixNext /\ UNCHANGED <<splitVars, renderVars>>

PipelineSpec == PipelineInit /\ [][PipelineNext]_pipelineVars

(* The consistency checks inside both workers are there for a source that   *)
(* changes under them.  They never refuse a sound one, whatever its length, *)
(* rate, chain or trims: effects_processing.py and stories.py compute the   *)
(* lengths they check in another way than the stages produce them.          *)
StagesAgree == FailsForAReason /\ ProbedLengthsHold

(* What a render or a mix hands over has every frame, once and in its place.*)
RendersAreExact == RenderedInFull /\ MixIsExact

=============================================================================
