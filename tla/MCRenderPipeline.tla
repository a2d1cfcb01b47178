-------------------------- MODULE MCRenderPipeline --------------------------
(***************************************************************************)
(* Two pointers, two identifiers and two volumes; a transform each way, of *)
(* which one stretches an axis, and a stack that turns the surface.        *)
(***************************************************************************)
EXTENDS RenderPipeline

CONSTANTS VolA, VolB

TwoVolumes == {VolA, VolB}
TwoHandles == 1..2
TwoIds == 1..2

Shift == <<1, 1, 0>>
Mirror == <<2, 0, 0>>
Stretch == <<1, 0, 1>>

Turning == Stack(<<Affine(Shift, VolA, None), Affine(Mirror, None, VolB)>>, VolA, VolB)

MCPrepared == {Affine(Shift, VolA, VolB), Affine(Then(Then(Shift, Mirror), Stretch), VolB, VolA), Turning,
               Stack(<<>>, None, None)}

MCFiles == {Turning, IdentityTfm(None, None)}
=============================================================================
