------------------------------- MODULE MCDraw -------------------------------
(***************************************************************************)
(* The draw pipeline with one argument register, two bytes for it, both    *)
(* brush methods and a shape.                                              *)
(***************************************************************************)
EXTENDS DrawPipeline

MCMethods == {kIODrawDot, kIOBrushSetBody, kIOBrushSetOutline}
=============================================================================
