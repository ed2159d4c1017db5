-------------------------- MODULE MCOutputPipeline --------------------------
(* Instances of OutputPipeline for TLC.  The configurations take one coil, *)
(* or one coil, one lamp and one GI string: every property is about one of *)
(* them or about the order of frames, which they share.                    *)
EXTENDS OutputPipeline

CONSTANTS c1, l1, g1
=============================================================================
