------------------------- MODULE MCMessagePipeline -------------------------
(***************************************************************************)
(* The instances of MessagePipeline: addresses and threads are model       *)
(* values.                                                                 *)
(***************************************************************************)
EXTENDS MessagePipelineProps

CONSTANTS m1, m2, m3, u1, u2, u3, w1, w2
=============================================================================
