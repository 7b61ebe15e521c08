---------------------------- MODULE MCVideoStage ----------------------------
(* VideoStage as it is deployed: one slot in the frame queue, the four       *)
(* surfaces of NvdecConfig::default, and inputs without reordering, of which *)
(* a call displays at most one frame.                                        *)
EXTENDS VideoStage

MCVideoFrames == 1
MCOutputSurfaces == 4
MCMaxBurst == 1
=============================================================================
