---------------------------- MODULE MCVideoPath ----------------------------
(* The frame queue as it is deployed, but calls that display two frames, the   *)
(* second of which waits for a permit while it holds a surface.  Six surfaces  *)
(* are then as tight as the deployed four are at one frame a call: with five    *)
(* PoolSuffices fails.  Of the NVENC side two surfaces, so that a failure can    *)
(* meet a second one half made, and one command, so that the channel can be      *)
(* full when the encoder is dropped.                                             *)
EXTENDS VideoPath

MCVideoFrames == 1
MCOutputSurfaces == 6
MCMaxBurst == 2
MCSurfaceCount == 2
MCCommandCapacity == 1
=============================================================================
