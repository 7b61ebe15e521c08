--------------------------- MODULE MCNvdecSurfaces ---------------------------
(* NvdecSurfaces with two surfaces per decoder, three generations (so that   *)
(* two retired ones can wait at once) and two command slots (so that both *)
(* can be taken at shutdown).                                                       *)
EXTENDS NvdecSurfaces

MCOutputSurfaces == 2
MCCommandCapacity == 2
MCMaxGeneration == 3
=============================================================================
