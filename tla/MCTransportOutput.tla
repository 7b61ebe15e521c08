------------------------- MODULE MCTransportOutput -------------------------
(* TransportOutput on a queue of two slots: one keyframe can wait behind a  *)
(* stale packet, and both encoders can be blocked at once.                  *)
EXTENDS TransportOutput

MCCapacity == 2
=============================================================================
