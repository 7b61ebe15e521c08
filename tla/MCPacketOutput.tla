--------------------------- MODULE MCPacketOutput ---------------------------
(* PacketOutput on a queue of two slots: one keyframe can wait behind a     *)
(* stale packet, and both encoders can be blocked at once.                  *)
EXTENDS PacketOutput

MCCapacity == 2
=============================================================================
