--------------------------- MODULE MCInputRecovery ---------------------------
(* InputRecovery with queues of one chunk and one packet, two formats and    *)
(* two breaks of each stream: a second break can overtake the flag of the    *)
(* first in the demuxer, and a flagged packet can wait in a queue meanwhile. *)
(* Formats are only compared with each other, so the first one may be fixed. *)
EXTENDS InputRecovery

MCChunkCapacity == 1
MCPacketCapacity == 1
MCFormat == {1, 2}
MCFirstFormat == 1
MCMaxTimeline == 3
=============================================================================
