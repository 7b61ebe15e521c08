SPECIFICATION Spec
CONSTANTS
  ChunkCapacity <- MCChunkCapacity
  PacketCapacity <- MCPacketCapacity
  Format <- MCFormat
  FirstFormat <- MCFirstFormat
  MaxTimeline <- MCMaxTimeline
INVARIANT GenerationRestarts
