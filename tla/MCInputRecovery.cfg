SPECIFICATION FairSpec
CONSTANTS
  ChunkCapacity <- MCChunkCapacity
  PacketCapacity <- MCPacketCapacity
  Format <- MCFormat
  FirstFormat <- MCFirstFormat
  MaxTimeline <- MCMaxTimeline
INVARIANT AudioRestarts
PROPERTY ReferencesIntact
PROPERTY VideoResumes
