SPECIFICATION SidesSpec
CONSTANTS
  CounterModulus = 3
  PtsModulus = 8
  FirstPts = 6
  PesLimit = 2
  MaxParts = 3
  MaxUnit = 4
  Second = 8
  Ticks = 10
  Fps = 3
  SampleRate = 7
  FrameSamples = 2
  AudioFrames = 1
  MaxDecoded = 3
  MaxTime = 24
INVARIANT UnflaggedWhole
INVARIANT TimestampsFollow
INVARIANT LossesAnnounced
INVARIANT StampsInStep
