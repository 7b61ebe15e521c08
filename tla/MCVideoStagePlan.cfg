SPECIFICATION Spec
CONSTANTS
  VideoFrames <- MCVideoFrames
  OutputSurfaces <- MCOutputSurfaces
  MaxBurst <- MCMaxBurst
INVARIANT MappedWithinPlan
