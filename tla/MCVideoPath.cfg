SPECIFICATION PathFairSpec
CONSTANTS
  VideoFrames <- MCVideoFrames
  OutputSurfaces <- MCOutputSurfaces
  MaxBurst <- MCMaxBurst
  SurfaceCount <- MCSurfaceCount
  CommandCapacity <- MCCommandCapacity
INVARIANT PoolSuffices
INVARIANT NativeNested
PROPERTY PathDrains
CHECK_DEADLOCK FALSE
