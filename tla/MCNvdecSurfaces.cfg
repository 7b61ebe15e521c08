SPECIFICATION FairSpec
CONSTANTS
  OutputSurfaces <- MCOutputSurfaces
  CommandCapacity <- MCCommandCapacity
  MaxGeneration <- MCMaxGeneration
INVARIANT DecoderOutlivesSurfaces
INVARIANT CountsExact
INVARIANT ExitsClean
PROPERTY WorkerExits
