SPECIFICATION FairSpec
CONSTANTS
  Offers <- MCOffers
  MaxTracks <- MCMaxTracks
  InitialBackoff <- MCInitialBackoff
  MaxBackoff <- MCMaxBackoff
  MaxPending <- MCMaxPending
  MaxAttempts <- MCMaxAttempts
  MaxSession <- MCMaxSession
PROPERTY ImplementsMarkedSource
PROPERTY RtmpStartsAtKey
PROPERTY MarksJustified
PROPERTY SrtReturnCounted
PROPERTY SessionReturns
INVARIANT SocketsOwned
