SPECIFICATION FairSpec
CONSTANTS
  Documents <- MCDocuments
  Capacity <- MCCapacity
  MaxFailures <- MCMaxFailures
  MaxItems <- MCMaxItems
INVARIANT AcceptedJobsRun
INVARIANT ConversionFaithful
INVARIANT PlansKeepTheirClaims
INVARIANT EndsHonestly
INVARIANT ReturnedShowsNothing
INVARIANT LastSampleStands
PROPERTY RunReturns
PROPERTY DownShown
