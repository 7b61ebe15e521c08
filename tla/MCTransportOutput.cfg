SPECIFICATION FairSpec
CONSTANT Capacity <- MCCapacity
INVARIANT KeyframePromised
PROPERTY OutputResumes
PROPERTY EndsAfterInput
PROPERTY ImplementsLiveOutput
