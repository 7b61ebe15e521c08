SPECIFICATION FairSpec
CONSTANT Capacity <- MCCapacity
PROPERTY OutputResumes
PROPERTY EndsAfterInput
PROPERTY ImplementsLiveOutput
