SPECIFICATION FairSpec
CONSTANTS
  MinShot <- MCMinShot
  Cooldown <- MCCooldown
  CandidateHold <- MCCandidateHold
  MaxHold <- MCMaxHold
PROPERTY ServesEligible
PROPERTY ManualStands
PROPERTY AutomaticSpaced
PROPERTY LeadHeld
PROPERTY Settles
