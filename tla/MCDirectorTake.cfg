SPECIFICATION Spec
CONSTANTS
  MinShot <- MCMinShot
  Cooldown <- MCCooldown
  CandidateHold <- MCCandidateHold
  MaxHold <- MCMaxHold
PROPERTY TakeObeyed
