----------------------------- MODULE MCDirector -----------------------------
(* Director with thresholds that all differ in what they allow: a cooldown  *)
(* that outlasts the minimum shot, a candidate of more than one unit, and    *)
(* holds that run out before, at and after a candidate is ready.             *)
EXTENDS Director

MCMinShot == 2
MCCooldown == 3
MCCandidateHold == 2
MCMaxHold == 3
=============================================================================
