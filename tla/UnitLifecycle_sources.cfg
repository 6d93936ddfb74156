SPECIFICATION Spec
CONSTANTS
  Unit = {u1, u2, u3}
  Artifact = {a1, a2}
  Scanner = {s1}
  Time = {1, 2}
  Subject = {winner}
  Winner = winner
  Loser = loser
  None = none
  Deeds = {"retract", "restore", "reject", "reassert", "confirm"}
  MaxDeeds = 3
CHECK_DEADLOCK FALSE
SYMMETRY Symmetric
INVARIANTS
  SupersessionsInForce
  OpenOnesAreAboutClaims
