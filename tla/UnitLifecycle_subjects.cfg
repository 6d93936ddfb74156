SPECIFICATION Spec
CONSTANTS
  Unit = {u1, u2, u3}
  Artifact = {a1}
  Scanner = {s1, s2}
  Time = {1, 2}
  Subject = {winner, loser}
  Winner = winner
  Loser = loser
  None = none
  Deeds = {"merge", "split", "reject", "confirm"}
  MaxDeeds = 2
CHECK_DEADLOCK FALSE
SYMMETRY Symmetric
INVARIANTS
  NoPairMissed
  GraphFollowsClaims
