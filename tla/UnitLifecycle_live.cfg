SPECIFICATION FairSpec
CONSTANTS
  Unit = {u1, u2}
  Artifact = {a1}
  Scanner = {s1, s2}
  Time = {1, 2}
  Subject = {winner}
  Winner = winner
  Loser = loser
  None = none
  Deeds = {"edit", "reject", "restore", "fail"}
  MaxDeeds = 2
CHECK_DEADLOCK FALSE
PROPERTIES
  EventuallyScanned
