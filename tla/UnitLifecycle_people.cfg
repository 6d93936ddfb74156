SPECIFICATION Spec
CONSTANTS
  Unit = {u1, u2, u3}
  Artifact = {a1}
  Scanner = {s1}
  Time = {1, 2}
  Subject = {winner}
  Winner = winner
  Loser = loser
  None = none
  Deeds = {"resolve", "settle", "confirm", "agree", "edit", "resave", "reject", "restore"}
  MaxDeeds = 3
CHECK_DEADLOCK FALSE
SYMMETRY Symmetric
INVARIANTS
  TypeOK
  ConflictsAreShown
PROPERTIES
  JudgementsStand
