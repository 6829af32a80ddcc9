SPECIFICATION FairSpec
CONSTANTS
  None = None
  g1 = g1
  g2 = g2
  s1 = s1
  s2 = s2
  r1 = r1
  r2 = r2
  w1 = w1
  w2 = w2
  Gens = {g1, g2}
  Schemas = {s1, s2}
  Schema <- TwoSchemas
  Providers = {g1, g2}
  Reviews = {r1, r2}
  Writes = {w1}
  Workers = {1, 2, 3}
  Unreliable = {"commit", "halt", "settle", "deadline"}
  Paths = {"inplace"}
  Imports = FALSE
  MaxRevision = 3
  MaxFaults = 2
  MaxCrashes = 1
INVARIANTS  OnlyActiveGenerationWrites RestoreCanSucceed
PROPERTIES PendingSettles
CHECK_DEADLOCK FALSE
