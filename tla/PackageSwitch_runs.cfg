SPECIFICATION Spec
CONSTANTS
  None = None
  g1 = g1
  g2 = g2
  s1 = s1
  s2 = s2
  r1 = r1
  r2 = r2
  w1 = w1
  w2 = w2
  Gens = {g1, g2}
  Schemas = {s1, s2}
  Schema <- TwoSchemas
  Providers = {g1}
  Reviews = {r1, r2}
  Writes = {w1, w2}
  Workers = {1, 2, 3}
  Unreliable = {"start", "gate", "catalog", "route", "commit", "halt", "settle"}
  Paths = {"inplace", "cohort"}
  Imports = TRUE
  MaxRevision = 4
  MaxFaults = 2
  MaxCrashes = 1
INVARIANTS  AcknowledgedWritesSurvive
SYMMETRY Symmetry
CHECK_DEADLOCK FALSE
