CONSTANTS
  Tasks = {t1}
  Grants = {g1}
  Tokens = {k1, k2}
  CronRuns = {c1}
  Keys = {q1}
  Scopes = {dm}
  MaxRevision = 1
  MaxGrantRevision = 1
  MaxEffects = 2
  MaxCrashes = 2
SPECIFICATION Spec
SYMMETRY Symmetry
PROPERTIES VerifiedIsFinal
