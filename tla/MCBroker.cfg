CONSTANTS
  Tasks = {t1}
  Grants = {g1, g2}
  Tokens = {k1, k2}
  CronRuns = {c1}
  Keys = {q1}
  Scopes = {dm, origin}
  MaxRevision = 2
  MaxGrantRevision = 2
  MaxEffects = 2
  MaxCrashes = 2
SPECIFICATION BoundedSpec
INVARIANTS TypeOK AtMostOnceDispatched SettledTruthfully
PROPERTIES DispatchUnderCurrentAuthority ImplementsLedger VerifiedStaysRecognised
