CONSTANTS
  Tasks = {t1}
  Commands = {1, 2}
  Loop = loop
  Maintenance = maintenance
  Script <- CreateChange
  Maintained = {t1}
  MaxRevision = 2
  Ends = {"completed", "stopped"}
  MaxEffects = 1
  MaxScopeChanges = 1
  MaxCrashes = 1
SPECIFICATION Spec
CONSTRAINT Bounded
INVARIANTS OneLiveRun SubmittedOnce ReservationsAreOwned
PROPERTIES SuccessorStartsAlone
CHECK_DEADLOCK FALSE
