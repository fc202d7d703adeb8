CONSTANTS
  Tasks = {t1}
  Commands = {1, 2}
  Loop = loop
  Maintenance = maintenance
  Script <- CreateCorrectWithdraw
  Maintained = {}
  MaxRevision = 2
  Ends = {"completed"}
  MaxEffects = 0
  MaxScopeChanges = 0
  MaxCrashes = 0
SPECIFICATION Spec
PROPERTIES NewestMayResume
