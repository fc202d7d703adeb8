CONSTANTS
  Tasks = {t1, t2}
  Commands = {1, 2, 3}
  Loop = loop
  Maintenance = maintenance
  Script <- CreateTwoDeleteOne
  Maintained = {t1, t2}
  MaxRevision = 2
  Ends = {"completed"}
  MaxEffects = 0
  MaxScopeChanges = 0
  MaxCrashes = 0
SPECIFICATION Spec
PROPERTIES HeldIsNotRegenerated
