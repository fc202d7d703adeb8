SPECIFICATION Spec
CONSTANTS
  Effects = {e1}
  Owned = {o1}
  HoldLimit = 1
  QueueLimit = 2
  MaxFaults = 1

PROPERTY MappingsKept
CHECK_DEADLOCK FALSE
