\* The components of the gateway.
CONSTANT None = None
SPECIFICATION Spec
INVARIANTS GatewayTypes ActsOnce RepliesAreTrue AnswersInOrder TurnsAreAccounted NothingIsLost
           StoresReopen AlertsUnderPolicy
PROPERTIES GatewayRefines NothingFollows
CHECK_DEADLOCK FALSE
