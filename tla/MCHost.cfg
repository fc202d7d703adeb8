\* The components around the host and the phase-3 programs.
CONSTANT None = None
SPECIFICATION Spec
INVARIANTS HostTypes OnlyApprovedActs ReceiptsAreTrue ArrivalsAreKept OneAttempt ActsWithinBounds
           EvidenceIsTrue NothingIsLeft
PROPERTIES WithdrawalHolds AttemptsAreKept ConcludesInTime
CHECK_DEADLOCK FALSE
