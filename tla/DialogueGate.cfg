\* Four turns of a session in any overlap and one failed read or write.
SPECIFICATION Spec
CONSTANTS
    MaxTurns = 4
    MaxFaults = 1
INVARIANTS
    TypeOK
    SlotFollowsLatest
    AnsweredOnce
CHECK_DEADLOCK FALSE
