SPECIFICATION FairSpec
CONSTANTS
    Mark = 2
    Room = 1
    MaxBytes = 3
    MaxReply = 2
    MaxWrite = 2
    MaxRead = 2
    Bundlers = {"client"}
INVARIANTS TypeOK Stream NothingCutOff
PROPERTIES ReadsWhole EndAtMark ReadsResolve
CHECK_DEADLOCK FALSE
