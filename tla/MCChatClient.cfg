CONSTANTS
    InitMsgs <- MCInitMsgs
    MaxMsgs <- MCMaxMsgs
    PageSize <- MCPageSize
    MaxDrafts <- MCMaxDrafts
    MaxClicks <- MCMaxClicks
    MaxScrolls <- MCMaxScrolls
SPECIFICATION Spec
INVARIANT TypeOK
INVARIANT StatusSound
INVARIANT NoGapBehindCursor
CHECK_DEADLOCK FALSE
