CONSTANTS
    InitMsgs <- MCInitMsgs
    MaxMsgs <- MCMaxMsgs
    PageSize <- MCPageSize
    MaxDrafts <- MCMaxDrafts
    MaxClicks <- MCMaxClicks
    MaxScrolls <- MCMaxScrolls
SPECIFICATION Spec
INVARIANT SingleRedaction
CHECK_DEADLOCK FALSE
