CONSTANTS
    InitMsgs <- MCInitMsgs
    MaxMsgs = 5
    PageSize <- MCPageSize
    MaxDrafts <- MCMaxDrafts
    MaxClicks <- MCMaxClicks
    MaxScrolls <- MCMaxScrolls
SPECIFICATION Spec
INVARIANT SubmittedOnce
CHECK_DEADLOCK FALSE
