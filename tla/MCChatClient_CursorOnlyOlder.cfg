CONSTANTS
    InitMsgs <- MCInitMsgs
    MaxMsgs <- MCMaxMsgs
    PageSize <- MCPageSize
    MaxDrafts <- MCMaxDrafts
    MaxClicks <- MCMaxClicks
    MaxScrolls <- MCMaxScrolls
SPECIFICATION Spec
PROPERTY CursorOnlyOlder
CHECK_DEADLOCK FALSE
