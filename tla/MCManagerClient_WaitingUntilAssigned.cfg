CONSTANTS
    c1 = c1
    c2 = c2
    NoChat = NoChat
    Chats <- MCChats
    InitOpen <- MCInitOpen
    InitHistory <- MCInitHistory
    Capacity <- MCCapacity
    MaxMsgs <- MCMaxMsgs
    PageSize <- MCPageSize
    MaxClicks <- MCMaxClicks
    MaxSelects <- MCMaxSelects
    MaxScrolls <- MCMaxScrolls
SPECIFICATION Spec
INVARIANT WaitingUntilAssigned
CHECK_DEADLOCK FALSE
