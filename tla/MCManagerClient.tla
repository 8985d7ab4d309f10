--------------------------- MODULE MCManagerClient ---------------------------
(* Model-checking instance of ManagerClient: two chats, one already        *)
(* assigned with two messages, the other free until the manager says      *)
(* freeHands, so the run covers the initial listing, an assignment by     *)
(* NewChatEvent, switching between two chats and resolving one.  Pages of *)
(* one message give the first chat a cursor; the log can grow by one      *)
(* message (a send or the customer writing).                              *)
EXTENDS ManagerClient

CONSTANTS c1, c2

MCChats       == {c1, c2}
MCInitOpen    == {c1}
MCInitHistory == <<c1, c1>>
MCCapacity    == 2
MCMaxMsgs     == 3
MCPageSize    == 1
MCMaxClicks   == 2
MCMaxSelects  == 1
MCMaxScrolls  == 1
=============================================================================
