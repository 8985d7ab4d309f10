---------------------------- MODULE MCChatClient ----------------------------
(* Model-checking instance of ChatClient: three messages already in the   *)
(* conversation and pages of one message, so the last page leaves a       *)
(* cursor and older pages exhaust it after two scrolls; the history can   *)
(* grow to four messages (one send or one manager message; five for the   *)
(* double-submit run), two texts typed, the send button clicked twice and *)
(* the top reached three times, enough for two overlapping scroll fetches *)
(* and a third after the first answer.                                    *)
EXTENDS ChatClient

MCInitMsgs   == 3
MCMaxMsgs    == 4
MCPageSize   == 1
MCMaxDrafts  == 2
MCMaxClicks  == 2
MCMaxScrolls == 3
=============================================================================
