------------------------------- MODULE Stream -------------------------------
(***************************************************************************)
(* What the event stream connector promises (spec 4.2): one long-lived     *)
(* push connection, CONNECTING -> OPEN -> CLOSED(clean | error).  A clean  *)
(* close (page unload, or a clean close by the server) is final; a         *)
(* transport error or a failed handshake is followed, after a fixed delay, *)
(* by a new attempt with the same credential, forever.  Page unload stops  *)
(* everything.                                                             *)
(***************************************************************************)

VARIABLES
    conn,      \* "none" | "connecting" | "open" | "closedClean" | "closedError"
    unloaded   \* the page has been unloaded

vars == <<conn, unloaded>>

States == {"none", "connecting", "open", "closedClean", "closedError"}

Init == conn = "none" /\ unloaded = FALSE

Move(from, to) == /\ ~unloaded /\ conn \in from /\ conn' = to /\ UNCHANGED unloaded

Start      == Move({"none"}, "connecting")
Open       == Move({"connecting"}, "open")
CloseClean == Move({"open"}, "closedClean")
Error      == Move({"connecting", "open"}, "closedError")
Reconnect  == Move({"closedError"}, "connecting")

(* Unloading closes an open connection cleanly; nothing happens after it. *)
Unload ==
    /\ ~unloaded
    /\ unloaded' = TRUE
    /\ conn' = IF conn = "open" THEN "closedClean" ELSE conn

Next == Start \/ Open \/ CloseClean \/ Error \/ Reconnect \/ Unload

SafeSpec == Init /\ [][Next]_vars

(* Reconnection is promised; the handshake succeeding is not (the server  *)
(* may stay down), so only Reconnect is fair.                             *)
Spec == SafeSpec /\ WF_vars(Reconnect)

=============================================================================
