------------------------------ MODULE WsStream ------------------------------
(***************************************************************************)
(* initWsStream (src/cmd/ui-client/static/app/stream.js, the same code in  *)
(* ui-manager): the WebSocket objects it creates, the browser events that  *)
(* reach their handlers, the 2 s reconnect timer started by onerror, and   *)
(* the unload listener each call registers.                                *)
(*                                                                         *)
(* Browser semantics (WHATWG WebSockets): a socket starts CONNECTING; a    *)
(* handshake success makes it OPEN and fires open; when a connection is    *)
(* failed (handshake failure, protocol error) the error event and then the *)
(* close event (wasClean false) are fired in one task; when an established *)
(* connection is closed by the peer, with a closing handshake (wasClean    *)
(* true) or abruptly (wasClean false, code 1006), only close is fired.     *)
(* Each socket has exactly one unload listener and reaches CLOSED for good, *)
(* so a CLOSED socket whose events have run is dropped from the state.     *)
(* The backend pushes each event to every open connection of the user;    *)
(* frames in transit when a connection ends are lost.                     *)
(***************************************************************************)
EXTENDS Naturals, Sequences

CONSTANTS
    MaxPushes,  \* events the backend pushes in a behaviour (event i is pushed i-th)
    Unknown     \* events whose eventType has no handler

ASSUME Unknown \subseteq 1..MaxPushes

VARIABLES
    socks,      \* sockets not yet CLOSED, oldest first: state and frames in transit
    timers,     \* reconnect timers started by onerror and not yet fired
    wasClean,   \* "none" before any close event, else the last close event's wasClean
    unloaded,   \* the page has been unloaded (no callback runs after that)
    pushed,     \* events pushed so far
    handled     \* events passed to eventHandlers, in order

vars == <<socks, timers, wasClean, unloaded, pushed, handled>>
evVars == <<pushed, handled>>

NewSocket == [state |-> "connecting", inq |-> <<>>]

(* initWsStream(token): new WebSocket (CONNECTING) and its unload listener. *)
InitWsStream == socks' = Append(socks, NewSocket)

Live == ~unloaded

(* Remove socket i, which has reached CLOSED. *)
Drop(i) == [k \in 1..Len(socks) - 1 |-> IF k < i THEN socks[k] ELSE socks[k + 1]]

-----------------------------------------------------------------------------
(* Mutants: plausible slips in the handlers below.                        *)

(* onclose records the close code (as text) where it meant wasClean.     *)
ClosedByPeerCode(i, clean) ==
    /\ Live /\ i \in DOMAIN socks /\ socks[i].state = "open"
    /\ socks' = Drop(i)
    /\ wasClean' = IF clean THEN "1000" ELSE "1006"
    /\ UNCHANGED <<timers, unloaded, evVars>>

(* The reconnect uses setInterval, so the timer stays armed.             *)
TimerFiresInterval ==
    /\ Live /\ timers > 0
    /\ InitWsStream
    /\ UNCHANGED <<timers, wasClean, unloaded, evVars>>

(* The unload listener closes its socket whatever its readyState.         *)
UnloadAnyState ==
    /\ Live
    /\ unloaded' = TRUE
    /\ socks' = <<>>
    /\ wasClean' = IF socks # <<>> THEN "true" ELSE wasClean
    /\ UNCHANGED <<timers, evVars>>

-----------------------------------------------------------------------------

Init ==
    /\ socks = <<>> /\ timers = 0 /\ wasClean = "none" /\ unloaded = FALSE
    /\ pushed = 0 /\ handled = <<>>

(* App.Run of the customer page calls initWsStream once; the manager page *)
(* never does (see ManagerClient!StartStream).                            *)
Start ==
    /\ Live /\ socks = <<>> /\ timers = 0 /\ wasClean = "none"
    /\ InitWsStream
    /\ UNCHANGED <<timers, wasClean, unloaded, evVars>>

(* Handshake succeeds: OPEN, onopen only logs.                            *)
Opened(i) ==
    /\ Live /\ i \in DOMAIN socks /\ socks[i].state = "connecting"
    /\ socks' = [socks EXCEPT ![i].state = "open"]
    /\ UNCHANGED <<timers, wasClean, unloaded, evVars>>

(* The connection is failed, CONNECTING or OPEN: onerror starts the 2 s    *)
(* timer, then onclose logs the unclean close.                            *)
Failed(i) ==
    /\ Live /\ i \in DOMAIN socks
    /\ socks' = Drop(i)
    /\ timers' = timers + 1
    /\ wasClean' = "false"
    /\ UNCHANGED <<unloaded, evVars>>

(* The peer closes an open connection, cleanly or abruptly: only onclose, *)
(* which logs an unclean close and does nothing else.                     *)
ClosedByPeer(i, clean) ==
    /\ Live /\ i \in DOMAIN socks /\ socks[i].state = "open"
    /\ socks' = Drop(i)
    /\ wasClean' = IF clean THEN "true" ELSE "false"
    /\ UNCHANGED <<timers, unloaded, evVars>>

(* The timer resolves the awaited promise and the closure calls           *)
(* initWsStream(token) again.                                             *)
TimerFires ==
    /\ Live /\ timers > 0
    /\ timers' = timers - 1
    /\ InitWsStream
    /\ UNCHANGED <<wasClean, unloaded, evVars>>

(* window unload: every listener closes its socket if it is OPEN (a clean *)
(* close initiated locally); the page is gone before any event runs.      *)
Unload ==
    /\ Live
    /\ unloaded' = TRUE
    /\ socks' = SelectSeq(socks, LAMBDA s : s.state # "open")
    /\ wasClean' = IF \E i \in DOMAIN socks : socks[i].state = "open" THEN "true" ELSE wasClean
    /\ UNCHANGED <<timers, evVars>>

(* The backend pushes the next event to every OPEN connection.          *)
Push ==
    /\ Live /\ pushed < MaxPushes
    /\ pushed' = pushed + 1
    /\ socks' = [k \in DOMAIN socks |->
                   IF socks[k].state = "open"
                     THEN [socks[k] EXCEPT !.inq = Append(@, pushed + 1)]
                     ELSE socks[k]]
    /\ UNCHANGED <<timers, wasClean, unloaded, handled>>

(* sock.onmessage: parse the frame; log and drop an unknown eventType,    *)
(* otherwise call its handler.                                            *)
OnMessage(i) ==
    /\ Live /\ i \in DOMAIN socks /\ socks[i].inq # <<>>
    /\ LET e == Head(socks[i].inq) IN
         /\ socks' = [socks EXCEPT ![i].inq = Tail(@)]
         /\ \/ e \in Unknown /\ UNCHANGED handled
            \/ e \notin Unknown /\ handled' = Append(handled, e)
    /\ UNCHANGED <<timers, wasClean, unloaded, pushed>>

Gone == unloaded /\ UNCHANGED vars

Next ==
    \/ Start \/ TimerFires \/ Unload \/ Push \/ Gone
    \/ \E i \in DOMAIN socks : Opened(i) \/ Failed(i) \/ OnMessage(i)
    \/ \E i \in DOMAIN socks, clean \in BOOLEAN : ClosedByPeer(i, clean)

(* The browser runs a due timer callback: setTimeout fires while the page *)
(* lives.  Nothing makes the network or the server behave.                *)
Spec == Init /\ [][Next]_vars /\ WF_vars(TimerFires)

-----------------------------------------------------------------------------
(* Refinement: the connection state spec 4.2 describes.                   *)

Conn ==
    IF socks # <<>> THEN socks[Len(socks)].state
    ELSE IF timers > 0 THEN "closedError"
    ELSE CASE wasClean = "none"  -> "none"
           [] wasClean = "true"  -> "closedClean"
           [] OTHER              -> "closedError"

Abstract == INSTANCE Stream WITH conn <- Conn, unloaded <- unloaded

-----------------------------------------------------------------------------
(* Properties                                                             *)

TypeOK ==
    /\ socks \in Seq([state : {"connecting", "open"}, inq : Seq(1..MaxPushes)])
    /\ timers \in Nat
    /\ wasClean \in {"none", "true", "false"}
    /\ unloaded \in BOOLEAN
    /\ pushed \in 0..MaxPushes /\ handled \in Seq(1..MaxPushes)

(* However errors, closes and timers interleave, the page holds at most   *)
(* one connection or pending reconnect at a time: onerror fires once per  *)
(* socket and only onerror schedules initWsStream.                        *)
SingleConnection == Len(socks) + timers <= 1

(* Every step of the sockets, timers and unload listeners is a step of    *)
(* the connection state machine of spec 4.2.                              *)
StreamSafety == Abstract!SafeSpec

(* Spec 4.2: a connection that closes in error (wasClean false) is        *)
(* followed by a reconnect; the whole promise, with its fairness.         *)
StreamSpec == Abstract!Spec

=============================================================================
