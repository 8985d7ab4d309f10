------------------------------ MODULE ChatClient ------------------------------
(***************************************************************************)
(* The customer chat client, src/cmd/ui-client/static/app.                *)
(*                                                                         *)
(* One browser page with a single conversation.  The page pulls history   *)
(* pages over HTTP (getHistory) and receives pushed events over a         *)
(* WebSocket; both write into the same DOM list of messages, the          *)
(* timeline.  Every handler runs to completion on the JS event loop, so   *)
(* each action below is one callback: a click, a scroll, a resolved       *)
(* fetch promise or an onmessage frame.  The backend is the environment:  *)
(* it stores messages, answers requests, and pushes events only to an     *)
(* open socket (frames in flight are lost when the socket fails).         *)
(*                                                                         *)
(* Data is abstracted: a message is its position in the backend history   *)
(* (ids are assigned in order, so the position is the id), a text the     *)
(* user typed is a draft number, a cursor is the history position it      *)
(* points below.                                                          *)
(***************************************************************************)
EXTENDS Naturals, Sequences, FiniteSets, Bags

SX == INSTANCE SequencesExt

CONSTANTS
    InitMsgs,    \* messages already in the conversation when the page loads
    MaxMsgs,     \* bound on the backend history length
    PageSize,    \* defaultHistoryPageSize (10 in the code)
    MaxDrafts,   \* bound on texts the user types
    MaxClicks,   \* bound on clicks of the send button
    MaxScrolls   \* bound on scroll-to-top events

ASSUME InitMsgs <= MaxMsgs /\ PageSize >= 1
ASSUME {MaxDrafts, MaxClicks, MaxScrolls} \subseteq Nat

NoCursor    == 0   \* historyCursor undefined: falsy in `if (!cursor)`
UndefinedId == 0   \* data-message-id="undefined"
NoDraft     == 0   \* msgInput.val() === '' ; also "not a client message"

VARIABLES
    (* backend *)
    srvMsgs,        \* history: srvMsgs[p] = draft the client sent, NoDraft if the manager wrote it
    srvReceived,    \* client messages delivered to the manager
    srvBlocked,     \* client messages suppressed by the backend
    published,      \* messages whose NewMessageEvent has been pushed
    (* WebSocket *)
    stream,         \* "none" before initWsStream, then "connecting" | "open" |
                    \* "retrying" (reconnect timer armed) | "closed" (for good)
    inbox,          \* frames pushed on the open socket, not yet handled
    (* page *)
    phase,          \* "init" | "running" | "failed" (keycloak.init outcome)
    timeline,       \* the rendered messages, in DOM order
    historyCursor,  \* App.historyCursor
    input,          \* the draft in msgInput, NoDraft when empty
    drafts,         \* drafts typed so far
    net,            \* bag of fetch requests in flight or answered
    clicks,         \* send clicks so far
    scrolls,        \* scroll-to-top events so far
    loadedTop       \* newest position shown by GetLastMessages, 0 before it

srvVars    == <<srvMsgs, srvReceived, srvBlocked, published>>
streamVars == <<stream, inbox>>
pageVars   == <<phase, timeline, historyCursor, input, drafts, net, clicks,
                 scrolls, loadedTop>>
vars == <<srvVars, streamVars, pageVars>>

Positions == 1..MaxMsgs
Cursors   == {NoCursor} \cup Positions
Drafts    == 1..MaxDrafts

(* What the backend returns for message p: the JSON message record.       *)
Item(p) == [msg |-> p, isReceived |-> p \in srvReceived,
            isBlocked |-> p \in srvBlocked]

(* Message.FromData(data).render(): the DOM element.  `id` is the         *)
(* data-message-id attribute the handlers select on; `msg` is the message *)
(* the element shows (a ghost the code cannot read).  A blocked client    *)
(* message is rendered with the blockedMsgBody alert (renderAlert); the   *)
(* MessageBlockedEvent handler adds a second kind, the #msgWasBlockedAlertId *)
(* alert (evAlert).                                                       *)
Render(id, it) == [id |-> id, msg |-> it.msg, isReceived |-> it.isReceived,
                   renderAlert |-> it.isBlocked, evAlert |-> FALSE]

RenderAll(items) == [i \in DOMAIN items |-> Render(items[i].msg, items[i])]

Shown(id) == {i \in DOMAIN timeline : timeline[i].id = id}

Request(kind, arg) == [kind |-> kind, arg |-> arg, state |-> "inflight",
                       data |-> [messages |-> <<>>, next |-> NoCursor]]

-----------------------------------------------------------------------------
(* Backend: answers to the fetches of api.v1.js.  A history page holds    *)
(* the PageSize messages below the cursor (or the newest ones without a   *)
(* cursor), newest first, and a next cursor while older messages remain.  *)

Answer(r, state, data) ==
    net' = (net (-) SetToBag({r})) (+) SetToBag({[r EXCEPT !.state = state, !.data = data]})

ServeHistory(r) ==
    LET last  == IF r.arg = NoCursor THEN Len(srvMsgs) ELSE r.arg - 1
        first == IF last >= PageSize THEN last - PageSize + 1 ELSE 1
        page  == [i \in 1..(last - first + 1) |-> Item(last + 1 - i)]
    IN  /\ r.kind \in {"last", "older"}
        /\ \/ Answer(r, "ok", [messages |-> page,
                               next |-> IF first > 1 THEN first ELSE NoCursor])
           \/ Answer(r, "failed", r.data)
        /\ UNCHANGED <<srvVars, streamVars>>

(* sendMessage: the backend stores the message and answers it, rejects it, *)
(* or stores it and the answer is lost to a transport error.              *)
ServeSend(r) ==
    LET p == Len(srvMsgs) + 1
        stored == /\ p <= MaxMsgs
                  /\ srvMsgs' = Append(srvMsgs, r.arg)
    IN  /\ r.kind = "send"
        /\ \/ stored /\ Answer(r, "ok", [messages |-> <<[msg |-> p, isReceived |-> FALSE,
                                                        isBlocked |-> FALSE]>>,
                                         next |-> NoCursor])
           \/ stored /\ Answer(r, "failed", r.data)
           \/ Answer(r, "failed", r.data) /\ UNCHANGED srvMsgs
        /\ UNCHANGED <<srvReceived, srvBlocked, published, streamVars>>

Serve ==
    /\ phase = "running"
    /\ \E r \in BagToSet(net) : r.state = "inflight" /\ (ServeHistory(r) \/ ServeSend(r))
    /\ UNCHANGED <<phase, timeline, historyCursor, input, drafts, clicks, scrolls,
                   loadedTop>>

Push(e) == inbox' = IF stream = "open" THEN Append(inbox, e) ELSE inbox

ManagerWrites ==
    /\ Len(srvMsgs) < MaxMsgs
    /\ srvMsgs' = Append(srvMsgs, NoDraft)
    /\ UNCHANGED <<srvReceived, srvBlocked, published, streamVars, pageVars>>

PublishNewMessage(p) ==
    /\ p \in DOMAIN srvMsgs \ published
    /\ published' = published \cup {p}
    /\ Push([type |-> "NewMessageEvent", msg |-> p])
    /\ UNCHANGED <<srvMsgs, srvReceived, srvBlocked, stream, pageVars>>

(* A client message is either delivered (MessageSentEvent) or blocked     *)
(* (MessageBlockedEvent), once.                                           *)
Settle(p, kind) ==
    /\ p \in DOMAIN srvMsgs
    /\ srvMsgs[p] # NoDraft
    /\ p \notin srvReceived \cup srvBlocked
    /\ IF kind = "MessageSentEvent"
         THEN srvReceived' = srvReceived \cup {p} /\ UNCHANGED srvBlocked
         ELSE srvBlocked' = srvBlocked \cup {p} /\ UNCHANGED srvReceived
    /\ Push([type |-> kind, msg |-> p])
    /\ UNCHANGED <<srvMsgs, published, stream, pageVars>>

(* An event type this page has no handler for.                            *)
PublishUnknown ==
    /\ stream = "open" /\ inbox = <<>>
    /\ inbox' = <<[type |-> "Unknown", msg |-> 1]>>
    /\ UNCHANGED <<srvVars, stream, pageVars>>

(* The socket (see WsStream for the browser events): the handshake opens  *)
(* it; a failed connection fires onerror, which arms the 2 s timer, and    *)
(* the frames not yet handled are lost; the timer calls initWsStream(token) *)
(* again; a close by the peer of an open socket fires only onclose, which *)
(* logs, so the page never reconnects.                                    *)
StreamOpen ==
    /\ stream = "connecting"
    /\ stream' = "open"
    /\ UNCHANGED <<srvVars, inbox, pageVars>>

StreamError ==
    /\ stream \in {"connecting", "open"}
    /\ stream' = "retrying"
    /\ inbox' = <<>>
    /\ UNCHANGED <<srvVars, pageVars>>

StreamRetry ==
    /\ stream = "retrying"
    /\ stream' = "connecting"
    /\ UNCHANGED <<srvVars, inbox, pageVars>>

StreamClosed ==
    /\ stream = "open"
    /\ stream' = "closed"
    /\ inbox' = <<>>
    /\ UNCHANGED <<srvVars, pageVars>>

-----------------------------------------------------------------------------
(* Mutants: plausible slips in the page handlers below.                   *)

(* The scroll handler stores result.next whether or not the fetch succeeded. *)
GotOlderCursorOnError(r) ==
    /\ r.kind = "older"
    /\ historyCursor' = r.data.next
    /\ timeline' = IF r.state = "ok" /\ timeline # <<>>
                     THEN RenderAll(SX!Reverse(r.data.messages)) \o timeline
                     ELSE timeline
    /\ UNCHANGED <<loadedTop, input>>

(* MessageSentEvent marks every client message as delivered.              *)
OnMessageSentAll(m) ==
    timeline' = [i \in DOMAIN timeline |->
                   IF timeline[i].id # UndefinedId
                     THEN [timeline[i] EXCEPT !.isReceived = TRUE]
                     ELSE timeline[i]]

(* The send answer is displayed under the id of the text it carried.     *)
GotSentTextAsId(r) ==
    /\ r.kind = "send"
    /\ IF r.state = "ok"
         THEN /\ input' = NoDraft
              /\ timeline' = Append(timeline, Render(r.arg, r.data.messages[1]))
         ELSE UNCHANGED <<input, timeline>>
    /\ UNCHANGED <<historyCursor, loadedTop>>

-----------------------------------------------------------------------------
(* Page: App.Run, its listeners and the stream handlers.                  *)

Init ==
    /\ srvMsgs = [p \in 1..InitMsgs |-> NoDraft]
    /\ srvReceived = {} /\ srvBlocked = {}
    /\ published = 1..InitMsgs
    /\ stream = "none" /\ inbox = <<>>
    /\ phase = "init"
    /\ timeline = <<>>
    /\ historyCursor = NoCursor
    /\ input = NoDraft /\ drafts = 0
    /\ net = EmptyBag
    /\ clicks = 0 /\ scrolls = 0
    /\ loadedTop = 0

(* keycloak.init: authenticated with the client role, the page opens the  *)
(* stream, requests the last page and installs its listeners; otherwise   *)
(* it only alerts.                                                        *)
Run ==
    /\ phase = "init"
    /\ \/ /\ phase' = "running"
          /\ stream' = "connecting"
          /\ net' = net (+) SetToBag({Request("last", historyCursor)})
       \/ /\ phase' = "failed"
          /\ UNCHANGED <<stream, net>>
    /\ UNCHANGED <<srvVars, inbox, timeline, historyCursor, input, drafts, clicks,
                   scrolls, loadedTop>>

TypeMessage ==
    /\ phase = "running"
    /\ drafts < MaxDrafts
    /\ drafts' = drafts + 1
    /\ input' = drafts + 1
    /\ UNCHANGED <<srvVars, streamVars, phase, timeline, historyCursor, net, clicks,
                   scrolls, loadedTop>>

(* sendButton.click: an empty input returns; otherwise sendMessage.  The  *)
(* input is left as it is until the answer arrives.                       *)
ClickSend ==
    /\ phase = "running"
    /\ clicks < MaxClicks
    /\ input # NoDraft
    /\ clicks' = clicks + 1
    /\ net' = net (+) SetToBag({Request("send", input)})
    /\ UNCHANGED <<srvVars, streamVars, phase, timeline, historyCursor, input, drafts,
                   scrolls, loadedTop>>

(* chatArea.scroll at scrollTop 0 (the area scrolls only once it holds    *)
(* messages): without a cursor it alerts 'No more messages', otherwise it *)
(* fetches the page below the cursor; nothing stops a second fetch with   *)
(* the same cursor while the first is in flight.                          *)
ScrollToTop ==
    /\ phase = "running"
    /\ scrolls < MaxScrolls
    /\ timeline # <<>>
    /\ scrolls' = scrolls + 1
    /\ \/ /\ historyCursor = NoCursor
          /\ UNCHANGED net
       \/ /\ historyCursor # NoCursor
          /\ net' = net (+) SetToBag({Request("older", historyCursor)})
    /\ UNCHANGED <<srvVars, streamVars, phase, timeline, historyCursor, input, drafts,
                   clicks, loadedTop>>

(* GetLastMessages .then: store result.next, append the page reversed     *)
(* (oldest first); .catch: alert only.                                    *)
GotLast(r) ==
    /\ r.kind = "last"
    /\ IF r.state = "ok"
         THEN /\ historyCursor' = r.data.next
              /\ timeline' = timeline \o RenderAll(SX!Reverse(r.data.messages))
              /\ loadedTop' = IF r.data.messages = <<>> THEN 0 ELSE r.data.messages[1].msg
         ELSE UNCHANGED <<historyCursor, timeline, loadedTop>>
    /\ UNCHANGED input

(* GetHistoryOnScroll .then: store result.next and insert each message    *)
(* (newest first) before the first element, so the page ends up oldest   *)
(* first above the timeline; with no element to insert before, jQuery     *)
(* inserts nothing.                                                       *)
GotOlder(r) ==
    /\ r.kind = "older"
    /\ IF r.state = "ok"
         THEN /\ historyCursor' = r.data.next
              /\ timeline' = IF timeline = <<>> THEN timeline
                             ELSE RenderAll(SX!Reverse(r.data.messages)) \o timeline
         ELSE UNCHANGED <<historyCursor, timeline>>
    /\ UNCHANGED <<loadedTop, input>>

(* SendMessageOnBtnClick .then: clear the input and DisplayNewMessage the *)
(* answered record, without looking for it on the page.                   *)
GotSent(r) ==
    /\ r.kind = "send"
    /\ IF r.state = "ok"
         THEN /\ input' = NoDraft
              /\ timeline' = Append(timeline, Render(r.data.messages[1].msg, r.data.messages[1]))
         ELSE UNCHANGED <<input, timeline>>
    /\ UNCHANGED <<historyCursor, loadedTop>>

HandleResponse ==
    /\ \E r \in BagToSet(net) :
         /\ r.state # "inflight"
         /\ net' = net (-) SetToBag({r})
         /\ GotLast(r) \/ GotOlder(r) \/ GotSent(r)
    /\ UNCHANGED <<srvVars, streamVars, phase, drafts, clicks, scrolls>>

(* eventHandlers.NewMessageEvent: skip when an element with this id is    *)
(* shown; otherwise DisplayNewMessage(event).  Message.FromData reads     *)
(* data.id, and the event carries messageId, so the element gets          *)
(* data-message-id="undefined".                                           *)
OnNewMessage(m) ==
    timeline' = IF Shown(m) # {} THEN timeline
                ELSE Append(timeline, Render(UndefinedId, [msg |-> m, isReceived |-> FALSE,
                                                            isBlocked |-> FALSE]))

(* eventHandlers.MessageSentEvent: double check on every element with the id. *)
OnMessageSent(m) ==
    timeline' = [i \in DOMAIN timeline |->
                   IF timeline[i].id = m THEN [timeline[i] EXCEPT !.isReceived = TRUE]
                   ELSE timeline[i]]

(* eventHandlers.MessageBlockedEvent: return if one of the elements with  *)
(* the id already has the #msgWasBlockedAlertId alert; otherwise remove   *)
(* their body and prepend that alert to each.                             *)
OnMessageBlocked(m) ==
    timeline' = IF \E i \in Shown(m) : timeline[i].evAlert THEN timeline
                ELSE [i \in DOMAIN timeline |->
                        IF timeline[i].id = m THEN [timeline[i] EXCEPT !.evAlert = TRUE]
                        ELSE timeline[i]]

(* sock.onmessage: parse the frame and dispatch; unknown types are logged *)
(* and dropped.                                                           *)
HandleFrame ==
    /\ inbox # <<>>
    /\ inbox' = Tail(inbox)
    /\ LET e == Head(inbox) IN
         CASE e.type = "NewMessageEvent"     -> OnNewMessage(e.msg)
           [] e.type = "MessageSentEvent"    -> OnMessageSent(e.msg)
           [] e.type = "MessageBlockedEvent" -> OnMessageBlocked(e.msg)
           [] OTHER                          -> UNCHANGED timeline
    /\ UNCHANGED <<srvVars, stream, phase, historyCursor, input, drafts, net, clicks,
                   scrolls, loadedTop>>

(* A page whose keycloak.init failed does nothing more.                   *)
Halted ==
    /\ phase = "failed"
    /\ UNCHANGED vars

Next ==
    \/ Run \/ TypeMessage \/ ClickSend \/ ScrollToTop \/ HandleResponse \/ HandleFrame
    \/ Serve \/ ManagerWrites \/ PublishUnknown
    \/ StreamOpen \/ StreamError \/ StreamRetry \/ StreamClosed
    \/ \E p \in Positions : \/ PublishNewMessage(p)
                            \/ Settle(p, "MessageSentEvent")
                            \/ Settle(p, "MessageBlockedEvent")
    \/ Halted

Spec == Init /\ [][Next]_vars

-----------------------------------------------------------------------------
(* Properties                                                             *)

TypeOK ==
    /\ srvMsgs \in Seq({NoDraft} \cup Drafts) /\ Len(srvMsgs) <= MaxMsgs
    /\ srvReceived \subseteq Positions /\ srvBlocked \subseteq Positions
    /\ published \subseteq Positions
    /\ stream \in {"none", "connecting", "open", "retrying", "closed"}
    /\ phase \in {"init", "running", "failed"}
    /\ historyCursor \in Cursors
    /\ input \in {NoDraft} \cup Drafts
    /\ \A i \in DOMAIN timeline : timeline[i].id \in {UndefinedId, timeline[i].msg}
    /\ loadedTop \in {0} \cup Positions

(* The page never shows a delivery or a block the backend has not         *)
(* reached: a double check (from a history page, a send answer or a       *)
(* MessageSentEvent) only on a delivered message, a redaction alert only  *)
(* on a blocked one, however stale the page or the frame that set it.     *)
StatusSound ==
    \A i \in DOMAIN timeline :
        /\ timeline[i].isReceived => timeline[i].msg \in srvReceived
        /\ (timeline[i].renderAlert \/ timeline[i].evAlert) => timeline[i].msg \in srvBlocked

(* No gap behind the cursor: once the last page is shown, every message   *)
(* from the position historyCursor points at (the oldest, once it is      *)
(* undefined) up to the newest one that page showed is on the page, with  *)
(* its id, whatever the order in which overlapping scroll fetches and     *)
(* failed fetches completed.                                              *)
NoGapBehindCursor ==
    loadedTop > 0 =>
        \A p \in (IF historyCursor = NoCursor THEN 1 ELSE historyCursor)..loadedTop :
            Shown(p) # {}

SingleRedaction ==
    \A i \in DOMAIN timeline : ~(timeline[i].renderAlert /\ timeline[i].evAlert)

(* Spec 3: once the last page is in, the cursor only moves to older       *)
(* points, and once exhausted it stays exhausted.                         *)
CursorOnlyOlder ==
    [][loadedTop > 0 /\ historyCursor' # historyCursor =>
         historyCursor # NoCursor /\
         (historyCursor' = NoCursor \/ historyCursor' < historyCursor)]_<<historyCursor, loadedTop>>

(* Spec 4.3: the input is cleared when a text is submitted, so one typed  *)
(* text reaches the backend at most once.                                 *)
SubmittedOnce ==
    \A p, q \in DOMAIN srvMsgs :
        p # q /\ srvMsgs[p] # NoDraft => srvMsgs[p] # srvMsgs[q]

=============================================================================
