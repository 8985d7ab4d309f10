---------------------------- MODULE ManagerClient ----------------------------
(***************************************************************************)
(* The support-manager page, src/cmd/ui-manager/static/app.               *)
(*                                                                         *)
(* The page lists the manager's open chats, shows one selected chat in a  *)
(* chat area filled from getChatHistory pages and NewMessageEvent frames, *)
(* sends and resolves in the selected chat, and drives the "Ready to      *)
(* Problems" button from freeHands, NewChatEvent and ChatClosedEvent.     *)
(* Each action is one callback run to completion on the JS event loop.    *)
(* The backend (chat assignment, history, sends, resolution) is the       *)
(* environment.  A message is its position in the backend's global        *)
(* message log (ids are ordered by creation, so the position also plays   *)
(* the cursor's created-at); a cursor is the position it points below.    *)
(***************************************************************************)
EXTENDS Naturals, Sequences, FiniteSets, Bags

SX == INSTANCE SequencesExt

CONSTANTS
    Chats,        \* chat ids
    NoChat,       \* App.currentChatID undefined
    InitOpen,     \* chats assigned to this manager when the page loads
    InitHistory,  \* chat of each message already written, oldest first
    Capacity,     \* open chats the backend lets one manager hold
    MaxMsgs,      \* bound on the message log
    PageSize,     \* defaultHistoryPageSize (10 in the code)
    MaxClicks,    \* bound on clicks of send, resolve and ready buttons
    MaxSelects,   \* bound on clicks on a chat in the list
    MaxScrolls    \* bound on scroll-to-top events

ASSUME NoChat \notin Chats /\ InitOpen \subseteq Chats
ASSUME InitHistory \in Seq(InitOpen) /\ Len(InitHistory) <= MaxMsgs
ASSUME Cardinality(InitOpen) <= Capacity /\ PageSize >= 1

NoCursor == [chat |-> NoChat, pos |-> 0]   \* currentChatHistoryCursor undefined

VARIABLES
    (* backend *)
    chatState,   \* chat -> "free" (waiting for a manager) | "open" (ours) | "closed"
    inPool,      \* the manager has said freeHands and awaits an assignment
    srvMsgs,     \* message log: srvMsgs[i] is the chat of message i
    published,   \* messages whose NewMessageEvent has been pushed
    (* WebSocket *)
    stream, inbox,
    (* page *)
    phase,       \* "init" | "running" | "failed"
    chatList,    \* the .problem elements (their data-chat-id), in DOM order
    current,     \* App.currentChatID
    cursor,      \* App.currentChatHistoryCursor (chat: the chat it was issued for)
    area,        \* the message elements of #chat-content (data-message-id)
    input,       \* msgInput holds text
    readyBtn,    \* classes of readyToProblemsBtn and its label
    resolveOff,  \* problemResolvedButton has class disabled
    net,         \* bag of fetch requests in flight or answered
    clicks, selects, scrolls

srvVars    == <<chatState, inPool, srvMsgs, published>>
streamVars == <<stream, inbox>>
pageVars   == <<phase, chatList, current, cursor, area, input, readyBtn, resolveOff,
                 net, clicks, selects, scrolls>>
vars == <<srvVars, streamVars, pageVars>>

Positions == 1..MaxMsgs
Cursors   == {NoCursor} \cup [chat : Chats, pos : Positions]

OpenChats == {c \in Chats : chatState[c] = "open"}
CanTake(open) == Cardinality(open) < Capacity   \* canTakeMoreProblems

NoData == [chats |-> <<>>, page |-> <<>>, next |-> NoCursor, available |-> FALSE]
Request(kind, chat, cur) == [kind |-> kind, chat |-> chat, cursor |-> cur,
                             state |-> "inflight", data |-> NoData]

(* The element of message i in the chat area: data-message-id is         *)
(* data.id || data.messageId; `chat` is a ghost (the chat i belongs to).  *)
Elem(i) == [id |-> i, chat |-> srvMsgs[i]]

-----------------------------------------------------------------------------
(* Backend                                                                *)

Answer(r, state, data) ==
    net' = (net (-) SetToBag({r})) (+) SetToBag({[r EXCEPT !.state = state, !.data = data]})

Push(e) == inbox' = IF stream = "open" THEN Append(inbox, e) ELSE inbox

Event(type, chat, msg, canTake) == [type |-> type, chat |-> chat, msg |-> msg, canTake |-> canTake]

(* getChatHistory: the PageSize newest messages of the chat below the     *)
(* cursor's created-at (the cursor carries no chat id), newest first.     *)
ServeHistory(r) ==
    LET below == {i \in DOMAIN srvMsgs : srvMsgs[i] = r.chat /\
                                          (r.cursor = NoCursor \/ i < r.cursor.pos)}
        page  == SX!Reverse(SX!SetToSortSeq(below, <))
        shown == SubSeq(page, 1, IF Len(page) < PageSize THEN Len(page) ELSE PageSize)
        next  == IF Len(page) > PageSize
                   THEN [chat |-> r.chat, pos |-> shown[Len(shown)]] ELSE NoCursor
    IN  /\ r.kind = "history"
        /\ IF r.chat = NoChat
             THEN Answer(r, "failed", NoData)
             ELSE Answer(r, "ok", [NoData EXCEPT !.page = shown, !.next = next])
        /\ UNCHANGED srvVars /\ UNCHANGED inbox

(* getChats, getFreeHandsBtnAvailability, freeHands, sendMessage and      *)
(* resolveProblem.  Any request may also fail before the backend acts.    *)
ServeOther(r) ==
    \/ /\ r.kind = "chats"
       /\ \E s \in SX!SetToSeqs(OpenChats) : Answer(r, "ok", [NoData EXCEPT !.chats = s])
       /\ UNCHANGED srvVars /\ UNCHANGED inbox
    \/ /\ r.kind = "avail"
       /\ Answer(r, "ok", [NoData EXCEPT !.available = ~inPool /\ CanTake(OpenChats)])
       /\ UNCHANGED srvVars /\ UNCHANGED inbox
    \/ /\ r.kind = "freeHands"
       /\ CanTake(OpenChats)
       /\ inPool' = TRUE
       /\ Answer(r, "ok", NoData)
       /\ UNCHANGED <<chatState, srvMsgs, published, inbox>>
    \/ /\ r.kind = "send"
       /\ r.chat \in OpenChats /\ Len(srvMsgs) < MaxMsgs
       /\ srvMsgs' = Append(srvMsgs, r.chat)
       /\ \/ Answer(r, "ok", [NoData EXCEPT !.page = <<Len(srvMsgs) + 1>>])
          \/ Answer(r, "failed", NoData)   \* stored, answer lost
       /\ UNCHANGED <<chatState, inPool, published, inbox>>
    \/ /\ r.kind = "resolve"
       /\ r.chat \in OpenChats
       /\ chatState' = [chatState EXCEPT ![r.chat] = "closed"]
       /\ Answer(r, "ok", NoData)
       /\ Push(Event("ChatClosedEvent", r.chat, 0, CanTake(OpenChats \ {r.chat})))
       /\ UNCHANGED <<inPool, srvMsgs, published>>
    \/ /\ Answer(r, "failed", NoData)
       /\ UNCHANGED srvVars /\ UNCHANGED inbox

Serve ==
    /\ phase = "running"
    /\ \E r \in BagToSet(net) : r.state = "inflight" /\ (ServeHistory(r) \/ ServeOther(r))
    /\ UNCHANGED stream
    /\ UNCHANGED <<phase, chatList, current, cursor, area, input, readyBtn, resolveOff,
                   clicks, selects, scrolls>>

(* The backend assigns a free chat to the manager waiting in the pool.   *)
AssignChat(c) ==
    /\ inPool /\ chatState[c] = "free"
    /\ chatState' = [chatState EXCEPT ![c] = "open"]
    /\ inPool' = FALSE
    /\ Push(Event("NewChatEvent", c, 0, CanTake(OpenChats \cup {c})))
    /\ UNCHANGED <<srvMsgs, published, stream, pageVars>>

ClientWrites(c) ==
    /\ chatState[c] = "open" /\ Len(srvMsgs) < MaxMsgs
    /\ srvMsgs' = Append(srvMsgs, c)
    /\ UNCHANGED <<chatState, inPool, published, streamVars, pageVars>>

PublishNewMessage(i) ==
    /\ i \in DOMAIN srvMsgs \ published
    /\ published' = published \cup {i}
    /\ Push(Event("NewMessageEvent", srvMsgs[i], i, FALSE))
    /\ UNCHANGED <<chatState, inPool, srvMsgs, stream, pageVars>>

(* initWsStream is defined in stream.js but App.Run never calls it; the   *)
(* page is assumed to start it once the token is known.                   *)
StartStream ==
    /\ phase = "running" /\ stream = "none"
    /\ stream' = "connecting"
    /\ UNCHANGED <<srvVars, inbox, pageVars>>

StreamOpen ==
    /\ stream = "connecting"
    /\ stream' = "open"
    /\ UNCHANGED <<srvVars, inbox, pageVars>>

(* onerror arms the 2 s timer (frames not yet handled are lost); the     *)
(* timer calls initWsStream again; a close by the peer of an open socket   *)
(* fires only onclose, which logs, so the stream stays closed.            *)
StreamError ==
    /\ stream \in {"connecting", "open"}
    /\ stream' = "retrying"
    /\ inbox' = <<>>
    /\ UNCHANGED <<srvVars, pageVars>>

StreamRetry ==
    /\ stream = "retrying"
    /\ stream' = "connecting"
    /\ UNCHANGED <<srvVars, inbox, pageVars>>

StreamClosed ==
    /\ stream = "open"
    /\ stream' = "closed"
    /\ inbox' = <<>>
    /\ UNCHANGED <<srvVars, pageVars>>

TypeMessage ==
    /\ phase = "running" /\ ~input
    /\ input' = TRUE
    /\ UNCHANGED <<srvVars, streamVars, phase, chatList, current, cursor, area, readyBtn,
                   resolveOff, net, clicks, selects, scrolls>>

-----------------------------------------------------------------------------
(* Mutants: plausible slips in the page handlers below.                   *)

(* The history answer stores the whole result instead of result.next.    *)
GotHistoryWholeResult(r) ==
    /\ cursor' = r.data
    /\ area' = [k \in DOMAIN r.data.page |-> Elem(SX!Reverse(r.data.page)[k])] \o area
    /\ UNCHANGED <<chatList, current, input, readyBtn, resolveOff>>

-----------------------------------------------------------------------------
(* Page                                                                   *)

Init ==
    /\ chatState = [c \in Chats |-> IF c \in InitOpen THEN "open" ELSE "free"]
    /\ inPool = FALSE
    /\ srvMsgs = InitHistory
    /\ published = DOMAIN InitHistory
    /\ stream = "none" /\ inbox = <<>>
    /\ phase = "init"
    /\ chatList = <<>> /\ current = NoChat /\ cursor = NoCursor /\ area = <<>>
    /\ input = FALSE
    /\ readyBtn = [disabled |-> TRUE, waiting |-> FALSE, label |-> "ready"]
    /\ resolveOff = TRUE
    /\ net = EmptyBag
    /\ clicks = 0 /\ selects = 0 /\ scrolls = 0

(* OpenChatOnClick on chat c: return if c is already selected; otherwise  *)
(* select it, empty the area, GetLastChatMessages with the cursor as it   *)
(* stands, and enable the resolve button.  `bag` is net as the calling    *)
(* callback leaves it.                                                    *)
OpenChat(c, bag) ==
    IF current = c
      THEN net' = bag /\ UNCHANGED <<current, area, resolveOff>>
      ELSE /\ current' = c
           /\ area' = <<>>
           /\ net' = bag (+) SetToBag({Request("history", c, cursor)})
           /\ resolveOff' = FALSE

(* keycloak.init: GetOpenProblems, GetReadyToProblemsAv, InitListeners;   *)
(* or only an alert.                                                      *)
Run ==
    /\ phase = "init"
    /\ \/ /\ phase' = "running"
          /\ net' = SetToBag({Request("chats", NoChat, NoCursor),
                              Request("avail", NoChat, NoCursor)})
       \/ /\ phase' = "failed"
          /\ UNCHANGED net
    /\ UNCHANGED <<srvVars, streamVars, chatList, current, cursor, area, input, readyBtn,
                   resolveOff, clicks, selects, scrolls>>

SelectChat ==
    /\ phase = "running" /\ selects < MaxSelects
    /\ selects' = selects + 1
    /\ \E i \in DOMAIN chatList : OpenChat(chatList[i], net)
    /\ UNCHANGED <<srvVars, streamVars, phase, chatList, cursor, input, readyBtn,
                   clicks, scrolls>>

(* The buttons react only without the disabled class (pointer-events).    *)
ClickReady ==
    /\ phase = "running" /\ clicks < MaxClicks /\ ~readyBtn.disabled
    /\ clicks' = clicks + 1
    /\ net' = net (+) SetToBag({Request("freeHands", NoChat, NoCursor)})
    /\ UNCHANGED <<srvVars, streamVars, phase, chatList, current, cursor, area, input,
                   readyBtn, resolveOff, selects, scrolls>>

(* SendMessageOnBtnClick: alert without a selected chat, return on empty  *)
(* text, otherwise sendMessage(currentChatID, text).                      *)
ClickSend ==
    /\ phase = "running" /\ clicks < MaxClicks
    /\ clicks' = clicks + 1
    /\ \/ current = NoChat /\ UNCHANGED net
       \/ current # NoChat /\ input /\ net' = net (+) SetToBag({Request("send", current, NoCursor)})
    /\ UNCHANGED <<srvVars, streamVars, phase, chatList, current, cursor, area, input,
                   readyBtn, resolveOff, selects, scrolls>>

(* ResolveProblemOnBtnClick: alert without a selected chat, otherwise     *)
(* problemResolved(currentChatID).                                        *)
ClickResolve ==
    /\ phase = "running" /\ clicks < MaxClicks /\ ~resolveOff
    /\ clicks' = clicks + 1
    /\ \/ current = NoChat /\ UNCHANGED net
       \/ current # NoChat /\ net' = net (+) SetToBag({Request("resolve", current, NoCursor)})
    /\ UNCHANGED <<srvVars, streamVars, phase, chatList, current, cursor, area, input,
                   readyBtn, resolveOff, selects, scrolls>>

(* GetChatHistoryOnScroll: at the top of a scrollable area, alert without *)
(* a cursor, otherwise getChatHistory(currentChatID, cursor); overlapping *)
(* fetches are not prevented.                                             *)
ScrollToTop ==
    /\ phase = "running" /\ scrolls < MaxScrolls /\ area # <<>>
    /\ scrolls' = scrolls + 1
    /\ \/ cursor = NoCursor /\ UNCHANGED net
       \/ cursor # NoCursor /\ net' = net (+) SetToBag({Request("history", current, cursor)})
    /\ UNCHANGED <<srvVars, streamVars, phase, chatList, current, cursor, area, input,
                   readyBtn, resolveOff, clicks, selects>>

(* GetOpenProblems .then: DisplayNewChat for each chat, then trigger a    *)
(* click on the first one.                                                *)
GotChats(r, bag) ==
    /\ chatList' = chatList \o r.data.chats
    /\ IF r.data.chats # <<>> THEN OpenChat(r.data.chats[1], bag)
       ELSE net' = bag /\ UNCHANGED <<current, area, resolveOff>>
    /\ UNCHANGED <<cursor, input, readyBtn>>

(* GetLastChatMessages and the scroll handler: store result.next and      *)
(* prepend each message (newest first) into the area, whichever chat is   *)
(* selected by now.                                                       *)
GotHistory(r) ==
    /\ cursor' = r.data.next
    /\ area' = [k \in DOMAIN r.data.page |-> Elem(SX!Reverse(r.data.page)[k])] \o area
    /\ UNCHANGED <<chatList, current, input, readyBtn, resolveOff>>

(* SendMessageOnBtnClick .then: clear the input, DisplayNewMessage.       *)
GotSent(r) ==
    /\ input' = FALSE
    /\ area' = Append(area, Elem(r.data.page[1]))
    /\ UNCHANGED <<chatList, current, cursor, readyBtn, resolveOff>>

(* GetReadyToProblemsAv .then: remove the disabled class if available,   *)
(* whatever state the button is in by now.                                *)
GotAvail(r) ==
    /\ readyBtn' = IF r.data.available THEN [readyBtn EXCEPT !.disabled = FALSE]
                   ELSE readyBtn
    /\ UNCHANGED <<chatList, current, cursor, area, input, resolveOff>>

(* ReadyToProblemsOnBtnClick .then: add 'disabled waiting', relabel.      *)
GotFreeHands ==
    /\ readyBtn' = [disabled |-> TRUE, waiting |-> TRUE, label |-> "waiting"]
    /\ UNCHANGED <<chatList, current, cursor, area, input, resolveOff>>

(* ResolveProblemOnBtnClick .then: empty the chat area, nothing else.     *)
GotResolved ==
    /\ area' = <<>>
    /\ UNCHANGED <<chatList, current, cursor, input, readyBtn, resolveOff>>

(* A resolved fetch promise: .catch only alerts; .then by request kind.   *)
HandleResponse ==
    /\ \E r \in BagToSet(net) :
         LET bag == net (-) SetToBag({r}) IN
         /\ r.state # "inflight"
         /\ \/ r.state = "failed"
               /\ net' = bag /\ UNCHANGED <<chatList, current, cursor, area, input, readyBtn, resolveOff>>
            \/ r.state = "ok" /\ r.kind = "chats" /\ GotChats(r, bag)
            \/ r.state = "ok" /\ r.kind = "avail" /\ net' = bag /\ GotAvail(r)
            \/ r.state = "ok" /\ r.kind = "freeHands" /\ net' = bag /\ GotFreeHands
            \/ r.state = "ok" /\ r.kind = "history" /\ net' = bag /\ GotHistory(r)
            \/ r.state = "ok" /\ r.kind = "send" /\ net' = bag /\ GotSent(r)
            \/ r.state = "ok" /\ r.kind = "resolve" /\ net' = bag /\ GotResolved
    /\ UNCHANGED <<srvVars, streamVars, phase, clicks, selects, scrolls>>

(* eventHandlers.NewChatEvent: its duplicate check looks for an element   *)
(* with data-message-id equal to the chat id; then DisplayNewChat, click  *)
(* it if it is the only chat, relabel the button 'Ready to Problems' and  *)
(* set disabled from canTakeMoreProblems (the waiting class is kept).     *)
OnNewChat(e) ==
    IF \E i \in DOMAIN area : area[i].id = e.chat
      THEN net' = net /\ UNCHANGED <<chatList, current, area, readyBtn, resolveOff>>
      ELSE /\ chatList' = Append(chatList, e.chat)
           /\ IF chatList = <<>> THEN OpenChat(e.chat, net)
              ELSE net' = net /\ UNCHANGED <<current, area, resolveOff>>
           /\ readyBtn' = [readyBtn EXCEPT !.label = "ready", !.disabled = ~e.canTake]

(* eventHandlers.NewMessageEvent: skip a shown message and other chats.   *)
OnNewMessage(e) ==
    /\ area' = IF (\E i \in DOMAIN area : area[i].id = e.msg) \/ current # e.chat THEN area
               ELSE Append(area, Elem(e.msg))
    /\ UNCHANGED <<chatList, current, readyBtn>>

(* eventHandlers.ChatClosedEvent: deselect and empty the area if it is    *)
(* the selected chat, remove its list elements, and unless the button is  *)
(* waiting set disabled from canTakeMoreProblems.                         *)
OnChatClosed(e) ==
    /\ chatList' = SelectSeq(chatList, LAMBDA c : c # e.chat)
    /\ IF current = e.chat THEN current' = NoChat /\ area' = <<>>
       ELSE UNCHANGED <<current, area>>
    /\ readyBtn' = IF readyBtn.waiting THEN readyBtn
                   ELSE [readyBtn EXCEPT !.disabled = ~e.canTake]

HandleFrame ==
    /\ inbox # <<>>
    /\ inbox' = Tail(inbox)
    /\ LET e == Head(inbox) IN
         CASE e.type = "NewChatEvent"    -> OnNewChat(e)
           [] e.type = "NewMessageEvent" -> OnNewMessage(e) /\ net' = net /\ UNCHANGED resolveOff
           [] e.type = "ChatClosedEvent" -> OnChatClosed(e) /\ net' = net /\ UNCHANGED resolveOff
    /\ UNCHANGED <<srvVars, stream, phase, cursor, input, clicks, selects, scrolls>>

Halted ==
    /\ phase = "failed"
    /\ UNCHANGED vars

Next ==
    \/ Run \/ SelectChat \/ ClickReady \/ ClickSend \/ ClickResolve \/ ScrollToTop
    \/ HandleResponse \/ HandleFrame \/ TypeMessage
    \/ Serve \/ StartStream \/ StreamOpen \/ StreamError \/ StreamRetry \/ StreamClosed
    \/ \E c \in Chats : AssignChat(c) \/ ClientWrites(c)
    \/ \E i \in Positions : PublishNewMessage(i)
    \/ Halted

Spec == Init /\ [][Next]_vars

-----------------------------------------------------------------------------
(* Properties                                                             *)

TypeOK ==
    /\ chatState \in [Chats -> {"free", "open", "closed"}]
    /\ srvMsgs \in Seq(Chats) /\ Len(srvMsgs) <= MaxMsgs
    /\ published \subseteq Positions
    /\ stream \in {"none", "connecting", "open", "retrying", "closed"}
    /\ phase \in {"init", "running", "failed"}
    /\ chatList \in Seq(Chats)
    /\ current \in Chats \cup {NoChat}
    /\ cursor \in Cursors
    /\ \A k \in DOMAIN area : area[k].id \in DOMAIN srvMsgs
    /\ readyBtn \in [disabled : BOOLEAN, waiting : BOOLEAN, label : {"ready", "waiting"}]

(* Spec 4.3 / 8: the chat area shows only messages of the selected chat.  *)
AreaShowsSelectedChat ==
    \A k \in DOMAIN area : area[k].chat = current

(* Spec 3 / 4.3: a cursor is scoped to its chat, and switching chats       *)
(* discards it, so a history request never carries another chat's cursor. *)
CursorOfOwnChat ==
    \A r \in BagToSet(net) :
        r.kind = "history" /\ r.cursor # NoCursor => r.cursor.chat = r.chat

(* Spec 2 / 4.2: a conversation is created once, by the initial listing or *)
(* by NewChatEvent, so it is listed once.                                 *)
ChatListedOnce ==
    \A j, k \in DOMAIN chatList : j # k => chatList[j] # chatList[k]

(* Spec 4.3: the waiting state lasts until the next assignment and       *)
(* capacity signals are ignored meanwhile: while the button carries the   *)
(* waiting class it reads "waiting" and stays disabled.                   *)
WaitingUntilAssigned ==
    readyBtn.waiting => readyBtn.label = "waiting" /\ readyBtn.disabled

=============================================================================
