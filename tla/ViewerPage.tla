----------------------------- MODULE ViewerPage -----------------------------
(***************************************************************************)
(* The connection state of the viewer page, Remote-Share/Web/script.js:    *)
(* the sockets it ever created, of which only the last is reachable        *)
(* through the variable ws, the callbacks each of them goes on firing, the *)
(* parts of the page those callbacks set, images that are still decoding,  *)
(* and full screen mode.                                                   *)
(*                                                                         *)
(* A handler of the page runs to its end: one action each.  A browser      *)
(* fires 'error' and the 'close' after it in one task.  Input and the      *)
(* coordinates it carries are in InputPath.                                *)
(***************************************************************************)
EXTENDS Naturals

CONSTANTS
  MaxSockets,  \* bound: sockets created
  MaxImages,   \* bound: images decoding at once, per socket
  MaxAsked     \* bound: full screen requests under way

ASSUME PageAssumption ==
  MaxSockets \in Nat \ {0} /\ MaxImages \in Nat /\ MaxAsked \in Nat

VARIABLES
  ws,          \* the number of the socket ws refers to; 0 is null
  readyState,  \* of every socket; "none" before it is created
  host,        \* serverIp of every socket
  overlay,     \* loadingOverlay is visible
  controls,    \* controlButtons, Disconnect among them, are visible
  status,      \* what updateStatus wrote last
  dialog,      \* the IP dialog is visible
  images,      \* frames of every socket that wait for img.onload
  canvas,      \* the socket whose frame the canvas shows; 0: a text
  sizes,       \* the socket whose frame set originalWidth; 0: still zero
  element,     \* document.fullscreenElement is set
  asked,       \* full screen requests of a kind that the browser has not answered
  changed,     \* a fullscreenchange event is due
  isFullScreen, \* isFullScreen, and with it the text of the button
  overlapped,  \* history: connected while a socket was CONNECTING
  threw,       \* history: the WebSocket constructor threw
  wanted,      \* history: the user connected and did not disconnect since
  ignored,     \* history: disconnected while ws was CONNECTING
  late,        \* history: a frame was decoded after its socket had closed
  rejected     \* history: a request was rejected and the flag not set since

sockets == <<ws, readyState, host>>
page    == <<overlay, controls, status, dialog>>
picture == <<images, canvas, sizes>>
screen  == <<element, asked, changed, isFullScreen, rejected>>
acts    == <<overlapped, threw, wanted, ignored>>
vars    == <<ws, readyState, host, overlay, controls, status, dialog, images,
             canvas, sizes, element, asked, changed, isFullScreen, overlapped,
             threw, wanted, ignored, late, rejected>>

Sockets == 1 .. MaxSockets
Requests == {"enter", "exit"}

TypeOK ==
  /\ ws \in 0 .. MaxSockets
  /\ readyState \in [Sockets -> {"none", "CONNECTING", "OPEN", "CLOSING", "CLOSED"}]
  /\ \A s \in Sockets : readyState[s] = "none" <=> s > ws
  /\ host \in [Sockets -> {"localhost", "ip"}]
  /\ overlay \in BOOLEAN /\ controls \in BOOLEAN /\ dialog \in BOOLEAN
  /\ status \in {"none", "noId", "connecting", "connected", "agent", "noAgent",
                 "dataError", "disconnected"}
  /\ images \in [Sockets -> 0 .. MaxImages]
  /\ canvas \in 0 .. MaxSockets /\ sizes \in 0 .. MaxSockets
  /\ element \in BOOLEAN /\ changed \in BOOLEAN /\ isFullScreen \in BOOLEAN
  /\ asked \in [Requests -> 0 .. MaxAsked]
  /\ overlapped \in BOOLEAN /\ threw \in BOOLEAN /\ wanted \in BOOLEAN
  /\ ignored \in BOOLEAN /\ late \in BOOLEAN /\ rejected \in BOOLEAN

Init ==
  /\ ws = 0
  /\ readyState = [s \in Sockets |-> "none"]
  /\ host = [s \in Sockets |-> "localhost"]
  /\ overlay = FALSE /\ controls = FALSE /\ status = "none" /\ dialog = FALSE
  /\ images = [s \in Sockets |-> 0] /\ canvas = 0 /\ sizes = 0
  /\ element = FALSE /\ asked = [r \in Requests |-> 0]
  /\ changed = FALSE /\ isFullScreen = FALSE
  /\ overlapped = FALSE /\ threw = FALSE /\ wanted = FALSE /\ ignored = FALSE
  /\ late = FALSE /\ rejected = FALSE

-----------------------------------------------------------------------------
(* The handlers.  State(s) is the readyState of a socket, if there is one. *)

State(s) == IF s = 0 THEN "none" ELSE readyState[s]

\* ws.close(), which the page calls on an OPEN socket only.
LeftOpen(states, s) == states  \* Faulty: the socket is not closed.
ClosedIfOpen(states, s) ==
  IF s # 0 /\ states[s] = "OPEN" THEN [states EXCEPT ![s] = "CLOSING"] ELSE states

\* The first half of connectWebSocket: the session id is there, the socket of
\* ws is told to close if it is OPEN, and the page says that it connects.
NotReplaced == readyState  \* Faulty: the old socket is left as it is.
Replaced == ClosedIfOpen(readyState, ws)
BeginConnect ==
  /\ overlay' = TRUE
  /\ status' = "connecting"
  /\ wanted' = TRUE
  /\ UNCHANGED <<controls, images, canvas, sizes, screen, ignored, late>>

\* connectWebSocket: new WebSocket(wsUrl) succeeds.
Shadowed == ws  \* Faulty: "const ws =" declares another variable.
Created == ws + 1
ConnectWebSocket(h) ==
  /\ ws < MaxSockets
  /\ BeginConnect
  /\ ws' = Created
  /\ readyState' = [Replaced EXCEPT ![ws + 1] = "CONNECTING"]
  /\ host' = [host EXCEPT ![ws + 1] = h]
  /\ overlapped' = (overlapped \/ \E s \in Sockets : readyState[s] = "CONNECTING")
  /\ UNCHANGED threw

\* connectWebSocket: an address or a session id that makes no URL throws.
ConnectThrows ==
  /\ BeginConnect
  /\ readyState' = Replaced
  /\ threw' = TRUE
  /\ UNCHANGED <<ws, host, dialog, overlapped>>

NoSessionId ==
  /\ status' = "noId"
  /\ UNCHANGED <<sockets, overlay, controls, picture, screen, acts, late>>

\* The Connect button and the Enter key, and the button of the IP dialog,
\* which hides the dialog once connectWebSocket has returned.
ClickConnect == \/ ConnectWebSocket("localhost") /\ UNCHANGED dialog
                \/ NoSessionId /\ UNCHANGED dialog
                \/ ConnectThrows
ClickDialog == dialog /\ \/ ConnectWebSocket("ip") /\ dialog' = FALSE
                         \/ NoSessionId /\ dialog' = FALSE
                         \/ ConnectThrows

\* closeConnection, on the readyStates a caller has already brought about.
NotBlanked == canvas  \* Faulty: the last frame stays.
Blanked == 0
CloseConnection(states) ==
  /\ readyState' = ClosedIfOpen(states, ws)
  /\ controls' = FALSE
  /\ overlay' = FALSE
  /\ status' = "disconnected"
  /\ canvas' = Blanked

\* The Disconnect button is one of the controls.
ClickDisconnect ==
  /\ controls
  /\ CloseConnection(readyState)
  /\ wanted' = FALSE
  /\ ignored' = (ignored \/ State(ws) = "CONNECTING")
  /\ UNCHANGED <<ws, host, dialog, images, sizes, screen, overlapped, threw, late>>

\* onopen of socket s; viewer_ready, which follows, is sent on the socket of
\* ws and throws while that is CONNECTING, which changes nothing more.
OverlayKept == overlay  \* Faulty: onopen does not hide it.
OverlayAfterOpen == FALSE
OnOpen(s) ==
  /\ readyState[s] = "CONNECTING"
  /\ readyState' = [readyState EXCEPT ![s] = "OPEN"]
  /\ status' = "connected"
  /\ overlay' = OverlayAfterOpen
  /\ controls' = TRUE
  /\ UNCHANGED <<ws, host, dialog, picture, screen, acts, late>>

\* onmessage: a frame begins to decode.
OnFrame(s) ==
  /\ readyState[s] = "OPEN" /\ images[s] < MaxImages
  /\ images' = [images EXCEPT ![s] = @ + 1]
  /\ UNCHANGED <<sockets, page, canvas, sizes, screen, acts, late>>

\* onmessage: agent_status.
OnAgentStatus(s) ==
  /\ readyState[s] = "OPEN"
  /\ status' \in {"agent", "noAgent"}
  /\ UNCHANGED <<sockets, overlay, controls, dialog, picture, screen, acts, late>>

\* onmessage: what cannot be parsed or handled is caught.  The server of this
\* repository relays JSON objects only: it takes another server or peer.
OnBadMessage(s) ==
  /\ readyState[s] = "OPEN"
  /\ status' = "dataError"
  /\ UNCHANGED <<sockets, overlay, controls, dialog, picture, screen, acts, late>>

\* img.onload, in any order and whatever has become of the socket.
OnLoad(s) ==
  /\ images[s] > 0
  /\ images' = [images EXCEPT ![s] = @ - 1]
  /\ canvas' = s
  /\ sizes' = s
  /\ late' = (late \/ readyState[s] = "CLOSED")
  /\ UNCHANGED <<sockets, page, screen, acts>>

\* The peer, or the network, begins to close.
BeginClose(s) ==
  /\ readyState[s] = "OPEN"
  /\ readyState' = [readyState EXCEPT ![s] = "CLOSING"]
  /\ UNCHANGED <<ws, host, page, picture, screen, acts, late>>

\* onerror, if there was one, and then onclose, whichever socket it is of.
\* The status onerror wrote is overwritten before anybody can see it.
Closed(s) == [readyState EXCEPT ![s] = "CLOSED"]
OnClose(s, error) ==
  /\ CloseConnection(Closed(s))
  /\ dialog' = (dialog \/ (error /\ host[s] = "localhost"))
  /\ UNCHANGED <<ws, host, images, sizes, screen, acts, late>>
Fail(s)  == readyState[s] = "CONNECTING" /\ OnClose(s, TRUE)
Close(s) == readyState[s] = "CLOSING" /\ \E error \in BOOLEAN : OnClose(s, error)

\* toggleFullScreen, by the button or F11: it asks the document, not the flag,
\* and does not wait for the requests before.
Toggle ==
  LET request == IF element THEN "exit" ELSE "enter" IN
  /\ asked["enter"] + asked["exit"] < MaxAsked
  /\ asked' = [asked EXCEPT ![request] = @ + 1]
  /\ isFullScreen' = ~element
  /\ rejected' = FALSE
  /\ UNCHANGED <<sockets, page, picture, acts, late, element, changed>>

\* The browser answers a request, or leaves full screen mode on Escape; the
\* event comes with the next animation frame.
Grant(r) ==
  /\ element' = (r = "enter")
  /\ changed' = (changed \/ element' # element)
  /\ UNCHANGED rejected
Reject(r) ==
  /\ r = "enter" /\ rejected' = TRUE
  /\ UNCHANGED <<element, changed>>
Answer(r) ==
  /\ asked[r] > 0
  /\ asked' = [asked EXCEPT ![r] = @ - 1]
  /\ Grant(r) \/ Reject(r)
  /\ UNCHANGED <<sockets, page, picture, acts, late, isFullScreen>>
Escape ==
  /\ element /\ element' = FALSE /\ changed' = TRUE
  /\ UNCHANGED <<sockets, page, picture, acts, late, asked, isFullScreen, rejected>>

\* The 'fullscreenchange' listener.
FlagInverted == ~isFullScreen  \* Faulty: it toggles instead of looking.
FlagOfElement == element
FullScreenChange ==
  /\ changed /\ changed' = FALSE
  /\ isFullScreen' = FlagOfElement
  /\ rejected' = FALSE
  /\ UNCHANGED <<sockets, page, picture, acts, late, element, asked>>

User == ClickConnect \/ ClickDialog \/ ClickDisconnect \/ Toggle
Browser(s) == OnOpen(s) \/ OnFrame(s) \/ OnAgentStatus(s) \/ OnBadMessage(s)
              \/ OnLoad(s) \/ BeginClose(s) \/ Fail(s) \/ Close(s)
Document == (\E r \in Requests : Answer(r)) \/ Escape \/ FullScreenChange
Next == User \/ Document \/ \E s \in Sockets : Browser(s)

\* A connection attempt ends, with its time-out at the latest, and so does a
\* closing handshake.
Fairness == \A s \in Sockets : WF_vars(OnOpen(s) \/ Fail(s)) /\ WF_vars(Close(s))

Spec == Init /\ [][Next]_vars
FairSpec == Spec /\ Fairness
-----------------------------------------------------------------------------
(* Properties.                                                             *)

Live(s) == readyState[s] \in {"OPEN", "CLOSING"}

\* What the page shows agrees with its sockets, whatever callbacks of old ones
\* come late: the controls and a status that only an open socket gives mean
\* that some socket has not closed, and a user whose socket is OPEN sees the
\* controls and such a status, or that the session id is missing (the handlers
\* of lines 127-199, the catch of line 178 among them, and closeConnection).
StatusTruthful ==
  LET ofOpen == {"connected", "agent", "noAgent", "dataError"} IN
  /\ controls \/ status \in ofOpen => \E s \in Sockets : Live(s)
  /\ State(ws) = "OPEN" => controls /\ status \in ofOpen \cup {"noId"}

\* A socket that ws no longer refers to is closing or closed, unless the user
\* connected while a socket was CONNECTING: line 113 closes an OPEN one only,
\* and nothing closes the other any more.
OneLiveSocket ==
  ~overlapped => \A s \in 1 .. ws - 1 : readyState[s] \in {"CLOSING", "CLOSED"}

\* After Disconnect nothing is or comes to be open until the user connects
\* again, unless there was such an overlap or ws was CONNECTING when the user
\* disconnected: closeConnection does not touch it (line 287).
DisconnectSticks ==
  ~wanted /\ ~overlapped /\ ~ignored =>
    \A s \in Sockets : readyState[s] \in {"none", "CLOSING", "CLOSED"}

\* The canvas shows a remote screen only while some socket has not closed,
\* unless a frame was decoded after its socket had closed (line 146).
PictureOfLiveSession ==
  canvas # 0 /\ ~late => \E s \in Sockets : Live(s)

\* sendInput, which asks for an OPEN socket and for sizes (line 203), lets
\* input pass without a picture only with sizes left by an earlier socket.
InputOverPicture ==
  State(ws) = "OPEN" /\ canvas = 0 => sizes # ws

\* Once the browser has answered and its events are handled, the flag and the
\* button agree with the document, in whatever order requests, answers, Escape
\* and events came, unless a request was rejected (lines 257-283, 384-387).
FullScreenAgrees ==
  (\A r \in Requests : asked[r] = 0) /\ ~changed /\ ~rejected => isFullScreen = element

\* The loading overlay does not stay: each connection attempt that was begun
\* ends in a handler that hides it, unless the constructor threw before one
\* was (lines 117-124).
OverlayEnds == overlay ~> (~overlay \/ threw)
=============================================================================
