-------------------------- MODULE ViewerPageProofs --------------------------
(***************************************************************************)
(* Proofs about the viewer page, for every number of sockets and images:   *)
(* each safety property of ViewerPage, from one inductive invariant.       *)
(***************************************************************************)
EXTENDS ViewerPage, TLAPS

-----------------------------------------------------------------------------
(* The inductive invariant.                                                *)

\* A socket that was never OPEN has delivered nothing.
NothingBeforeOpen ==
  \A s \in Sockets : readyState[s] \in {"none", "CONNECTING"} =>
    images[s] = 0 /\ sizes # s

\* A flag that differs from the document, with no event due and no request
\* rejected, is what a request under way asks for.
RequestAgrees ==
  ~changed /\ ~rejected /\ isFullScreen # element =>
    asked[IF isFullScreen THEN "enter" ELSE "exit"] > 0

SocketInv == OneLiveSocket /\ DisconnectSticks /\ StatusTruthful
PictureInv == NothingBeforeOpen /\ PictureOfLiveSession /\ InputOverPicture
ScreenInv == RequestAgrees /\ FullScreenAgrees

IInv == TypeOK /\ SocketInv /\ PictureInv /\ ScreenInv

-----------------------------------------------------------------------------
(* The steps of the page.                                                  *)

Hosts == {"localhost", "ip"}

\* The 'close' event of a socket, whatever came before it.
Ended(s) == /\ readyState[s] \in {"CONNECTING", "CLOSING"}
            /\ \E error \in BOOLEAN : OnClose(s, error)

\* Every step is one of these; the button that began an attempt only makes a
\* difference to the dialog.
LEMMA StepForms ==
  ASSUME [Next]_vars
  PROVE  \/ \E h \in Hosts : ConnectWebSocket(h) /\ dialog' \in {dialog, FALSE}
         \/ ConnectThrows
         \/ NoSessionId /\ dialog' \in {dialog, FALSE}
         \/ ClickDisconnect \/ Toggle
         \/ \E s \in Sockets : \/ OnOpen(s) \/ OnFrame(s) \/ OnAgentStatus(s)
                               \/ OnBadMessage(s) \/ OnLoad(s) \/ BeginClose(s) \/ Ended(s)
         \/ \E r \in Requests : Answer(r)
         \/ Escape \/ FullScreenChange
         \/ UNCHANGED vars
  <1>1. ASSUME User PROVE \/ \E h \in Hosts : ConnectWebSocket(h) /\ dialog' \in {dialog, FALSE}
                          \/ ConnectThrows
                          \/ NoSessionId /\ dialog' \in {dialog, FALSE}
                          \/ ClickDisconnect \/ Toggle
    <2>1. CASE ClickConnect
      BY <2>1 DEF ClickConnect, Hosts
    <2>2. CASE ClickDialog
      BY <2>2 DEF ClickDialog, Hosts
    <2>3. QED
      BY <1>1, <2>1, <2>2 DEF User
  <1>2. ASSUME NEW s \in Sockets, Browser(s)
        PROVE  \/ OnOpen(s) \/ OnFrame(s) \/ OnAgentStatus(s)
               \/ OnBadMessage(s) \/ OnLoad(s) \/ BeginClose(s) \/ Ended(s)
    <2>1. CASE Fail(s)
      BY <2>1 DEF Fail, Ended
    <2>2. CASE Close(s)
      BY <2>2 DEF Close, Ended
    <2>3. QED
      BY <1>2, <2>1, <2>2 DEF Browser
  <1>3. QED
    BY <1>1, <1>2 DEF Next, Document

\* ws.close() leaves alone every socket but the one it is called for, which
\* is not OPEN afterwards.
LEMMA ClosedIfOpenForm ==
  ASSUME NEW states \in [Sockets -> {"none", "CONNECTING", "OPEN", "CLOSING", "CLOSED"}],
         NEW n \in 0 .. MaxSockets
  PROVE  /\ ClosedIfOpen(states, n) \in
              [Sockets -> {"none", "CONNECTING", "OPEN", "CLOSING", "CLOSED"}]
         /\ \A s \in Sockets : s # n => ClosedIfOpen(states, n)[s] = states[s]
         /\ n # 0 => /\ n \in Sockets
                     /\ ClosedIfOpen(states, n)[n] =
                          IF states[n] = "OPEN" THEN "CLOSING" ELSE states[n]
  BY PageAssumption DEF ClosedIfOpen, Sockets

\* The types, the flags apart.
Data ==
  /\ ws \in 0 .. MaxSockets
  /\ readyState \in [Sockets -> {"none", "CONNECTING", "OPEN", "CLOSING", "CLOSED"}]
  /\ \A s \in Sockets : readyState[s] = "none" <=> s > ws
  /\ host \in [Sockets -> {"localhost", "ip"}]
  /\ status \in {"none", "noId", "connecting", "connected", "agent", "noAgent",
                 "dataError", "disconnected"}
  /\ images \in [Sockets -> 0 .. MaxImages]
  /\ canvas \in 0 .. MaxSockets /\ sizes \in 0 .. MaxSockets
  /\ asked \in [Requests -> 0 .. MaxAsked]

Flags ==
  /\ overlay \in BOOLEAN /\ controls \in BOOLEAN /\ dialog \in BOOLEAN
  /\ element \in BOOLEAN /\ changed \in BOOLEAN /\ isFullScreen \in BOOLEAN
  /\ overlapped \in BOOLEAN /\ threw \in BOOLEAN /\ wanted \in BOOLEAN
  /\ ignored \in BOOLEAN /\ late \in BOOLEAN /\ rejected \in BOOLEAN

\* A socket's state once ws.close() was called on that of ws.
Shut(t) == IF t = ws /\ readyState[t] = "OPEN" THEN "CLOSING" ELSE readyState[t]

\* The states of the sockets after the handlers that close one.
LEMMA ShutForm ==
  ASSUME Data
  PROVE  /\ ClosedIfOpen(readyState, ws) \in
              [Sockets -> {"none", "CONNECTING", "OPEN", "CLOSING", "CLOSED"}]
         /\ \A t \in Sockets : ClosedIfOpen(readyState, ws)[t] = Shut(t)
  BY PageAssumption DEF Data, ClosedIfOpen, Sockets, Shut

LEMMA ConnectForm ==
  ASSUME Data, NEW h \in Hosts, ConnectWebSocket(h)
  PROVE  /\ ws' = ws + 1 /\ ws' \in Sockets
         /\ readyState' \in [Sockets -> {"none", "CONNECTING", "OPEN", "CLOSING", "CLOSED"}]
         /\ readyState[ws'] = "none"
         /\ \A t \in Sockets :
              readyState'[t] = IF t = ws' THEN "CONNECTING" ELSE Shut(t)
  <1>1. ws' = ws + 1 /\ ws' \in Sockets /\ readyState[ws'] = "none"
    BY PageAssumption DEF ConnectWebSocket, Created, Data, Sockets
  <1>2. readyState' = [ClosedIfOpen(readyState, ws) EXCEPT ![ws'] = "CONNECTING"]
    BY DEF ConnectWebSocket, Created, Replaced
  <1>3. QED
    BY <1>1, <1>2, ShutForm

LEMMA EndedForm ==
  ASSUME Data, NEW s \in Sockets, Ended(s)
  PROVE  /\ ws' = ws
         /\ readyState' \in [Sockets -> {"none", "CONNECTING", "OPEN", "CLOSING", "CLOSED"}]
         /\ \A t \in Sockets : readyState'[t] = IF t = s THEN "CLOSED" ELSE Shut(t)
  <1>1. /\ ws' = ws
        /\ readyState' = ClosedIfOpen(Closed(s), ws)
    BY DEF Ended, OnClose, CloseConnection
  <1>2. Closed(s) \in [Sockets -> {"none", "CONNECTING", "OPEN", "CLOSING", "CLOSED"}]
    BY DEF Closed, Data
  <1>3. \A t \in Sockets : Closed(s)[t] = IF t = s THEN "CLOSED" ELSE readyState[t]
    BY DEF Closed, Data
  <1>4. ws \in 0 .. MaxSockets
    BY DEF Data
  <1>5. QED
    BY <1>1, <1>2, <1>3, <1>4 DEF ClosedIfOpen, Shut, Sockets

\* The socket of ws is not OPEN after a handler that closes it.
LEMMA ShutIsNotOpen ==
  ASSUME Data, ws' = ws, NEW s \in Sockets \cup {0},
         \A t \in Sockets : readyState'[t] = IF t = s THEN "CLOSED" ELSE Shut(t)
  PROVE  State(ws)' # "OPEN"
  <1>1. ws \in Sockets \cup {0}
    BY PageAssumption DEF Data, Sockets
  <1>2. CASE ws = 0
    BY <1>2 DEF State
  <1>3. CASE ws \in Sockets
    BY <1>3 DEF State, Shut
  <1>4. QED
    BY <1>1, <1>2, <1>3

\* Every variable stays in its set, and sockets are created one after another.
LEMMA DataStep ==
  ASSUME TypeOK, [Next]_vars
  PROVE  Data'
  <1> USE PageAssumption
  <1>1. ASSUME NEW h \in Hosts, ConnectWebSocket(h), dialog' \in {dialog, FALSE} PROVE Data'
    <2>1. Data
      BY DEF TypeOK, Data
    <2>2. /\ host' = [host EXCEPT ![ws + 1] = h] /\ status' = "connecting"
          /\ UNCHANGED <<images, canvas, sizes, asked>>
      BY <1>1 DEF ConnectWebSocket, BeginConnect, screen
    <2>3. /\ ws' = ws + 1 /\ ws' \in Sockets
          /\ readyState' \in [Sockets -> {"none", "CONNECTING", "OPEN", "CLOSING", "CLOSED"}]
          /\ \A t \in Sockets : readyState'[t] = IF t = ws' THEN "CONNECTING" ELSE Shut(t)
      BY <1>1, <2>1, ConnectForm
    <2>4. ASSUME NEW t \in Sockets PROVE readyState'[t] = "none" <=> t > ws'
      <3>1. ws \in 0 .. MaxSockets /\ t \in 1 .. MaxSockets /\ (readyState[t] = "none" <=> t > ws)
        BY <2>1 DEF Data, Sockets
      <3>2. Shut(t) = "none" <=> readyState[t] = "none"
        BY DEF Shut
      <3>3. readyState'[t] = "none" <=> t # ws' /\ readyState[t] = "none"
        BY <2>3, <3>2
      <3>4. QED
        BY <2>3, <3>1, <3>3
    <2>5. QED
      BY <1>1, <2>1, <2>2, <2>3, <2>4 DEF Data, Hosts, Sockets
  <1>2. CASE ConnectThrows
    BY <1>2, ClosedIfOpenForm
       DEF ConnectThrows, BeginConnect, Replaced, sockets, page, picture, screen, acts, vars, TypeOK, Data, Sockets, Live, State
  <1>3. CASE NoSessionId /\ dialog' \in {dialog, FALSE}
    BY <1>3, ClosedIfOpenForm
       DEF NoSessionId, sockets, page, picture, screen, acts, vars, TypeOK, Data, Sockets, Live, State
  <1>4. CASE ClickDisconnect
    BY <1>4, ClosedIfOpenForm
       DEF ClickDisconnect, CloseConnection, Blanked, sockets, page, picture, screen, acts, vars, TypeOK, Data, Sockets, Live, State
  <1>5. CASE Toggle
    BY <1>5, ClosedIfOpenForm
       DEF Toggle, Requests, sockets, page, picture, screen, acts, vars, TypeOK, Data, Sockets, Live, State
  <1>6. ASSUME NEW s \in Sockets, OnOpen(s) PROVE Data'
    BY <1>6, ClosedIfOpenForm
       DEF OnOpen, OverlayAfterOpen, sockets, page, picture, screen, acts, vars, TypeOK, Data, Sockets, Live, State
  <1>7. ASSUME NEW s \in Sockets, OnFrame(s) PROVE Data'
    BY <1>7, ClosedIfOpenForm
       DEF OnFrame, sockets, page, picture, screen, acts, vars, TypeOK, Data, Sockets, Live, State
  <1>8. ASSUME NEW s \in Sockets, OnAgentStatus(s) PROVE Data'
    BY <1>8, ClosedIfOpenForm
       DEF OnAgentStatus, sockets, page, picture, screen, acts, vars, TypeOK, Data, Sockets, Live, State
  <1>9. ASSUME NEW s \in Sockets, OnLoad(s) PROVE Data'
    BY <1>9, ClosedIfOpenForm
       DEF OnLoad, sockets, page, picture, screen, acts, vars, TypeOK, Data, Sockets, Live, State
  <1>10. ASSUME NEW s \in Sockets, BeginClose(s) PROVE Data'
    BY <1>10, ClosedIfOpenForm
       DEF BeginClose, sockets, page, picture, screen, acts, vars, TypeOK, Data, Sockets, Live, State
  <1>11. ASSUME NEW s \in Sockets, Ended(s) PROVE Data'
    <2>1. /\ status' = "disconnected" /\ canvas' = 0
          /\ UNCHANGED <<ws, host, images, sizes, asked>>
      BY <1>11 DEF Ended, OnClose, CloseConnection, Blanked, screen
    <2>2. \A t \in Sockets : readyState'[t] = "none" <=> readyState[t] = "none"
      BY <1>11, EndedForm DEF Shut, Ended, TypeOK, Data
    <2>3. QED
      BY <1>11, <2>1, <2>2, EndedForm DEF Data, TypeOK, Sockets
  <1>12. ASSUME NEW r \in Requests, Answer(r) PROVE Data'
    BY <1>12, ClosedIfOpenForm
       DEF Answer, Grant, Reject, Requests, sockets, page, picture, screen, acts, vars, TypeOK, Data, Sockets, Live, State
  <1>13. CASE Escape
    BY <1>13, ClosedIfOpenForm
       DEF Escape, sockets, page, picture, screen, acts, vars, TypeOK, Data, Sockets, Live, State
  <1>14. CASE FullScreenChange
    BY <1>14, ClosedIfOpenForm
       DEF FullScreenChange, FlagOfElement, sockets, page, picture, screen, acts, vars, TypeOK, Data, Sockets, Live, State
  <1>15. CASE UNCHANGED vars
    BY <1>15, ClosedIfOpenForm
       DEF vars, sockets, page, picture, screen, acts, vars, TypeOK, Data, Sockets, Live, State
  <1>16. ASSUME NEW s \in Sockets, OnBadMessage(s) PROVE Data'
    BY <1>16, ClosedIfOpenForm
       DEF OnBadMessage, sockets, page, picture, screen, acts, vars, TypeOK, Data, Sockets, Live, State
  <1>17. QED
    BY <1>1, <1>2, <1>3, <1>4, <1>5, <1>6, <1>7, <1>8, <1>9, <1>10, <1>11, <1>12, <1>13, <1>14, <1>15, <1>16, StepForms

\* Its flags stay Boolean.
LEMMA FlagStep ==
  ASSUME Flags, [Next]_vars
  PROVE  Flags'
  <1>1. ASSUME NEW h \in Hosts, ConnectWebSocket(h), dialog' \in {dialog, FALSE} PROVE Flags'
    BY <1>1, ZenonT(60)
       DEF ConnectWebSocket, BeginConnect, Created, Replaced, Hosts, sockets, page, picture, screen, acts, Flags
  <1>2. CASE ConnectThrows
    BY <1>2, ZenonT(60)
       DEF ConnectThrows, BeginConnect, Replaced, sockets, page, picture, screen, acts, Flags
  <1>3. CASE NoSessionId /\ dialog' \in {dialog, FALSE}
    BY <1>3, ZenonT(60)
       DEF NoSessionId, sockets, page, picture, screen, acts, Flags
  <1>4. CASE ClickDisconnect
    BY <1>4, ZenonT(60)
       DEF ClickDisconnect, CloseConnection, Blanked, sockets, page, picture, screen, acts, Flags
  <1>5. CASE Toggle
    BY <1>5, ZenonT(60)
       DEF Toggle, Requests, sockets, page, picture, screen, acts, Flags
  <1>6. ASSUME NEW s \in Sockets, OnOpen(s) PROVE Flags'
    BY <1>6, ZenonT(60)
       DEF OnOpen, OverlayAfterOpen, sockets, page, picture, screen, acts, Flags
  <1>7. ASSUME NEW s \in Sockets, OnFrame(s) PROVE Flags'
    BY <1>7, ZenonT(60)
       DEF OnFrame, sockets, page, picture, screen, acts, Flags
  <1>8. ASSUME NEW s \in Sockets, OnAgentStatus(s) PROVE Flags'
    BY <1>8, ZenonT(60)
       DEF OnAgentStatus, sockets, page, picture, screen, acts, Flags
  <1>9. ASSUME NEW s \in Sockets, OnLoad(s) PROVE Flags'
    BY <1>9, ZenonT(60)
       DEF OnLoad, sockets, page, picture, screen, acts, Flags
  <1>10. ASSUME NEW s \in Sockets, BeginClose(s) PROVE Flags'
    BY <1>10, ZenonT(60)
       DEF BeginClose, sockets, page, picture, screen, acts, Flags
  <1>11. ASSUME NEW s \in Sockets, Ended(s) PROVE Flags'
    BY <1>11, ZenonT(60)
       DEF Ended, OnClose, CloseConnection, Closed, Blanked, sockets, page, picture, screen, acts, Flags
  <1>12. ASSUME NEW r \in Requests, Answer(r) PROVE Flags'
    BY <1>12, ZenonT(60)
       DEF Answer, Grant, Reject, Requests, sockets, page, picture, screen, acts, Flags
  <1>13. CASE Escape
    BY <1>13, ZenonT(60)
       DEF Escape, sockets, page, picture, screen, acts, Flags
  <1>14. CASE FullScreenChange
    BY <1>14, ZenonT(60)
       DEF FullScreenChange, FlagOfElement, sockets, page, picture, screen, acts, Flags
  <1>15. CASE UNCHANGED vars
    BY <1>15, ZenonT(60)
       DEF vars, Flags
  <1>16. ASSUME NEW s \in Sockets, OnBadMessage(s) PROVE Flags'
    BY <1>16, ZenonT(60)
       DEF OnBadMessage, sockets, page, picture, screen, acts, Flags
  <1>17. QED
    BY <1>1, <1>2, <1>3, <1>4, <1>5, <1>6, <1>7, <1>8, <1>9, <1>10, <1>11, <1>12, <1>13, <1>14, <1>15, <1>16, StepForms

LEMMA TypeStep == TypeOK /\ [Next]_vars => TypeOK'
  <1>1. ASSUME TypeOK, [Next]_vars PROVE TypeOK'
    <2>1. Flags
      BY <1>1 DEF TypeOK, Flags
    <2>2. Data' /\ Flags'
      BY <1>1, <2>1, DataStep, FlagStep
    <2>3. QED
      BY <2>2 DEF TypeOK, Data, Flags
  <1>2. QED
    BY <1>1

\* Sockets, controls and status.
LEMMA SocketStep ==
  ASSUME TypeOK, SocketInv, [Next]_vars
  PROVE  SocketInv'
  <1> USE PageAssumption
  <1>1. ASSUME NEW h \in Hosts, ConnectWebSocket(h), dialog' \in {dialog, FALSE} PROVE SocketInv'
    <2>1. Data
      BY DEF TypeOK, Data
    <2>2. State(ws)' = "CONNECTING"
      BY <1>1, <2>1, ConnectForm DEF State, Sockets
    <2>3. overlapped' <=> overlapped \/ \E s \in Sockets : readyState[s] = "CONNECTING"
      BY <1>1, Zenon DEF ConnectWebSocket
    <2>4. wanted' = TRUE /\ status' = "connecting" /\ controls' = controls
      BY <1>1 DEF ConnectWebSocket, BeginConnect
    <2>5. OneLiveSocket'
      <3>1. SUFFICES ASSUME ~overlapped', NEW s \in 1 .. ws' - 1
                     PROVE  readyState'[s] \in {"CLOSING", "CLOSED"}
        BY DEF OneLiveSocket
      <3>2. s \in Sockets /\ s <= ws /\ s # ws'
        BY <1>1, <2>1, <3>1, ConnectForm, PageAssumption DEF Data, Sockets
      <3>3. readyState[s] \in {"OPEN", "CLOSING", "CLOSED"}
        BY <2>3, <3>1, <3>2, <2>1 DEF Data
      <3>4. s # ws => readyState[s] \in {"CLOSING", "CLOSED"}
        BY <2>1, <2>3, <3>1, <3>2 DEF SocketInv, OneLiveSocket, Data, Sockets
      <3>5. QED
        BY <1>1, <2>1, <3>2, <3>3, <3>4, ConnectForm DEF Shut
    <2>6. DisconnectSticks'
      BY <2>4 DEF DisconnectSticks
    <2>7. \A s \in Sockets : Live(s) => Live(s)'
      BY <1>1, <2>1, ConnectForm DEF Live, Shut
    <2>8. StatusTruthful'
      BY <2>2, <2>4, <2>7 DEF SocketInv, StatusTruthful
    <2>9. QED
      BY <2>5, <2>6, <2>8 DEF SocketInv
  <1>2. CASE ConnectThrows
    BY <1>2, ClosedIfOpenForm, SMTT(30)
       DEF ConnectThrows, BeginConnect, Replaced, sockets, page, picture, screen, acts, vars, TypeOK, Sockets, Live, State, SocketInv, OneLiveSocket, DisconnectSticks, StatusTruthful
  <1>3. CASE NoSessionId /\ dialog' \in {dialog, FALSE}
    BY <1>3, ClosedIfOpenForm
       DEF NoSessionId, sockets, page, picture, screen, acts, vars, TypeOK, Sockets, Live, State, SocketInv, OneLiveSocket, DisconnectSticks, StatusTruthful
  <1>4. CASE ClickDisconnect
    <2>1. Data
      BY DEF TypeOK, Data
    <2>2. /\ ws' = ws /\ readyState' = ClosedIfOpen(readyState, ws)
          /\ controls' = FALSE /\ status' = "disconnected"
          /\ overlapped' = overlapped
      BY <1>4 DEF ClickDisconnect, CloseConnection
    <2>3. ignored' <=> ignored \/ State(ws) = "CONNECTING"
      BY <1>4, Zenon DEF ClickDisconnect
    <2>4. \A t \in Sockets : readyState'[t] = Shut(t)
      BY <2>1, <2>2, ShutForm
    <2>5. OneLiveSocket'
      BY <2>1, <2>2, <2>4 DEF SocketInv, OneLiveSocket, Shut, Data, Sockets
    <2>6. State(ws)' # "OPEN"
      BY <2>1, <2>2, <2>4 DEF State, Shut, Data, Sockets
    <2>7. DisconnectSticks'
      <3>1. SUFFICES ASSUME ~overlapped', ~ignored', NEW s \in Sockets
                     PROVE  readyState'[s] \in {"none", "CLOSING", "CLOSED"}
        BY DEF DisconnectSticks
      <3>2. CASE s < ws
        BY <2>1, <2>2, <2>4, <3>1, <3>2 DEF SocketInv, OneLiveSocket, Shut, Data, Sockets
      <3>3. CASE s = ws
        BY <2>1, <2>3, <2>4, <3>1, <3>3 DEF State, Shut, Data, Sockets
      <3>4. CASE s > ws
        BY <2>1, <2>4, <3>1, <3>4 DEF Shut, Data, Sockets
      <3>5. QED
        BY <2>1, <3>2, <3>3, <3>4 DEF Data, Sockets
    <2>8. StatusTruthful'
      BY <2>2, <2>6 DEF StatusTruthful
    <2>9. QED
      BY <2>5, <2>7, <2>8 DEF SocketInv
  <1>5. CASE Toggle
    BY <1>5, ClosedIfOpenForm
       DEF Toggle, Requests, sockets, page, picture, screen, acts, vars, TypeOK, Sockets, Live, State, SocketInv, OneLiveSocket, DisconnectSticks, StatusTruthful
  <1>6. ASSUME NEW s \in Sockets, OnOpen(s) PROVE SocketInv'
    <2>1. /\ readyState[s] = "CONNECTING" /\ readyState' = [readyState EXCEPT ![s] = "OPEN"]
          /\ status' = "connected" /\ controls' = TRUE
          /\ UNCHANGED <<ws, overlapped, wanted, ignored>>
      BY <1>6 DEF OnOpen, acts
    <2>2. readyState'[s] = "OPEN" /\ \A t \in Sockets : t # s => readyState'[t] = readyState[t]
      BY <2>1 DEF TypeOK
    <2>3. OneLiveSocket'
      <3>1. \A t \in 1 .. ws - 1 : t \in Sockets
        BY DEF TypeOK, Sockets
      <3>2. QED
        BY <2>1, <2>2, <3>1 DEF SocketInv, OneLiveSocket
    <2>4. DisconnectSticks'
      BY <2>1, <2>2 DEF SocketInv, DisconnectSticks
    <2>5. StatusTruthful'
      BY <2>1, <2>2 DEF StatusTruthful, Live
    <2>6. QED
      BY <2>3, <2>4, <2>5 DEF SocketInv
  <1>7. ASSUME NEW s \in Sockets, OnFrame(s) PROVE SocketInv'
    BY <1>7, ClosedIfOpenForm
       DEF OnFrame, sockets, page, picture, screen, acts, vars, TypeOK, Sockets, Live, State, SocketInv, OneLiveSocket, DisconnectSticks, StatusTruthful
  <1>8. ASSUME NEW s \in Sockets, OnAgentStatus(s) PROVE SocketInv'
    BY <1>8, ClosedIfOpenForm
       DEF OnAgentStatus, sockets, page, picture, screen, acts, vars, TypeOK, Sockets, Live, State, SocketInv, OneLiveSocket, DisconnectSticks, StatusTruthful
  <1>9. ASSUME NEW s \in Sockets, OnLoad(s) PROVE SocketInv'
    BY <1>9, ClosedIfOpenForm
       DEF OnLoad, sockets, page, picture, screen, acts, vars, TypeOK, Sockets, Live, State, SocketInv, OneLiveSocket, DisconnectSticks, StatusTruthful
  <1>10. ASSUME NEW s \in Sockets, BeginClose(s) PROVE SocketInv'
    BY <1>10, ClosedIfOpenForm
       DEF BeginClose, sockets, page, picture, screen, acts, vars, TypeOK, Sockets, Live, State, SocketInv, OneLiveSocket, DisconnectSticks, StatusTruthful
  <1>11. ASSUME NEW s \in Sockets, Ended(s) PROVE SocketInv'
    <2>1. Data
      BY DEF TypeOK, Data
    <2>2. /\ ws' = ws /\ controls' = FALSE /\ status' = "disconnected"
          /\ overlapped' = overlapped /\ wanted' = wanted /\ ignored' = ignored
      BY <1>11 DEF Ended, OnClose, CloseConnection, acts
    <2>3. \A t \in Sockets : readyState'[t] = IF t = s THEN "CLOSED" ELSE Shut(t)
      BY <1>11, <2>1, EndedForm
    <2>4. OneLiveSocket'
      BY <2>1, <2>2, <2>3 DEF SocketInv, OneLiveSocket, Shut, Data, Sockets
    <2>5. State(ws)' # "OPEN"
      BY <2>1, <2>2, <2>3, ShutIsNotOpen DEF Sockets
    <2>6. DisconnectSticks'
      BY <2>2, <2>3 DEF SocketInv, DisconnectSticks, Shut
    <2>7. QED
      BY <2>2, <2>4, <2>5, <2>6 DEF SocketInv, StatusTruthful
  <1>12. ASSUME NEW r \in Requests, Answer(r) PROVE SocketInv'
    BY <1>12, ClosedIfOpenForm
       DEF Answer, Grant, Reject, Requests, sockets, page, picture, screen, acts, vars, TypeOK, Sockets, Live, State, SocketInv, OneLiveSocket, DisconnectSticks, StatusTruthful
  <1>13. CASE Escape
    BY <1>13, ClosedIfOpenForm
       DEF Escape, sockets, page, picture, screen, acts, vars, TypeOK, Sockets, Live, State, SocketInv, OneLiveSocket, DisconnectSticks, StatusTruthful
  <1>14. CASE FullScreenChange
    BY <1>14, ClosedIfOpenForm
       DEF FullScreenChange, FlagOfElement, sockets, page, picture, screen, acts, vars, TypeOK, Sockets, Live, State, SocketInv, OneLiveSocket, DisconnectSticks, StatusTruthful
  <1>15. CASE UNCHANGED vars
    BY <1>15, ClosedIfOpenForm
       DEF vars, sockets, page, picture, screen, acts, vars, TypeOK, Sockets, Live, State, SocketInv, OneLiveSocket, DisconnectSticks, StatusTruthful
  <1>16. ASSUME NEW s \in Sockets, OnBadMessage(s) PROVE SocketInv'
    BY <1>16, ClosedIfOpenForm
       DEF OnBadMessage, sockets, page, picture, screen, acts, vars, TypeOK, Sockets, Live, State, SocketInv, OneLiveSocket, DisconnectSticks, StatusTruthful
  <1>17. QED
    BY <1>1, <1>2, <1>3, <1>4, <1>5, <1>6, <1>7, <1>8, <1>9, <1>10, <1>11, <1>12, <1>13, <1>14, <1>15, <1>16, StepForms

\* Canvas, sizes and images.
LEMMA PictureStep ==
  ASSUME TypeOK, PictureInv, [Next]_vars
  PROVE  PictureInv'
  <1> USE PageAssumption
  <1>1. ASSUME NEW h \in Hosts, ConnectWebSocket(h), dialog' \in {dialog, FALSE} PROVE PictureInv'
    <2>1. Data
      BY DEF TypeOK, Data
    <2>2. State(ws)' = "CONNECTING"
      BY <1>1, <2>1, ConnectForm DEF State, Sockets
    <2>3. UNCHANGED <<images, sizes, canvas, late>>
      BY <1>1 DEF ConnectWebSocket, BeginConnect
    <2>4. NothingBeforeOpen'
      BY <1>1, <2>1, <2>3, ConnectForm DEF PictureInv, NothingBeforeOpen, Shut
    <2>5. \A s \in Sockets : Live(s) => Live(s)'
      BY <1>1, <2>1, ConnectForm DEF Live, Shut
    <2>6. QED
      BY <2>2, <2>3, <2>4, <2>5 DEF PictureInv, PictureOfLiveSession, InputOverPicture
  <1>2. CASE ConnectThrows
    <2>1. Data
      BY DEF TypeOK, Data
    <2>2. UNCHANGED <<ws, images, sizes, canvas, late>> /\ readyState' = ClosedIfOpen(readyState, ws)
      BY <1>2 DEF ConnectThrows, BeginConnect, Replaced
    <2>3. \A t \in Sockets : readyState'[t] = Shut(t)
      BY <2>1, <2>2, ShutForm
    <2>4. State(ws)' # "OPEN"
      BY <2>1, <2>2, <2>3, ShutIsNotOpen DEF Sockets
    <2>5. NothingBeforeOpen'
      BY <2>2, <2>3 DEF PictureInv, NothingBeforeOpen, Shut
    <2>6. \A s \in Sockets : Live(s) => Live(s)'
      BY <2>3 DEF Live, Shut
    <2>7. QED
      BY <2>2, <2>4, <2>5, <2>6 DEF PictureInv, PictureOfLiveSession, InputOverPicture
  <1>3. CASE NoSessionId /\ dialog' \in {dialog, FALSE}
    BY <1>3, ClosedIfOpenForm
       DEF NoSessionId, sockets, page, picture, screen, acts, vars, TypeOK, Sockets, Live, State, PictureInv, NothingBeforeOpen, PictureOfLiveSession, InputOverPicture
  <1>4. CASE ClickDisconnect
    <2>1. Data
      BY DEF TypeOK, Data
    <2>2. /\ UNCHANGED <<ws, images, sizes, late>> /\ canvas' = 0
          /\ readyState' = ClosedIfOpen(readyState, ws)
      BY <1>4 DEF ClickDisconnect, CloseConnection, Blanked
    <2>3. \A t \in Sockets : readyState'[t] = Shut(t)
      BY <2>1, <2>2, ShutForm
    <2>4. State(ws)' # "OPEN"
      BY <2>1, <2>2, <2>3, ShutIsNotOpen DEF Sockets
    <2>5. NothingBeforeOpen'
      BY <2>2, <2>3 DEF PictureInv, NothingBeforeOpen, Shut
    <2>6. QED
      BY <2>2, <2>4, <2>5 DEF PictureInv, PictureOfLiveSession, InputOverPicture
  <1>5. CASE Toggle
    BY <1>5, ClosedIfOpenForm
       DEF Toggle, Requests, sockets, page, picture, screen, acts, vars, TypeOK, Sockets, Live, State, PictureInv, NothingBeforeOpen, PictureOfLiveSession, InputOverPicture
  <1>6. ASSUME NEW s \in Sockets, OnOpen(s) PROVE PictureInv'
    BY <1>6, ClosedIfOpenForm
       DEF OnOpen, OverlayAfterOpen, sockets, page, picture, screen, acts, vars, TypeOK, Sockets, Live, State, PictureInv, NothingBeforeOpen, PictureOfLiveSession, InputOverPicture
  <1>7. ASSUME NEW s \in Sockets, OnFrame(s) PROVE PictureInv'
    BY <1>7, ClosedIfOpenForm
       DEF OnFrame, sockets, page, picture, screen, acts, vars, TypeOK, Sockets, Live, State, PictureInv, NothingBeforeOpen, PictureOfLiveSession, InputOverPicture
  <1>8. ASSUME NEW s \in Sockets, OnAgentStatus(s) PROVE PictureInv'
    BY <1>8, ClosedIfOpenForm
       DEF OnAgentStatus, sockets, page, picture, screen, acts, vars, TypeOK, Sockets, Live, State, PictureInv, NothingBeforeOpen, PictureOfLiveSession, InputOverPicture
  <1>9. ASSUME NEW s \in Sockets, OnLoad(s) PROVE PictureInv'
    <2>1. Data /\ images[s] > 0 /\ images[s] \in 0 .. MaxImages
      BY <1>9 DEF TypeOK, Data, OnLoad
    <2>2. /\ UNCHANGED <<ws, readyState>>
          /\ images' = [images EXCEPT ![s] = @ - 1] /\ canvas' = s /\ sizes' = s
      BY <1>9 DEF OnLoad, sockets
    <2>3. late' <=> late \/ readyState[s] = "CLOSED"
      BY <1>9, Zenon DEF OnLoad
    <2>4. readyState[s] \in {"OPEN", "CLOSING", "CLOSED"}
      BY <2>1 DEF PictureInv, NothingBeforeOpen, Data
    <2>5. NothingBeforeOpen'
      BY <2>1, <2>2, <2>4 DEF PictureInv, NothingBeforeOpen, Data
    <2>6. PictureOfLiveSession'
      BY <2>2, <2>3, <2>4 DEF PictureOfLiveSession, Live
    <2>7. InputOverPicture'
      BY <2>2 DEF InputOverPicture, Sockets
    <2>8. QED
      BY <2>5, <2>6, <2>7 DEF PictureInv
  <1>10. ASSUME NEW s \in Sockets, BeginClose(s) PROVE PictureInv'
    BY <1>10, ClosedIfOpenForm
       DEF BeginClose, sockets, page, picture, screen, acts, vars, TypeOK, Sockets, Live, State, PictureInv, NothingBeforeOpen, PictureOfLiveSession, InputOverPicture
  <1>11. ASSUME NEW s \in Sockets, Ended(s) PROVE PictureInv'
    <2>1. Data
      BY DEF TypeOK, Data
    <2>2. UNCHANGED <<ws, images, sizes, late>> /\ canvas' = 0
      BY <1>11 DEF Ended, OnClose, CloseConnection, Blanked
    <2>3. \A t \in Sockets : readyState'[t] = IF t = s THEN "CLOSED" ELSE Shut(t)
      BY <1>11, <2>1, EndedForm
    <2>4. State(ws)' # "OPEN"
      BY <2>1, <2>2, <2>3, ShutIsNotOpen DEF Sockets
    <2>5. NothingBeforeOpen'
      BY <2>2, <2>3 DEF PictureInv, NothingBeforeOpen, Shut
    <2>6. QED
      BY <2>2, <2>4, <2>5 DEF PictureInv, PictureOfLiveSession, InputOverPicture
  <1>12. ASSUME NEW r \in Requests, Answer(r) PROVE PictureInv'
    BY <1>12, ClosedIfOpenForm
       DEF Answer, Grant, Reject, Requests, sockets, page, picture, screen, acts, vars, TypeOK, Sockets, Live, State, PictureInv, NothingBeforeOpen, PictureOfLiveSession, InputOverPicture
  <1>13. CASE Escape
    BY <1>13, ClosedIfOpenForm
       DEF Escape, sockets, page, picture, screen, acts, vars, TypeOK, Sockets, Live, State, PictureInv, NothingBeforeOpen, PictureOfLiveSession, InputOverPicture
  <1>14. CASE FullScreenChange
    BY <1>14, ClosedIfOpenForm
       DEF FullScreenChange, FlagOfElement, sockets, page, picture, screen, acts, vars, TypeOK, Sockets, Live, State, PictureInv, NothingBeforeOpen, PictureOfLiveSession, InputOverPicture
  <1>15. CASE UNCHANGED vars
    BY <1>15, ClosedIfOpenForm
       DEF vars, sockets, page, picture, screen, acts, vars, TypeOK, Sockets, Live, State, PictureInv, NothingBeforeOpen, PictureOfLiveSession, InputOverPicture
  <1>16. ASSUME NEW s \in Sockets, OnBadMessage(s) PROVE PictureInv'
    BY <1>16, ClosedIfOpenForm
       DEF OnBadMessage, sockets, page, picture, screen, acts, vars, TypeOK, Sockets, Live, State, PictureInv, NothingBeforeOpen, PictureOfLiveSession, InputOverPicture
  <1>17. QED
    BY <1>1, <1>2, <1>3, <1>4, <1>5, <1>6, <1>7, <1>8, <1>9, <1>10, <1>11, <1>12, <1>13, <1>14, <1>15, <1>16, StepForms

\* The property is what the invariant says when no request is under way.
LEMMA AgreesWhenSettled == RequestAgrees' => FullScreenAgrees'
  <1>1. (IF isFullScreen' THEN "enter" ELSE "exit") \in Requests
    BY DEF Requests
  <1>2. QED
    BY <1>1 DEF RequestAgrees, FullScreenAgrees

\* Full screen mode.
LEMMA ScreenStep ==
  ASSUME TypeOK, ScreenInv, [Next]_vars
  PROVE  ScreenInv'
  <1> USE PageAssumption
  <1>1. ASSUME NEW h \in Hosts, ConnectWebSocket(h), dialog' \in {dialog, FALSE} PROVE ScreenInv'
    BY <1>1
       DEF ConnectWebSocket, BeginConnect, Created, Replaced, Hosts, sockets, page, picture, screen, acts, vars, TypeOK, ScreenInv, RequestAgrees, FullScreenAgrees
  <1>2. CASE ConnectThrows
    BY <1>2
       DEF ConnectThrows, BeginConnect, Replaced, sockets, page, picture, screen, acts, vars, TypeOK, ScreenInv, RequestAgrees, FullScreenAgrees
  <1>3. CASE NoSessionId /\ dialog' \in {dialog, FALSE}
    BY <1>3
       DEF NoSessionId, sockets, page, picture, screen, acts, vars, TypeOK, ScreenInv, RequestAgrees, FullScreenAgrees
  <1>4. CASE ClickDisconnect
    BY <1>4
       DEF ClickDisconnect, CloseConnection, Blanked, sockets, page, picture, screen, acts, vars, TypeOK, ScreenInv, RequestAgrees, FullScreenAgrees
  <1>5. CASE Toggle
    <2>1. PICK request \in Requests :
            /\ request = IF element THEN "exit" ELSE "enter"
            /\ asked' = [asked EXCEPT ![request] = @ + 1]
            /\ isFullScreen' = ~element /\ UNCHANGED <<element, changed>>
      BY <1>5, Zenon DEF Toggle, Requests
    <2>2. asked'[request] > 0
      BY <2>1 DEF TypeOK
    <2>3. element \in BOOLEAN
      BY DEF TypeOK
    <2>4. request = IF isFullScreen' THEN "enter" ELSE "exit"
      BY <2>1, <2>3
    <2>5. QED
      BY <2>1, <2>2, <2>4, AgreesWhenSettled DEF ScreenInv, RequestAgrees
  <1>6. ASSUME NEW s \in Sockets, OnOpen(s) PROVE ScreenInv'
    BY <1>6
       DEF OnOpen, OverlayAfterOpen, sockets, page, picture, screen, acts, vars, TypeOK, ScreenInv, RequestAgrees, FullScreenAgrees
  <1>7. ASSUME NEW s \in Sockets, OnFrame(s) PROVE ScreenInv'
    BY <1>7
       DEF OnFrame, sockets, page, picture, screen, acts, vars, TypeOK, ScreenInv, RequestAgrees, FullScreenAgrees
  <1>8. ASSUME NEW s \in Sockets, OnAgentStatus(s) PROVE ScreenInv'
    BY <1>8
       DEF OnAgentStatus, sockets, page, picture, screen, acts, vars, TypeOK, ScreenInv, RequestAgrees, FullScreenAgrees
  <1>9. ASSUME NEW s \in Sockets, OnLoad(s) PROVE ScreenInv'
    BY <1>9
       DEF OnLoad, sockets, page, picture, screen, acts, vars, TypeOK, ScreenInv, RequestAgrees, FullScreenAgrees
  <1>10. ASSUME NEW s \in Sockets, BeginClose(s) PROVE ScreenInv'
    BY <1>10
       DEF BeginClose, sockets, page, picture, screen, acts, vars, TypeOK, ScreenInv, RequestAgrees, FullScreenAgrees
  <1>11. ASSUME NEW s \in Sockets, Ended(s) PROVE ScreenInv'
    BY <1>11
       DEF Ended, OnClose, CloseConnection, Closed, Blanked, sockets, page, picture, screen, acts, vars, TypeOK, ScreenInv, RequestAgrees, FullScreenAgrees
  <1>12. ASSUME NEW r \in Requests, Answer(r) PROVE ScreenInv'
    <2>1. asked[r] > 0 /\ asked' = [asked EXCEPT ![r] = @ - 1] /\ isFullScreen' = isFullScreen
      BY <1>12 DEF Answer
    <2>2. element \in BOOLEAN /\ changed \in BOOLEAN /\ isFullScreen \in BOOLEAN
      BY DEF TypeOK
    <2>3. RequestAgrees'
      <3>1. CASE Reject(r)
        BY <3>1 DEF Reject, RequestAgrees
      <3>2. CASE Grant(r)
        <4> DEFINE request == IF isFullScreen THEN "enter" ELSE "exit"
        <4>1. SUFFICES ASSUME ~changed', ~rejected', isFullScreen # element'
                       PROVE  asked'[request] > 0
          BY <2>1 DEF RequestAgrees
        <4>2. ~changed /\ element' = element /\ rejected' = rejected /\ element' = (r = "enter")
          BY <3>2, <4>1, Zenon DEF Grant
        <4>3. asked[request] > 0
          BY <4>1, <4>2 DEF ScreenInv, RequestAgrees
        <4>4. request \in Requests /\ request # r
          BY <2>2, <4>1, <4>2 DEF Requests
        <4>5. QED
          BY <2>1, <4>3, <4>4 DEF TypeOK
      <3>3. QED
        BY <1>12, <3>1, <3>2 DEF Answer
    <2>4. QED
      BY <2>3, AgreesWhenSettled DEF ScreenInv
  <1>13. CASE Escape
    BY <1>13
       DEF Escape, sockets, page, picture, screen, acts, vars, TypeOK, ScreenInv, RequestAgrees, FullScreenAgrees
  <1>14. CASE FullScreenChange
    BY <1>14
       DEF FullScreenChange, FlagOfElement, sockets, page, picture, screen, acts, vars, TypeOK, ScreenInv, RequestAgrees, FullScreenAgrees
  <1>15. CASE UNCHANGED vars
    BY <1>15
       DEF vars, sockets, page, picture, screen, acts, vars, TypeOK, ScreenInv, RequestAgrees, FullScreenAgrees
  <1>16. ASSUME NEW s \in Sockets, OnBadMessage(s) PROVE ScreenInv'
    BY <1>16
       DEF OnBadMessage, sockets, page, picture, screen, acts, vars, TypeOK, ScreenInv, RequestAgrees, FullScreenAgrees
  <1>17. QED
    BY <1>1, <1>2, <1>3, <1>4, <1>5, <1>6, <1>7, <1>8, <1>9, <1>10, <1>11, <1>12, <1>13, <1>14, <1>15, <1>16, StepForms

-----------------------------------------------------------------------------
\* The page as it is loaded satisfies the invariant.
LEMMA Initially == Init => IInv
  <1> SUFFICES ASSUME Init PROVE IInv
    OBVIOUS
  <1>1. Data
    BY PageAssumption DEF Init, Data, Sockets, Requests
  <1>2. Flags
    BY Zenon DEF Init, Flags
  <1>3. SocketInv
    BY PageAssumption DEF Init, SocketInv, OneLiveSocket, DisconnectSticks, StatusTruthful,
       State, Sockets
  <1>4. PictureInv
    BY PageAssumption DEF Init, PictureInv, NothingBeforeOpen, PictureOfLiveSession,
       InputOverPicture, State, Sockets
  <1>5. ScreenInv
    BY DEF Requests, Init, ScreenInv, RequestAgrees, FullScreenAgrees
  <1>6. QED
    BY <1>1, <1>2, <1>3, <1>4, <1>5 DEF IInv, TypeOK, Data, Flags

LEMMA Invariance == Spec => []IInv
  <1>1. IInv /\ [Next]_vars => IInv'
    BY TypeStep, SocketStep, PictureStep, ScreenStep DEF IInv
  <1>2. QED
    BY <1>1, Initially, PTL DEF Spec

\* Every variable of the page stays in its set (script.js).
THEOREM PageTypeCorrect == Spec => []TypeOK
  <1>1. IInv => TypeOK
    BY DEF IInv
  <1> QED
    BY <1>1, Invariance, PTL

\* Controls and status agree with the sockets, whatever callbacks of old sockets
\* come late (script.js:127-199, 286-312).
THEOREM StatusIsTruthful == Spec => []StatusTruthful
  <1>1. IInv => StatusTruthful
    BY DEF IInv, SocketInv, PictureInv, ScreenInv
  <1> QED
    BY <1>1, Invariance, PTL

\* Without overlapping attempts only the socket of ws can be open (script.js:113).
THEOREM OldSocketsEnd == Spec => []OneLiveSocket
  <1>1. IInv => OneLiveSocket
    BY DEF IInv, SocketInv, PictureInv, ScreenInv
  <1> QED
    BY <1>1, Invariance, PTL

\* After Disconnect nothing comes to be open, the two exceptions aside
\* (script.js:113, 287).
THEOREM DisconnectLasts == Spec => []DisconnectSticks
  <1>1. IInv => DisconnectSticks
    BY DEF IInv, SocketInv, PictureInv, ScreenInv
  <1> QED
    BY <1>1, Invariance, PTL

\* No picture outlives the sessions, unless it was decoded late (script.js:146, 298).
THEOREM PictureIsLive == Spec => []PictureOfLiveSession
  <1>1. IInv => PictureOfLiveSession
    BY DEF IInv, SocketInv, PictureInv, ScreenInv
  <1> QED
    BY <1>1, Invariance, PTL

\* The sizes that scale input are never of the open socket while the canvas is
\* blank (script.js:153, 203, 299).
THEOREM InputNeedsPicture == Spec => []InputOverPicture
  <1>1. IInv => InputOverPicture
    BY DEF IInv, SocketInv, PictureInv, ScreenInv
  <1> QED
    BY <1>1, Invariance, PTL

\* The flag agrees with the document once requests and events are settled and
\* none was rejected (script.js:257-283, 384-387).
THEOREM FlagFollowsElement == Spec => []FullScreenAgrees
  <1>1. IInv => FullScreenAgrees
    BY DEF IInv, SocketInv, PictureInv, ScreenInv
  <1> QED
    BY <1>1, Invariance, PTL

=============================================================================
