----------------------------- MODULE RemoteShare -----------------------------
(***************************************************************************)
(* One agent process, the server and its viewers: AgentClient and          *)
(* ShareServer joined by the agent's connections.  A connection carries    *)
(* messages in order and loses none while it lasts; it may break at any    *)
(* time, and each end learns of that on its own: a handshake that reached  *)
(* the server's machine is read when the server comes to it, also when the *)
(* attempt has failed at the agent, or its process is over, by then.       *)
(*                                                                         *)
(* The agent asks for the URI of main.cpp:71, "ws://" + host + ":8080",    *)
(* that has no path and no sessionId unless the user types them as part of *)
(* the host: `request' is the session that is asked for, None if it is the *)
(* URI as built.                                                           *)
(***************************************************************************)
EXTENDS Integers, Sequences, FiniteSets

CONSTANTS
  AgentConn,    \* the connections of the agent's attempts
  Viewer,       \* the connections of the viewers
  SessionId, Screen, Undefined, Window, None,
  Request,      \* what the agent may ask for, a subset of SessionId and None
  MaxPolls, MaxDelay, MaxMs,
  MaxInFlight   \* bound on the messages in each direction

ASSUME RemoteAssumption ==
  /\ IsFiniteSet(AgentConn) /\ IsFiniteSet(Viewer)
  /\ None \notin AgentConn \cup Viewer \cup SessionId \cup Screen \cup Window \cup {Undefined}
  /\ Undefined \notin Screen
  /\ Request \subseteq SessionId \cup {None}
  /\ MaxPolls \in Nat /\ MaxDelay \in Nat \ {0} /\ MaxMs \in Nat

Conn == AgentConn \cup Viewer
ClientScreen == {}

VARIABLES pc, reading, polls, hwnd, io, sock, m_connected, attempts, stopped,
          announced, framed
VARIABLES ws, role, sid, obj, viewerId, sessions, agent, viewers, agentScreen,
          clientScreen, stats, now, status, scale, relay, errored, superseded
VARIABLES
  request,   \* the session in the agent's URI, or None
  requested, \* history: the attempts whose handshake reached the server's machine
  link,      \* the connection of the current attempt; None if it reaches nobody
  toServer,  \* messages under way from the agent
  toAgent    \* the number of messages under way to the agent

A == INSTANCE AgentClient
S == INSTANCE ShareServer

agentVars == <<pc, reading, polls, hwnd, io, sock, m_connected, attempts, stopped,
               announced, framed>>
serverVars == <<ws, role, sid, obj, viewerId, sessions, agent, viewers, agentScreen,
                clientScreen, stats, now, status, scale, relay, errored, superseded>>
wires == <<request, requested, link, toServer, toAgent>>
vars == <<agentVars, serverVars, wires>>

Init ==
  /\ A!Init
  /\ S!Init
  /\ request \in Request
  /\ requested = {}
  /\ link = None
  /\ toServer = << >>
  /\ toAgent = 0

-----------------------------------------------------------------------------
(* The agent.                                                              *)

\* connect() begins an attempt: nothing is left of the one before, and its
\* handshake reaches the server or nobody.  Connections, like viewers, are
\* interchangeable: the next to be used is always the same.
First(C) == CHOOSE c \in C : TRUE
NewAttempt ==
  /\ A!Connect \/ A!Reconnect
  /\ toServer' = << >> /\ toAgent' = 0
  /\ \/ link' = None /\ UNCHANGED requested
     \/ \E c \in AgentConn \ requested :
          /\ c = First(AgentConn \ requested)
          /\ link' = c
          /\ requested' = requested \cup {c}
  /\ UNCHANGED <<serverVars, request>>

\* A message is transmitted if the connection is open, and dropped otherwise.
Transmit(m) ==
  /\ \/ /\ sock = "open" /\ Len(toServer) < MaxInFlight
        /\ toServer' = Append(toServer, m)
     \/ sock # "open" /\ UNCHANGED toServer
  /\ UNCHANGED <<serverVars, request, requested, link, toAgent>>
PutInfo == A!PutInfo /\ Transmit("screen_info")
PutFrame == A!PutFrame /\ Transmit("frame")

\* What the threads do among themselves, and the user.
Internal ==
  /\ \/ A!ConnectThrows \/ A!LoadConnected \/ A!TestExpired \/ A!Wait
     \/ A!Capture \/ A!Idle \/ A!Close \/ A!Stop \/ A!Join
     \/ A!OpenStoreHandle \/ A!OpenStoreConnected \/ A!BackoffOver
     \/ A!ReconnectThrows \/ A!RunOutOfWork \/ A!RunStopped \/ A!Exit
  /\ UNCHANGED <<serverVars, wires>>
SelectWindow == A!SelectWindow /\ UNCHANGED <<serverVars, wires>>

\* The server's answer to the handshake arrives, or none does; the end of the
\* connection is seen; its 'close' handler runs.
HandshakeAnswered ==
  /\ link # None /\ ws[link] # "idle"
  /\ A!OnOpen /\ UNCHANGED <<serverVars, wires>>
AttemptFails == A!OnFail /\ UNCHANGED <<serverVars, wires>>
AgentSeesEnd == (A!BeginClose \/ A!OnClose) /\ UNCHANGED <<serverVars, wires>>

\* Which message of a viewer it is shows when it is read.
AgentReceives ==
  /\ toAgent > 0
  /\ A!ToggleFullscreen \/ A!CloseConnection
  /\ toAgent' = toAgent - 1
  /\ UNCHANGED <<serverVars, request, requested, link, toServer>>

-----------------------------------------------------------------------------
(* The server.                                                             *)

\* The server reads the handshake of an attempt, of the current one or of an
\* earlier one: it answers it, and then may close at once.
ServerAccepts(c) ==
  /\ c \in requested
  /\ \/ request = None /\ S!ConnectWithoutSession(c)
     \/ request # None /\ (S!RefuseAgent(c, request) \/ S!AcceptAgent(c, request))
  /\ UNCHANGED <<agentVars, wires>>

\* A connection that is refused or closing has no handler for what it sends.
ServerReceives ==
  /\ toServer # << >>
  /\ \/ Head(toServer) = "screen_info" /\ \E scr \in Screen : S!AgentScreenInfo(link, scr)
     \/ Head(toServer) = "frame" /\ S!AgentFrame(link)
     \/ ~S!Open(link) /\ UNCHANGED serverVars
  /\ toServer' = Tail(toServer)
  /\ UNCHANGED <<agentVars, request, requested, link, toAgent>>

\* The connection breaks, or is closed by the agent or with its process.
ServerSeesEnd(c) ==
  /\ S!BeginClose(c)
  /\ toServer' = IF c = link THEN << >> ELSE toServer
  /\ UNCHANGED <<agentVars, request, requested, link, toAgent>>
Over(c) == \/ c # link
           \/ toServer = << >> /\ (sock \in {"closing", "gone"} \/ A!Ended)

CloseEvent(c) == S!CloseEvent(c) /\ UNCHANGED <<agentVars, wires>>

-----------------------------------------------------------------------------
(* The viewers.  The server passes on whatever they send; what main.cpp    *)
(* waits for is "toggle_fullscreen" and "close_connection".  (The page in  *)
(* Web/ sends neither, and no client_info.)  A viewer that came stays, and *)
(* what it sends while the agent's connection is not served reaches nobody *)
(* and is left out: both are in the runs of ShareServer.  It makes no      *)
(* difference to the agent which viewer it is that sends.                  *)

ViewerSends(v) ==
  /\ v = First(Viewer)
  /\ S!ViewerInput(v)
  /\ link \in relay'.to /\ toAgent < MaxInFlight
  /\ toAgent' = toAgent + 1
  /\ UNCHANGED <<agentVars, request, requested, link, toServer>>

ViewerComes(v) ==
  /\ ws[v] = "idle" /\ v = First({w \in Viewer : ws[w] = "idle"})
  /\ \E s \in SessionId : S!AcceptViewer(v, s)
  /\ UNCHANGED <<agentVars, wires>>

\* Time passes: it only tells a viewer that came from one yet to come.
Tick ==
  /\ \E v, w \in Viewer : viewerId[v] = now /\ ws[w] = "idle"
  /\ S!Tick
  /\ UNCHANGED <<agentVars, wires>>

-----------------------------------------------------------------------------
AgentStep == NewAttempt \/ PutInfo \/ PutFrame \/ Internal

Next ==
  \/ AgentStep \/ SelectWindow
  \/ HandshakeAnswered \/ AttemptFails \/ AgentSeesEnd \/ AgentReceives
  \/ ServerReceives
  \/ \E c \in AgentConn : ServerAccepts(c) \/ ServerSeesEnd(c) \/ CloseEvent(c)
  \/ \E v \in Viewer : ViewerSends(v) \/ ViewerComes(v)
  \/ Tick

\* The server takes what arrives; the agent's connections end at the server
\* after they ended at the agent, by a close frame, by the system when the
\* process is gone, or by the ping timer (Heartbeat); ws runs every 'close'
\* event.
Fairness ==
  /\ WF_vars(ServerReceives)
  /\ WF_vars(\E c \in AgentConn : Over(c) /\ ServerSeesEnd(c))
  /\ WF_vars(\E c \in AgentConn : CloseEvent(c))

Spec == Init /\ [][Next]_vars /\ Fairness

\* The agent's threads are scheduled, too.
FairSpec == Spec /\ WF_vars(AgentStep)

-----------------------------------------------------------------------------
\* No viewer is sent a frame of a session whose screen size the server does
\* not know, and would pass on as undefined (index.js:186-192), although the
\* agent skips its announcement when it finds the connection lost and keeps
\* the frames coming (main.cpp:152, 205).
FramesHaveSize ==
  relay.kind = "frame" /\ relay.to # {} => agentScreen[obj[relay.from]] # None

\* When the agent's process is over, every viewer that can be reached is told,
\* and not told otherwise for good: connections of failed attempts may linger
\* at the server, and handshakes be read after the process that sent them is
\* gone (index.js:132-153, 201-212).  A viewer that another came to replace
\* in its millisecond cannot be reached (index.js:237).
ViewersKnow ==
  \A v \in Viewer : S!Open(v) /\ role[v] = "viewer" /\ S!UniqueId(v) => status[v] # "up"
ViewersLearnOfExit == A!Ended ~> []ViewersKnow

\* "To share your screen, connect the agent and then open any of the above
\* URLs in a browser." (index.js:438): the server has the agent that is
\* connected and shares the screen.
ConnectedAgentServed ==
  pc = "capture" ~> \E c \in AgentConn : role[c] = "agent"

=============================================================================
