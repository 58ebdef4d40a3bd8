-------------------------- MODULE RemoteShareProofs --------------------------
(***************************************************************************)
(* One agent, the server and its viewers, for any number of attempts,      *)
(* viewers, sessions and screens.  Every step of the composition is a step *)
(* of AgentClient or leaves it alone, and the same holds of ShareServer,   *)
(* so that whatever is proved of either holds of the two together; and no  *)
(* viewer is sent a frame of a screen whose size the server does not know. *)
(***************************************************************************)
EXTENDS RemoteShare, FiniteSetTheorems, TLAPS

AP == INSTANCE AgentClientProofs
SP == INSTANCE ShareServerProofs

-----------------------------------------------------------------------------
(* The components' theorems.                                               *)

LEMMA AgentAssumed == AP!AgentAssumption
BY RemoteAssumption DEF AP!AgentAssumption

LEMMA ServerAssumed == SP!ServerAssumption
<1>1. IsFiniteSet(Conn)
  BY RemoteAssumption, FS_Union DEF Conn
<1>2. SP!IsFiniteSet(Conn)
  BY <1>1 DEF SP!IsFiniteSet, IsFiniteSet
<1> QED
  BY <1>2, RemoteAssumption DEF SP!ServerAssumption, Conn, ClientScreen

\* The agent and the server that the theorems are about are those composed.
LEMMA SameAgent ==
  /\ A!Init <=> AP!Init
  /\ A!Next <=> AP!Next
  /\ A!vars = AP!vars
<1>1. A!Init <=> AP!Init
  BY DEF A!Init, AP!Init
<1>2. A!Next <=> AP!Next
  BY DEF A!Next, AP!Next, A!MainStep, AP!MainStep, A!IOStep, AP!IOStep, A!Network,
         AP!Network, A!Received, AP!Received, A!ConnectThrows, AP!ConnectThrows,
         A!Connect, AP!Connect, A!LoadConnected, AP!LoadConnected, A!TestExpired,
         AP!TestExpired, A!Wait, AP!Wait, A!SelectWindow, AP!SelectWindow, A!PutInfo,
         AP!PutInfo, A!PutFrame, AP!PutFrame, A!Capture, AP!Capture, A!Idle, AP!Idle,
         A!Close, AP!Close, A!Stop, AP!Stop, A!Join, AP!Join, A!OpenStoreHandle,
         AP!OpenStoreHandle, A!OpenStoreConnected, AP!OpenStoreConnected, A!BackoffOver,
         AP!BackoffOver, A!Reconnect, AP!Reconnect, A!ReconnectThrows,
         AP!ReconnectThrows, A!RunOutOfWork, AP!RunOutOfWork, A!RunStopped, AP!RunStopped, A!Exit, AP!Exit, A!OnOpen, AP!OnOpen, A!OnFail,
         AP!OnFail, A!BeginClose, AP!BeginClose, A!OnClose, AP!OnClose,
         A!ToggleFullscreen, AP!ToggleFullscreen, A!CloseConnection, AP!CloseConnection,
         A!MainAt, AP!MainAt, A!Goto, AP!Goto, A!Ended, AP!Ended, A!IOAt, AP!IOAt,
         A!Dispatch, AP!Dispatch, A!main, AP!main, A!history, AP!history, A!IfNot,
         AP!IfNot, A!IfConnected, AP!IfConnected, A!Asking, AP!Asking, A!Elapsed,
         AP!Elapsed, A!Delay, AP!Delay
<1>3. A!vars = AP!vars
  BY DEF A!vars, AP!vars, A!main, AP!main, A!history, AP!history
<1> QED
  BY <1>1, <1>2, <1>3

LEMMA SameServer ==
  /\ S!Init <=> SP!Init
  /\ S!Next <=> SP!Next
  /\ S!vars = SP!vars
<1>1. S!Init <=> SP!Init
  BY DEF S!Init, SP!Init, S!NoRelay, SP!NoRelay, S!Millis, SP!Millis
<1>2. S!Next <=> SP!Next
  BY DEF S!Next, SP!Next, S!Connect, SP!Connect, S!Message, SP!Message, S!CloseEvent,
         SP!CloseEvent, S!End, SP!End, S!ConnectWithoutSession, SP!ConnectWithoutSession,
         S!ConnectUnknownPath, SP!ConnectUnknownPath, S!RefuseAgent, SP!RefuseAgent,
         S!AcceptAgent, SP!AcceptAgent, S!AcceptViewer, SP!AcceptViewer,
         S!AgentScreenInfo, SP!AgentScreenInfo, S!AgentFrame, SP!AgentFrame,
         S!ViewerClientInfo, SP!ViewerClientInfo, S!ViewerInput, SP!ViewerInput,
         S!BeginClose, SP!BeginClose, S!AgentError, SP!AgentError, S!ViewerError,
         SP!ViewerError, S!AgentClose, SP!AgentClose, S!ViewerClose, SP!ViewerClose,
         S!RefusedClose, SP!RefusedClose, S!Tick, SP!Tick, S!Open, SP!Open, S!Registered,
         SP!Registered, S!OpenViewers, SP!OpenViewers, S!Clients, SP!Clients, S!Tell,
         SP!Tell, S!Count, SP!Count, S!CountRefused, SP!CountRefused, S!Connected,
         SP!Connected, S!Refused, SP!Refused, S!SessionFor, SP!SessionFor, S!Capture,
         SP!Capture, S!CleanupSessionIfEmpty, SP!CleanupSessionIfEmpty, S!NoRelay,
         SP!NoRelay, S!Millis, SP!Millis, S!closure, SP!closure, S!session, SP!session,
         S!Unscalable, SP!Unscalable, S!Rescale, SP!Rescale, S!RescaleClients,
         SP!RescaleClients, S!FrameReceivers, SP!FrameReceivers, S!HasScale, SP!HasScale,
         S!InputReceivers, SP!InputReceivers, S!SlotEmptied, SP!SlotEmptied,
         S!ToldOfClose, SP!ToldOfClose, S!EntryDeleted, SP!EntryDeleted
<1>3. S!vars = SP!vars
  BY DEF S!vars, SP!vars, S!closure, SP!closure, S!session, SP!session
<1> QED
  BY <1>1, <1>2, <1>3

LEMMA SameAgentSpec == A!Spec <=> AP!Spec
<1>1. [A!Next]_(A!vars) <=> [AP!Next]_(AP!vars)
  BY SameAgent DEF A!vars, AP!vars, A!main, AP!main, A!history, AP!history
<1> QED
  BY <1>1, SameAgent, PTL DEF A!Spec, AP!Spec

LEMMA SameServerSpec == S!Spec <=> SP!Spec
<1>1. [S!Next]_(S!vars) <=> [SP!Next]_(SP!vars)
  BY SameServer DEF S!vars, SP!vars, S!closure, SP!closure, S!session, SP!session
<1> QED
  BY <1>1, SameServer, PTL DEF S!Spec, SP!Spec

\* What the components keep, whatever they are composed with.
LEMMA AgentInvariance == A!Spec => []AP!IInv
BY AgentAssumed, SameAgentSpec, AP!Invariance, PTL

LEMMA ServerInvariance == S!Spec => []SP!TypeInv
BY ServerAssumed, SameServerSpec, SP!TypeInvariant, PTL

-----------------------------------------------------------------------------
(* The composition takes steps of its components only.                     *)

WireType == /\ request \in SessionId \cup {None}
            /\ requested \subseteq AgentConn
            /\ link \in requested \cup {None}
            /\ toServer \in Seq({"screen_info", "frame"})

\* What a server step does is one of the server's events.
LEMMA ServerSteps ==
  ASSUME WireType, Next
  PROVE  S!Next \/ UNCHANGED serverVars
<1> USE DEF WireType, Conn
<1>1. CASE AgentStep \/ SelectWindow
  BY <1>1 DEF AgentStep, NewAttempt, PutInfo, PutFrame, Transmit, Internal, SelectWindow
<1>2. CASE HandshakeAnswered \/ AttemptFails \/ AgentSeesEnd \/ AgentReceives
  BY <1>2 DEF HandshakeAnswered, AttemptFails, AgentSeesEnd, AgentReceives
<1>3. CASE ServerReceives
  <2>1. CASE \E scr \in Screen : S!AgentScreenInfo(link, scr)
    <3>1. link \in Conn
      BY <2>1 DEF S!AgentScreenInfo, S!Open
    <3> QED
      BY <2>1, <3>1 DEF S!Next, S!Message
  <2>2. CASE S!AgentFrame(link)
    <3>1. link \in Conn
      BY <2>2 DEF S!AgentFrame, S!Open
    <3> QED
      BY <2>2, <3>1 DEF S!Next, S!Message
  <2>3. CASE UNCHANGED serverVars
    BY <2>3
  <2> QED
    BY <1>3, <2>1, <2>2, <2>3 DEF ServerReceives
<1>4. ASSUME NEW c \in AgentConn, ServerAccepts(c) PROVE S!Next
  <2>1. c \in Conn
    OBVIOUS
  <2> QED
    BY <1>4, <2>1 DEF ServerAccepts, S!Next, S!Connect
<1>5. ASSUME NEW c \in AgentConn, ServerSeesEnd(c) \/ CloseEvent(c) PROVE S!Next
  <2>1. c \in Conn
    OBVIOUS
  <2> QED
    BY <1>5, <2>1 DEF ServerSeesEnd, CloseEvent, S!Next, S!End
<1>6. ASSUME NEW v \in Viewer, ViewerSends(v) \/ ViewerComes(v) PROVE S!Next
  <2>1. v \in Conn
    OBVIOUS
  <2> QED
    BY <1>6, <2>1 DEF ViewerSends, ViewerComes, S!Next, S!Message, S!Connect
<1>7. CASE Tick
  BY <1>7 DEF Tick, S!Next
<1> QED
  BY <1>1, <1>2, <1>3, <1>4, <1>5, <1>6, <1>7 DEF Next

\* What an agent step does is a step of one of its threads, of its user or of
\* its network.
LEMMA AgentSteps ==
  ASSUME Next
  PROVE  A!Next \/ UNCHANGED agentVars
<1> USE DEF A!Next, A!MainStep, A!IOStep, A!Network, A!Received
<1>1. CASE AgentStep \/ SelectWindow
  BY <1>1 DEF AgentStep, NewAttempt, PutInfo, PutFrame, Internal, SelectWindow
<1>2. CASE HandshakeAnswered \/ AttemptFails \/ AgentSeesEnd \/ AgentReceives
  BY <1>2 DEF HandshakeAnswered, AttemptFails, AgentSeesEnd, AgentReceives
<1>3. CASE ServerReceives \/ \E c \in AgentConn : ServerAccepts(c) \/ ServerSeesEnd(c) \/ CloseEvent(c)
  BY <1>3 DEF ServerReceives, ServerAccepts, ServerSeesEnd, CloseEvent
<1>4. CASE Tick \/ \E v \in Viewer : ViewerSends(v) \/ ViewerComes(v)
  BY <1>4 DEF Tick, ViewerSends, ViewerComes
<1> QED
  BY <1>1, <1>2, <1>3, <1>4 DEF Next

LEMMA WireStep ==
  ASSUME WireType, [Next]_vars
  PROVE  WireType'
<1> USE DEF WireType
<1>1. CASE NewAttempt
  BY <1>1 DEF NewAttempt
<1>2. ASSUME NEW m \in {"screen_info", "frame"}, Transmit(m) PROVE WireType'
  BY <1>2 DEF Transmit
<1>3. CASE PutInfo \/ PutFrame
  BY <1>2, <1>3 DEF PutInfo, PutFrame
<1>4. CASE \/ Internal \/ SelectWindow \/ HandshakeAnswered \/ AttemptFails \/ AgentSeesEnd
           \/ AgentReceives \/ UNCHANGED vars
           \/ \E c \in AgentConn : ServerAccepts(c) \/ CloseEvent(c)
           \/ Tick \/ \E v \in Viewer : ViewerSends(v) \/ ViewerComes(v)
  <2>1. UNCHANGED <<request, requested, link, toServer>>
    BY <1>4 DEF Internal, SelectWindow, HandshakeAnswered, AttemptFails, AgentSeesEnd,
       AgentReceives, vars, wires, ServerAccepts, CloseEvent, Tick, ViewerSends, ViewerComes
  <2> QED
    BY <2>1
<1>5. CASE ServerReceives
  <2>1. /\ toServer # << >> /\ toServer' = Tail(toServer)
        /\ UNCHANGED <<request, requested, link>>
    BY <1>5 DEF ServerReceives
  <2> QED
    <3>1. Tail(toServer) \in Seq({"screen_info", "frame"})
      BY <2>1
    <3> QED
      BY <2>1, <3>1
<1>6. ASSUME NEW c \in AgentConn, ServerSeesEnd(c) PROVE WireType'
  <2>1. UNCHANGED <<request, requested, link>> /\ toServer' \in {toServer, << >>}
    BY <1>6 DEF ServerSeesEnd
  <2>2. << >> \in Seq({"screen_info", "frame"})
    OBVIOUS
  <2> QED
    BY <2>1, <2>2
<1> QED
  BY <1>1, <1>3, <1>4, <1>5, <1>6 DEF Next, AgentStep

LEMMA WireInvariance == Spec => []WireType
<1>1. Init => WireType
  BY RemoteAssumption DEF Init, WireType
<1> QED
  BY <1>1, WireStep, PTL DEF Spec

\* Joined by a connection, the agent and the server still behave as each does
\* alone, so that everything proved of the two threads and of the registry
\* holds of the system: the race on m_hdl, the references of the sessions,
\* what viewers are told (main.cpp, WebSocketClient.cpp, index.js).
THEOREM ComponentsKept == Spec => A!Spec /\ S!Spec
<1>1. Init => A!Init /\ S!Init
  BY DEF Init
<1>2. WireType /\ [Next]_vars => [A!Next]_(A!vars) /\ [S!Next]_(S!vars)
  <2> SUFFICES ASSUME WireType, [Next]_vars PROVE [A!Next]_(A!vars) /\ [S!Next]_(S!vars)
    OBVIOUS
  <2>1. UNCHANGED agentVars => UNCHANGED A!vars
    BY DEF agentVars, A!vars, A!main, A!history
  <2>2. UNCHANGED serverVars => UNCHANGED S!vars
    BY DEF serverVars, S!vars, S!closure, S!session
  <2>3. CASE Next
    BY <2>1, <2>2, <2>3, AgentSteps, ServerSteps
  <2>4. CASE UNCHANGED vars
    BY <2>1, <2>2, <2>4 DEF vars
  <2> QED
    BY <2>3, <2>4
<1> QED
  BY <1>1, <1>2, WireInvariance, PTL DEF Spec, A!Spec, S!Spec

-----------------------------------------------------------------------------
(* A frame never overtakes the announcement of the screen.                 *)

HasInfo(q, n) == \E j \in 1 .. n : q[j] = "screen_info"
Ordered(q, known) == \A i \in 1 .. Len(q) : q[i] = "frame" => known \/ HasInfo(q, i)
Coming(q, known) == known \/ HasInfo(q, Len(q))

\* The server serves the agent's connection, and has the size of its screen.
Serving == link # None /\ S!Open(link) /\ role[link] = "agent"
Sized == agentScreen[obj[link]] # None

\* Nothing is under way before the connection is open, which it is not
\* before the server answered; and nothing was announced on a connection
\* before it: only failed attempts are repeated.
Unsent ==
  /\ sock = "connecting" => toServer = << >>
  /\ link # None /\ ws[link] = "idle" => sock # "open" /\ toServer = << >>
NotAgain == AP!Early => ~announced

\* The announcement arrived, or is under way and ahead of every frame.
InOrder == Serving => /\ Ordered(toServer, Sized)
                      /\ sock = "open" /\ announced => Coming(toServer, Sized)

SizeInv == Unsent /\ NotAgain /\ InOrder /\ FramesHaveSize

LEMMA SentInOrder ==
  ASSUME NEW q \in Seq({"screen_info", "frame"}), NEW known \in BOOLEAN, Ordered(q, known)
  PROVE  /\ Ordered(Append(q, "screen_info"), known)
         /\ Coming(Append(q, "screen_info"), known)
         /\ Coming(q, known) => /\ Ordered(Append(q, "frame"), known)
                                /\ Coming(Append(q, "frame"), known)
<1>1. ASSUME NEW m \in {"screen_info", "frame"}
      PROVE  /\ Len(Append(q, m)) = Len(q) + 1 /\ Append(q, m)[Len(q) + 1] = m
             /\ \A i \in 1 .. Len(q) : Append(q, m)[i] = q[i]
  OBVIOUS
<1>2. Len(q) \in Nat
  OBVIOUS
<1>3. ASSUME NEW m \in {"screen_info", "frame"}, m = "frame" => Coming(q, known)
      PROVE  Ordered(Append(q, m), known) /\ Coming(Append(q, m), known)
  <2> DEFINE r == Append(q, m)
             n == Len(q)
  <2>1. /\ Len(r) = n + 1 /\ r[n + 1] = m /\ n \in Nat
        /\ \A i \in 1 .. n : r[i] = q[i]
    BY <1>1, <1>2
  <2> HIDE DEF r, n
  <2>2. \A i \in 1 .. n : HasInfo(q, i) => HasInfo(r, i) /\ HasInfo(r, n + 1)
    <3>1. \A i \in 1 .. n : \A j \in 1 .. i : j \in 1 .. n /\ j \in 1 .. n + 1
      BY <2>1
    <3> QED
      BY <2>1, <3>1 DEF HasInfo
  <2>3. known \/ HasInfo(r, n + 1)
    <3>1. CASE m = "screen_info"
      <4>1. n + 1 \in 1 .. n + 1
        BY <2>1
      <4> QED
        BY <2>1, <3>1, <4>1 DEF HasInfo
    <3>2. CASE m = "frame"
      <4>1. known \/ \E j \in 1 .. n : q[j] = "screen_info"
        BY <1>3, <3>2 DEF Coming, HasInfo, n
      <4>2. \A j \in 1 .. n : j \in 1 .. n + 1
        BY <2>1
      <4> QED
        BY <2>1, <4>1, <4>2 DEF HasInfo
    <3> QED
      BY <3>1, <3>2
  <2>4. \A i \in 1 .. n : q[i] = "frame" => known \/ HasInfo(q, i)
    BY DEF Ordered, n
  <2>5. \A i \in 1 .. n + 1 : i \in 1 .. n \/ i = n + 1
    BY <2>1
  <2>6. \A i \in 1 .. n + 1 : r[i] = "frame" => known \/ HasInfo(r, i)
    BY <2>1, <2>2, <2>3, <2>4, <2>5
  <2> QED
    BY <2>1, <2>3, <2>6 DEF Ordered, Coming, r
<1> QED
  BY <1>3

\* The frame that arrives first is preceded by nothing.
LEMMA FirstFrameSized ==
  ASSUME NEW q \in Seq({"screen_info", "frame"}), q # << >>, Head(q) = "frame",
         NEW known \in BOOLEAN, Ordered(q, known)
  PROVE  known
<1>1. 1 \in 1 .. Len(q) /\ q[1] = "frame" /\ \A j \in 1 .. 1 : q[j] = "frame"
  OBVIOUS
<1> QED
  BY <1>1 DEF Ordered, HasInfo

\* The agent's own steps.
LEMMA AgentKeepsOrder ==
  ASSUME AP!IInv, WireType, SizeInv,
         \/ AgentStep \/ SelectWindow \/ HandshakeAnswered \/ AttemptFails
         \/ AgentSeesEnd \/ AgentReceives
  PROVE  SizeInv'
<1>1. UNCHANGED serverVars
  BY DEF AgentStep, NewAttempt, PutInfo, PutFrame, Transmit, Internal, SelectWindow,
     HandshakeAnswered, AttemptFails, AgentSeesEnd, AgentReceives
<1>2. FramesHaveSize'
  BY <1>1 DEF SizeInv, FramesHaveSize, serverVars
<1>3. UNCHANGED link => (Serving' <=> Serving) /\ (Sized' <=> Sized)
  BY <1>1 DEF Serving, Sized, S!Open, serverVars
<1>10. ASSUME NEW m \in {"screen_info", "frame"}, UNCHANGED link,
              toServer' = Append(toServer, m),
              Serving => Ordered(toServer, Sized) /\ (m = "frame" => Coming(toServer, Sized))
       PROVE  InOrder'
  <2> DEFINE q == Append(toServer, m)
  <2>1. ASSUME Serving
        PROVE  Ordered(q, Sized) /\ Coming(q, Sized)
    <3>1. toServer \in Seq({"screen_info", "frame"}) /\ Sized \in BOOLEAN
      BY DEF WireType, Sized
    <3> HIDE DEF Sized
    <3>2. CASE m = "screen_info"
      BY <1>10, <2>1, <3>1, <3>2, SentInOrder
    <3>3. CASE m = "frame"
      BY <1>10, <2>1, <3>1, <3>3, SentInOrder
    <3> QED
      BY <3>2, <3>3
  <2>2. toServer' = q /\ (Serving' <=> Serving) /\ (Sized' <=> Sized)
    BY <1>3, <1>10
  <2> HIDE DEF q
  <2>3. Serving' => Ordered(toServer', Sized') /\ Coming(toServer', Sized')
    BY <2>1, <2>2 DEF Ordered, Coming
  <2> QED
    BY <2>3 DEF InOrder
<1>11. ASSUME UNCHANGED <<link, toServer, sock>>, sock # "open",
              Serving => Ordered(toServer, Sized)
       PROVE  InOrder'
  <2>1. Serving' => Ordered(toServer', Sized')
    BY <1>3, <1>11 DEF Ordered
  <2> QED
    BY <1>11, <2>1 DEF InOrder
<1>4. CASE NewAttempt
  <2>1. /\ Len(toServer') = 0 /\ toServer' = << >>
        /\ A!Connect \/ A!Reconnect
    BY <1>4 DEF NewAttempt
  <2>2. ~announced' /\ sock' = "connecting"
    BY <2>1 DEF A!Connect, A!Reconnect, A!MainAt, A!IOAt, A!Goto, A!history, A!main,
       AP!IInv, AP!Unstarted, AP!Early, SizeInv, NotAgain
  <2> QED
    BY <1>2, <2>1, <2>2 DEF SizeInv, Unsent, NotAgain, InOrder, Ordered
<1>5. CASE PutInfo
  <2>1. /\ announced' = (announced \/ sock = "open") /\ pc = "putInfo"
        /\ UNCHANGED <<io, sock, link>>
        /\ IF sock = "open" THEN toServer' = Append(toServer, "screen_info")
                            ELSE UNCHANGED toServer
    BY <1>5 DEF PutInfo, Transmit, A!PutInfo, A!MainAt
  <2>2. ~AP!Early
    BY <2>1 DEF AP!IInv, AP!NotBeforeOpen, AP!Late, AP!Beyond
  <2>3. Serving => Ordered(toServer, Sized) /\ Sized \in BOOLEAN
    BY DEF SizeInv, InOrder, Sized
  <2>4. InOrder'
    <3>1. CASE sock = "open"
      BY <1>10, <2>1, <2>3, <3>1
    <3>2. CASE sock # "open"
      <4>1. UNCHANGED <<link, toServer, sock>>
        BY <2>1, <3>2
      <4> QED
        BY <1>11, <2>3, <3>2, <4>1
    <3> QED
      BY <3>1, <3>2
  <2>5. Unsent' /\ NotAgain'
    BY <1>1, <2>1, <2>2 DEF SizeInv, Unsent, NotAgain, AP!Early, serverVars
  <2> QED
    BY <1>2, <2>4, <2>5 DEF SizeInv
<1>6. CASE PutFrame
  <2>1. /\ pc = "putFrame" /\ UNCHANGED <<announced, io, sock, link>>
        /\ IF sock = "open" THEN toServer' = Append(toServer, "frame")
                            ELSE UNCHANGED toServer
    BY <1>6 DEF PutFrame, Transmit, A!PutFrame, A!MainAt
  <2>2. sock = "open" => announced
    BY <2>1 DEF AP!IInv, AP!Unannounced, AP!Streaming, AP!Lost
  <2>3. Serving => Ordered(toServer, Sized) /\ Sized \in BOOLEAN
                   /\ (sock = "open" => Coming(toServer, Sized))
    BY <2>2 DEF SizeInv, InOrder, Sized
  <2>4. InOrder'
    <3>1. CASE sock = "open"
      BY <1>10, <2>1, <2>3, <3>1
    <3>2. CASE sock # "open"
      <4>1. UNCHANGED <<link, toServer, sock>>
        BY <2>1, <3>2
      <4> QED
        BY <1>11, <2>3, <3>2, <4>1
    <3> QED
      BY <3>1, <3>2
  <2>5. Unsent' /\ NotAgain'
    BY <1>1, <2>1 DEF SizeInv, Unsent, NotAgain, AP!Early, serverVars
  <2> QED
    BY <1>2, <2>4, <2>5 DEF SizeInv
<1>7. CASE HandshakeAnswered
  <2>1. /\ sock = "connecting" /\ ~announced /\ ws[link] # "idle"
        /\ UNCHANGED <<announced, link, toServer>>
    BY <1>7 DEF HandshakeAnswered, A!OnOpen, A!history, wires, SizeInv, NotAgain, AP!Early
  <2>2. sock' = "open"
    BY <1>7 DEF HandshakeAnswered, A!OnOpen
  <2>3. Serving' => Ordered(toServer', Sized')
    BY <1>3, <2>1 DEF SizeInv, InOrder, Ordered
  <2> QED
    BY <1>1, <1>2, <2>1, <2>2, <2>3 DEF SizeInv, Unsent, NotAgain, InOrder, serverVars
<1>8. ASSUME UNCHANGED <<announced, link, toServer>>, sock' # "connecting" \/ sock' = sock,
             sock' = "open" => sock = "open", announced => ~AP!Early'
      PROVE  SizeInv'
  <2>1. Serving' => Ordered(toServer', Sized')
    BY <1>3, <1>8 DEF SizeInv, InOrder, Ordered
  <2>2. Serving' /\ sock' = "open" /\ announced' => Coming(toServer', Sized')
    BY <1>3, <1>8 DEF SizeInv, InOrder, Coming
  <2> QED
    BY <1>1, <1>2, <1>8, <2>1, <2>2 DEF SizeInv, Unsent, NotAgain, InOrder, serverVars
<1>9. CASE Internal \/ SelectWindow \/ AttemptFails \/ AgentSeesEnd \/ AgentReceives
  <2>1. UNCHANGED <<announced, link, toServer>>
    BY <1>9 DEF Internal, SelectWindow, AttemptFails, AgentSeesEnd, AgentReceives, wires,
       A!ConnectThrows, A!LoadConnected, A!TestExpired, A!Wait, A!Capture, A!Idle, A!Close,
       A!Stop, A!Join, A!OpenStoreHandle, A!OpenStoreConnected, A!BackoffOver,
       A!ReconnectThrows, A!RunOutOfWork, A!RunStopped, A!Exit, A!SelectWindow, A!OnFail, A!BeginClose,
       A!OnClose, A!ToggleFullscreen, A!CloseConnection, A!history
  <2>2. /\ sock' # "connecting" \/ sock' = sock
        /\ sock' = "open" => sock = "open"
        /\ AP!Early' => AP!Early
    BY <1>9 DEF Internal, SelectWindow, AttemptFails, AgentSeesEnd, AgentReceives, AP!Early,
       A!ConnectThrows, A!LoadConnected, A!TestExpired, A!Wait, A!Capture, A!Idle, A!Close,
       A!Stop, A!Join, A!OpenStoreHandle, A!OpenStoreConnected, A!BackoffOver,
       A!ReconnectThrows, A!RunOutOfWork, A!RunStopped, A!Exit, A!SelectWindow, A!OnFail, A!BeginClose,
       A!OnClose, A!ToggleFullscreen, A!CloseConnection, A!IOAt, A!MainAt, A!Dispatch
  <2>3. announced => ~AP!Early'
    BY <2>2 DEF SizeInv, NotAgain
  <2> QED
    BY <1>8, <2>1, <2>2, <2>3
<1> QED
  BY <1>4, <1>5, <1>6, <1>7, <1>9 DEF AgentStep

\* The server's handlers, and the ends of connections there.
LEMMA ServerKeepsOrder ==
  ASSUME SP!TypeInv, WireType, SizeInv,
         \/ ServerReceives
         \/ \E c \in AgentConn : ServerAccepts(c) \/ ServerSeesEnd(c) \/ CloseEvent(c)
         \/ \E v \in Viewer : ViewerSends(v) \/ ViewerComes(v)
         \/ Tick
  PROVE  SizeInv'
<1>1. UNCHANGED agentVars
  BY DEF ServerReceives, ServerAccepts, ServerSeesEnd, CloseEvent, ViewerSends, ViewerComes,
     Tick
<1>2. NotAgain'
  BY <1>1 DEF SizeInv, NotAgain, AP!Early, agentVars
<1>3. /\ ws \in [Conn -> {"idle", "OPEN", "CLOSING", "CLOSED"}]
      /\ role \in [Conn -> {"none", "agent", "viewer"}]
      /\ obj \in [Conn -> Conn \cup {None}]
      /\ agentScreen \in [Conn -> Screen \cup {None}]
      /\ \A c \in Conn : role[c] # "none" => obj[c] \in Conn
  BY DEF SP!TypeInv, SP!TypeOK, SP!Captured
<1>4. link = None \/ link \in Conn
  BY DEF WireType, Conn
<1>12. ASSUME UNCHANGED link, toServer' = toServer \/ toServer' = << >> \/ UNCHANGED ws,
              toServer = << >> => toServer' = << >>,
              \A c \in Conn : ws'[c] = "idle" => ws[c] = "idle"
       PROVE  Unsent'
  BY <1>1, <1>4, <1>12 DEF SizeInv, Unsent, agentVars
<1>5. ASSUME NEW q, toServer' = q, UNCHANGED link, Unsent', relay'.kind # "frame",
             Serving' => Serving /\ UNCHANGED <<obj[link], agentScreen>> /\ q = toServer
      PROVE  SizeInv'
  <2>1. FramesHaveSize'
    BY <1>5 DEF FramesHaveSize
  <2>2. InOrder'
    <3>1. Serving' => Sized' = Sized
      BY <1>5 DEF Sized
    <3> QED
      BY <1>1, <1>5, <3>1 DEF SizeInv, InOrder, agentVars, Ordered, Coming
  <2> QED
    BY <1>2, <1>5, <2>1, <2>2 DEF SizeInv
<1>6. CASE ServerReceives
  <2>1. /\ toServer # << >> /\ toServer' = Tail(toServer) /\ UNCHANGED link
        /\ Head(toServer) \in {"screen_info", "frame"}
    BY <1>6 DEF ServerReceives, WireType
  <2>2. Unsent'
    <3>1. UNCHANGED ws
      BY <1>6 DEF ServerReceives, S!AgentScreenInfo, S!AgentFrame, serverVars
    <3> QED
      BY <1>12, <2>1, <3>1
  <2>3. ASSUME NEW scr \in Screen, S!AgentScreenInfo(link, scr) PROVE SizeInv'
    <3>1. /\ link \in Conn /\ role[link] = "agent" /\ obj[link] \in Conn
      BY <1>3, <1>4, <2>3 DEF S!AgentScreenInfo, S!Open
    <3>2. /\ agentScreen' = [agentScreen EXCEPT ![obj[link]] = scr] /\ UNCHANGED obj
          /\ relay'.kind # "frame"
      BY <2>3 DEF S!AgentScreenInfo, S!closure, S!NoRelay
    <3>3. Sized'
      BY <1>3, <2>1, <3>1, <3>2, RemoteAssumption DEF Sized
    <3> QED
      BY <1>2, <2>2, <3>2, <3>3 DEF SizeInv, InOrder, Ordered, Coming, FramesHaveSize
  <2>4. CASE Head(toServer) = "frame" /\ S!AgentFrame(link)
    <3>1. Serving /\ UNCHANGED <<obj, agentScreen>> /\ relay'.from = link
      BY <2>4 DEF S!AgentFrame, S!Open, Serving, S!closure, S!session
    <3>2. Sized
      <4>1. Ordered(toServer, Sized) /\ Sized \in BOOLEAN
        BY <3>1 DEF SizeInv, InOrder, Sized
      <4> QED
        BY <2>1, <2>4, <4>1, FirstFrameSized DEF WireType
    <3>3. Sized' /\ FramesHaveSize'
      BY <2>1, <3>1, <3>2 DEF Sized, FramesHaveSize
    <3> QED
      BY <1>2, <2>2, <3>3 DEF SizeInv, InOrder, Ordered, Coming
  <2>5. CASE ~S!Open(link) /\ UNCHANGED serverVars
    <3>1. ~Serving' /\ FramesHaveSize'
      BY <2>1, <2>5 DEF SizeInv, Serving, S!Open, FramesHaveSize, serverVars
    <3> QED
      BY <1>2, <2>2, <3>1 DEF SizeInv, InOrder
  <2> QED
    BY <1>6, <2>3, <2>4, <2>5 DEF ServerReceives
<1>7. ASSUME NEW c \in AgentConn, ServerAccepts(c) PROVE SizeInv'
  <2>1. /\ UNCHANGED <<link, agentScreen, toServer>> /\ relay'.kind # "frame"
        /\ ws[c] = "idle" /\ ws' \in {[ws EXCEPT ![c] = "OPEN"], [ws EXCEPT ![c] = "CLOSING"]}
        /\ role' = role \/ \E r : role' = [role EXCEPT ![c] = r]
        /\ obj' = obj \/ \E o : obj' = [obj EXCEPT ![c] = o]
    <3>1. UNCHANGED <<link, toServer>>
      BY <1>7 DEF ServerAccepts, wires
    <3>2. CASE S!ConnectWithoutSession(c)
      BY <3>1, <3>2 DEF S!ConnectWithoutSession, S!Refused, S!closure, S!session, S!NoRelay
    <3>3. CASE S!RefuseAgent(c, request)
      BY <3>1, <3>3 DEF S!RefuseAgent, S!Refused, S!Capture, S!session, S!NoRelay
    <3>4. CASE S!AcceptAgent(c, request)
      BY <3>1, <3>4 DEF S!AcceptAgent, S!Connected, S!Capture, S!NoRelay
    <3> QED
      BY <1>7, <3>2, <3>3, <3>4 DEF ServerAccepts
  <2>2. Unsent'
    <3>1. \A d \in Conn : ws'[d] = "idle" => ws[d] = "idle"
      BY <1>3, <2>1 DEF Conn
    <3> QED
      BY <1>12, <2>1, <3>1
  <2>3. CASE c = link
    <3>1. toServer' = << >> /\ Len(toServer') = 0 /\ sock' # "open"
      BY <1>1, <2>1, <2>3, RemoteAssumption DEF SizeInv, Unsent, agentVars
    <3> QED
      BY <1>2, <2>1, <2>2, <3>1 DEF SizeInv, InOrder, Ordered, FramesHaveSize
  <2>4. CASE c # link
    <3>1. Serving' => Serving /\ UNCHANGED obj[link]
      BY <1>3, <1>4, <2>1, <2>4 DEF Serving, S!Open, Conn
    <3> QED
      BY <1>5, <2>1, <2>2, <3>1
  <2> QED
    BY <2>3, <2>4
<1>8. ASSUME NEW c \in AgentConn, ServerSeesEnd(c) PROVE SizeInv'
  <2>1. /\ UNCHANGED <<link, role, obj, agentScreen>> /\ relay'.kind # "frame"
        /\ ws' = [ws EXCEPT ![c] = "CLOSING"]
        /\ toServer' = IF c = link THEN << >> ELSE toServer
    BY <1>8 DEF ServerSeesEnd, S!BeginClose, S!closure, S!session, S!NoRelay
  <2>2. Unsent'
    BY <1>3, <1>12, <2>1
  <2>3. Serving' => Serving /\ c # link
    BY <1>3, <1>4, <2>1 DEF Serving, S!Open, Conn
  <2> QED
    BY <1>5, <2>1, <2>2, <2>3
<1>9. ASSUME NEW c \in AgentConn, CloseEvent(c) PROVE SizeInv'
  <2>1. /\ UNCHANGED <<link, role, obj, agentScreen, toServer>> /\ relay'.kind # "frame"
        /\ ws' = [ws EXCEPT ![c] = "CLOSED"]
    BY <1>9 DEF CloseEvent, S!CloseEvent, S!AgentClose, S!ViewerClose, S!RefusedClose,
       S!closure, S!session, S!NoRelay, wires
  <2>2. Unsent'
    BY <1>3, <1>12, <2>1
  <2>3. Serving' => Serving
    BY <1>3, <1>4, <2>1 DEF Serving, S!Open, Conn
  <2> QED
    BY <1>5, <2>1, <2>2, <2>3
<1>10. ASSUME NEW v \in Viewer, ViewerSends(v) PROVE SizeInv'
  <2>1. /\ UNCHANGED <<link, ws, role, obj, agentScreen, toServer>> /\ relay'.kind # "frame"
    BY <1>10 DEF ViewerSends, S!ViewerInput, S!closure, S!session
  <2>2. Unsent'
    BY <1>12, <2>1
  <2>3. Serving' => Serving
    BY <2>1 DEF Serving, S!Open
  <2> QED
    BY <1>5, <2>1, <2>2, <2>3
<1>11. ASSUME NEW v \in Viewer, ViewerComes(v) PROVE SizeInv'
  <2>1. PICK s \in SessionId : S!AcceptViewer(v, s)
    BY <1>11 DEF ViewerComes
  <2>2. /\ UNCHANGED <<link, agentScreen, toServer>> /\ relay'.kind # "frame"
        /\ ws' = [ws EXCEPT ![v] = "OPEN"] /\ role' = [role EXCEPT ![v] = "viewer"]
        /\ \E o : obj' = [obj EXCEPT ![v] = o]
    BY <1>11, <2>1 DEF ViewerComes, S!AcceptViewer, S!Connected, S!Capture, S!NoRelay, wires
  <2>3. Unsent'
    BY <1>3, <1>12, <2>2
  <2>4. Serving' => Serving /\ UNCHANGED obj[link]
    BY <1>3, <1>4, <2>2 DEF Serving, S!Open, Conn
  <2> QED
    BY <1>5, <2>2, <2>3, <2>4
<1>13. CASE Tick
  <2>1. /\ UNCHANGED <<link, ws, role, obj, agentScreen, toServer>> /\ relay'.kind # "frame"
    BY <1>13 DEF Tick, S!Tick, S!closure, S!session, S!NoRelay, wires
  <2>2. Unsent'
    BY <1>12, <2>1
  <2>3. Serving' => Serving
    BY <2>1 DEF Serving, S!Open
  <2> QED
    BY <1>5, <2>1, <2>2, <2>3
<1> QED
  BY <1>6, <1>7, <1>8, <1>9, <1>10, <1>11, <1>13

\* No viewer is sent a frame of a session whose screen the server does not
\* know: the announcement goes ahead of the frames on the one connection that
\* is ever opened, for any number of attempts and viewers and whatever else
\* comes and goes in the session (main.cpp:152-223, index.js:158-194).
THEOREM FramesAreSized == Spec => []FramesHaveSize
<1>1. Init => SizeInv
  <2> SUFFICES ASSUME Init PROVE SizeInv
    OBVIOUS
  <2>1. link = None /\ toServer = << >> /\ ~announced /\ relay.kind = "none"
    BY DEF Init, A!Init, S!Init, S!NoRelay
  <2> QED
    BY <2>1 DEF SizeInv, Unsent, NotAgain, InOrder, Serving, FramesHaveSize
<1>2. AP!IInv /\ SP!TypeInv /\ WireType /\ SizeInv /\ [Next]_vars => SizeInv'
  <2> SUFFICES ASSUME AP!IInv, SP!TypeInv, WireType, SizeInv, [Next]_vars PROVE SizeInv'
    OBVIOUS
  <2>1. CASE UNCHANGED vars
    BY <2>1 DEF vars, agentVars, serverVars, wires, SizeInv, Unsent, NotAgain, AP!Early,
       InOrder, Serving, S!Open, Sized, Ordered, Coming, FramesHaveSize
  <2> QED
    BY <2>1, AgentKeepsOrder, ServerKeepsOrder DEF Next
<1>3. SizeInv => FramesHaveSize
  BY DEF SizeInv
<1>4. Spec => []AP!IInv /\ []SP!TypeInv
  BY ComponentsKept, AgentInvariance, ServerInvariance, PTL
<1> QED
  BY <1>1, <1>2, <1>3, <1>4, WireInvariance, PTL DEF Spec

-----------------------------------------------------------------------------
(* The end of the agent.                                                   *)

\* The agent's process is over and no connection is an agent's any more.
AgentGone == A!Ended /\ \A c \in Conn : S!Live(c) => role[c] # "agent"

\* The handshakes that reached the server's machine and are not read yet.
Unread == {c \in requested : ws[c] = "idle"}

LEMMA NobodyAnnounced ==
  ASSUME SP!IInv, AgentGone
  PROVE  ViewersKnow
<1> SUFFICES ASSUME NEW v \in Viewer, S!Open(v), role[v] = "viewer", S!UniqueId(v)
             PROVE  status[v] # "up"
  BY DEF ViewersKnow
<1> USE DEF SP!IInv, SP!RInv, SP!TypeInv, SP!TypeOK
<1>1. v \in Conn /\ obj[v] \in Conn /\ viewerId[v] \in SP!Millis
  BY DEF Conn, SP!Captured
<1>2. SP!Open(v) /\ SP!UniqueId(v)
  BY DEF S!Open, SP!Open, S!UniqueId, SP!UniqueId
<1>3. v \in SP!OpenViewers(obj[v])
  BY <1>1, <1>2 DEF SP!Entered, SP!OpenViewers, SP!Registered
<1>4. agent[obj[v]] = None
  <2>1. ASSUME NEW a \in Conn, agent[obj[v]] = a
        PROVE  SP!Live(a) /\ role[a] = "agent"
    <3>1. agent[obj[v]] # None
      BY <2>1, RemoteAssumption DEF Conn
    <3> QED
      BY <1>1, <2>1, <3>1 DEF SP!RegistryConsistent, SP!AgentsKnown
  <2>2. \A a \in Conn : SP!Live(a) => role[a] # "agent"
    BY DEF AgentGone, S!Live, SP!Live
  <2> QED
    BY <1>1, <2>1, <2>2
<1> QED
  BY <1>1, <1>3, <1>4 DEF SP!StatusAgrees

\* What the agent's connections, and the viewers', do at the server.
LEMMA ServerMoves ==
  ASSUME WireType, SP!TypeInv, [Next]_vars
  PROVE  \/ UNCHANGED <<ws, role>>
         \/ \E c \in Unread : ws'[c] # "idle" /\ \A d \in Conn : d # c => ws'[d] = ws[d]
         \/ \E c \in AgentConn : /\ ws[c] \in {"OPEN", "CLOSING"} /\ UNCHANGED role
                                /\ ws' \in {[ws EXCEPT ![c] = "CLOSING"],
                                            [ws EXCEPT ![c] = "CLOSED"]}
         \/ \E v \in Viewer : /\ ws' = [ws EXCEPT ![v] = "OPEN"]
                             /\ role' = [role EXCEPT ![v] = "viewer"]
<1> USE DEF SP!TypeInv, SP!TypeOK
<1>1. UNCHANGED serverVars => UNCHANGED <<ws, role>>
  BY DEF serverVars
<1>2. CASE \/ AgentStep \/ SelectWindow \/ HandshakeAnswered \/ AttemptFails \/ AgentSeesEnd
           \/ AgentReceives \/ UNCHANGED vars
  <2>1. UNCHANGED serverVars
    BY <1>2 DEF AgentStep, NewAttempt, PutInfo, PutFrame, Transmit, Internal, SelectWindow,
       HandshakeAnswered, AttemptFails, AgentSeesEnd, AgentReceives, vars
  <2> QED
    BY <1>1, <2>1
<1>3. CASE ServerReceives \/ Tick \/ \E v \in Viewer : ViewerSends(v)
  <2>1. UNCHANGED <<ws, role>>
    BY <1>1, <1>3 DEF ServerReceives, ViewerSends, Tick, S!AgentScreenInfo, S!AgentFrame,
       S!ViewerInput, S!Tick, S!closure
  <2> QED
    BY <2>1
<1>4. ASSUME NEW c \in AgentConn, ServerAccepts(c)
      PROVE  /\ c \in Unread /\ ws'[c] # "idle"
             /\ \A d \in Conn : d # c => ws'[d] = ws[d]
  <2>1. c \in requested /\ ws[c] = "idle" /\ c \in Conn
    BY <1>4 DEF ServerAccepts, S!ConnectWithoutSession, S!RefuseAgent, S!AcceptAgent, Conn
  <2>2. ws' \in {[ws EXCEPT ![c] = "OPEN"], [ws EXCEPT ![c] = "CLOSING"]}
    BY <1>4 DEF ServerAccepts, S!ConnectWithoutSession, S!RefuseAgent, S!AcceptAgent,
       S!Connected, S!Refused
  <2> QED
    BY <2>1, <2>2 DEF Unread
<1>5. ASSUME NEW c \in AgentConn, ServerSeesEnd(c) \/ CloseEvent(c)
      PROVE  /\ ws[c] \in {"OPEN", "CLOSING"} /\ UNCHANGED role
             /\ ws' \in {[ws EXCEPT ![c] = "CLOSING"], [ws EXCEPT ![c] = "CLOSED"]}
  BY <1>5 DEF ServerSeesEnd, CloseEvent, S!BeginClose, S!CloseEvent, S!AgentClose,
     S!ViewerClose, S!RefusedClose, S!Open, S!closure
<1>6. ASSUME NEW v \in Viewer, ViewerComes(v)
      PROVE  ws' = [ws EXCEPT ![v] = "OPEN"] /\ role' = [role EXCEPT ![v] = "viewer"]
  BY <1>6 DEF ViewerComes, S!AcceptViewer, S!Connected, S!Capture
<1>7. CASE \E c \in AgentConn : ServerAccepts(c)
  BY <1>4, <1>7
<1>8. CASE \E c \in AgentConn : ServerSeesEnd(c) \/ CloseEvent(c)
  BY <1>5, <1>8
<1>9. CASE \E v \in Viewer : ViewerComes(v)
  BY <1>6, <1>9
<1> QED
  BY <1>2, <1>3, <1>7, <1>8, <1>9 DEF Next

\* What the server has read it has read, and a process that is over sends no
\* handshake.
LEMMA NoneComes ==
  ASSUME WireType, SP!TypeInv, A!Ended, [Next]_vars
  PROVE  Unread' \subseteq Unread
<1> USE DEF SP!TypeInv, SP!TypeOK
<1>1. UNCHANGED requested
  BY DEF Next, vars, wires, AgentStep, NewAttempt, PutInfo, PutFrame, Transmit, Internal,
     SelectWindow, HandshakeAnswered, AttemptFails, AgentSeesEnd, AgentReceives,
     ServerReceives, ServerAccepts, ServerSeesEnd, CloseEvent, ViewerSends, ViewerComes,
     Tick, A!Connect, A!Reconnect, A!MainAt, A!IOAt
<1>2. \A d \in Conn : ws'[d] = "idle" => ws[d] = "idle"
  <2>1. \A d \in Unread : ws[d] = "idle"
    BY DEF Unread
  <2> QED
    BY <2>1, ServerMoves DEF Conn
<1>3. requested \subseteq Conn
  BY DEF WireType, Conn
<1> QED
  BY <1>1, <1>2, <1>3 DEF Unread

LEMMA GoneStays ==
  ASSUME WireType, SP!TypeInv, AgentGone, [Next]_vars
  PROVE  AgentGone' \/ Unread' # Unread
<1> USE DEF SP!TypeInv, SP!TypeOK
<1>1. A!Ended'
  BY DEF AgentGone, Next, vars, agentVars, AgentStep, NewAttempt, PutInfo, PutFrame, Internal,
     SelectWindow, HandshakeAnswered, AttemptFails, AgentSeesEnd, AgentReceives,
     ServerReceives, ServerAccepts, ServerSeesEnd, CloseEvent, ViewerSends, ViewerComes, Tick,
     A!ReconnectThrows, A!Ended, A!MainAt, A!IOAt, A!Connect, A!Reconnect, A!PutInfo, A!PutFrame,
     A!ConnectThrows, A!LoadConnected, A!TestExpired, A!Wait, A!Capture, A!Idle, A!Close,
     A!Stop, A!Join, A!OpenStoreHandle, A!OpenStoreConnected, A!BackoffOver,
     A!RunOutOfWork, A!RunStopped, A!Exit, A!SelectWindow, A!OnOpen, A!OnFail, A!BeginClose,
     A!OnClose, A!ToggleFullscreen, A!CloseConnection, A!Dispatch, A!main, A!Goto
<1>2. ASSUME \A c \in Conn : role'[c] = "agent" => role[c] = "agent" /\ (S!Live(c)' => S!Live(c))
      PROVE  AgentGone'
  BY <1>1, <1>2 DEF AgentGone
<1>3. CASE UNCHANGED <<ws, role>>
  BY <1>2, <1>3 DEF S!Live
<1>4. ASSUME NEW c \in Unread, ws'[c] # "idle" PROVE Unread' # Unread
  <2>1. c \notin Unread'
    BY <1>4 DEF Unread
  <2> QED
    BY <2>1
<1>5. ASSUME NEW c \in AgentConn, ws[c] \in {"OPEN", "CLOSING"}, UNCHANGED role,
             ws' \in {[ws EXCEPT ![c] = "CLOSING"], [ws EXCEPT ![c] = "CLOSED"]}
      PROVE  AgentGone'
  <2>1. \A d \in Conn : S!Live(d)' => S!Live(d)
    BY <1>5 DEF S!Live, Conn
  <2> QED
    BY <1>2, <1>5, <2>1
<1>6. ASSUME NEW v \in Viewer, ws' = [ws EXCEPT ![v] = "OPEN"],
             role' = [role EXCEPT ![v] = "viewer"]
      PROVE  AgentGone'
  <2>1. \A d \in Conn : role'[d] = "agent" => role[d] = "agent" /\ (S!Live(d)' => S!Live(d))
    BY <1>6 DEF S!Live, Conn
  <2> QED
    BY <1>2, <2>1
<1> QED
  BY <1>3, <1>4, <1>5, <1>6, ServerMoves

\* Once the agent's process and its connections are gone, no viewer that can
\* be reached takes the agent for connected.  Only a handshake that was sent
\* before and is read afterwards can bring a connection back; none is sent
\* any more and each is read once, so that in the end the viewers know for
\* good: what is left of ViewersLearnOfExit is that the connections are gone
\* some day (main.cpp:234, index.js:132-153, 201-252).
THEOREM ExitIsFinal ==
  Spec => /\ [](AgentGone => ViewersKnow)
          /\ [][A!Ended => Unread' \subseteq Unread]_vars
          /\ [][AgentGone => AgentGone' \/ Unread' # Unread]_vars
<1>1. Spec => []SP!IInv
  BY ComponentsKept, SameServerSpec, ServerAssumed, SP!Invariance, PTL
<1>2. Spec => []SP!TypeInv
  BY ComponentsKept, ServerInvariance, PTL
<1>3. SP!IInv => (AgentGone => ViewersKnow)
  BY NobodyAnnounced
<1>4. WireType /\ SP!TypeInv /\ [Next]_vars => [A!Ended => Unread' \subseteq Unread]_vars
  BY NoneComes
<1>5. WireType /\ SP!TypeInv /\ [Next]_vars
        => [AgentGone => AgentGone' \/ Unread' # Unread]_vars
  BY GoneStays
<1> QED
  BY <1>1, <1>2, <1>3, <1>4, <1>5, WireInvariance, PTL DEF Spec
=============================================================================
