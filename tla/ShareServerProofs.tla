-------------------------- MODULE ShareServerProofs --------------------------
(***************************************************************************)
(* ShareServer's safety properties, proved for every set of connections,   *)
(* sessions and screens and every length of the run.                       *)
(***************************************************************************)
EXTENDS ShareServer, FiniteSetTheorems, TLAPS

-----------------------------------------------------------------------------
(* Types.                                                                  *)

\* What a handler relies on in its closure: the session it was registered
\* for and, if it is a viewer's, the viewer id.
Captured ==
  \A c \in Conn :
    /\ role[c] # "none" => obj[c] \in Conn /\ sid[c] \in SessionId
    /\ role[c] = "viewer" => viewerId[c] \in Millis

TypeInv == TypeOK /\ Captured

\* What a connection captures, and the map after it did, has its type.
LEMMA CaptureType ==
  ASSUME TypeInv, NEW c \in Conn, NEW s \in SessionId,
         NEW r \in {"none", "agent", "viewer"}, NEW id \in Millis \cup {None},
         r = "viewer" => id \in Millis,
         Capture(c, s, r, id)
  PROVE  /\ Captured'
         /\ SessionFor(c, s) \in Conn
         /\ role' \in [Conn -> {"none", "agent", "viewer"}]
         /\ sid' \in [Conn -> SessionId \cup {None}]
         /\ obj' \in [Conn -> Conn \cup {None}]
         /\ viewerId' \in [Conn -> Millis \cup {None}]
         /\ sessions' \in [SessionId -> Conn \cup {None}]
<1>1. SessionFor(c, s) \in Conn
  BY DEF SessionFor, TypeInv, TypeOK
<1> QED
  BY <1>1 DEF Capture, Captured, TypeInv, TypeOK

\* cleanupSessionIfEmpty leaves a map of the same type.
LEMMA CleanupType ==
  ASSUME TypeOK, NEW s, NEW a, NEW v
  PROVE  CleanupSessionIfEmpty(s, a, v) \in [SessionId -> Conn \cup {None}]
  BY DEF CleanupSessionIfEmpty, TypeOK

\* The counters stay integers.
LEMMA CountType ==
  ASSUME TypeOK, NEW t \in Int, NEW a \in Int, NEW g \in Int, NEW w \in Int,
         Count(t, a, g, w)
  PROVE  stats' \in [total : Int, active : Int, agents : Int, viewers : Int]
  BY DEF Count, TypeOK

\* Connecting keeps types.
LEMMA ConnectType ==
  ASSUME TypeInv, NEW c \in Conn, Connect(c)
  PROVE  TypeInv'
<1> USE DEF TypeInv, TypeOK
<1>1. CASE ConnectWithoutSession(c)
  <2>1. stats' \in [total : Int, active : Int, agents : Int, viewers : Int]
    BY <1>1, CountType DEF ConnectWithoutSession, CountRefused
  <2>2. TypeOK'
    BY <1>1, <2>1 DEF ConnectWithoutSession, Refused, NoRelay, closure, session
  <2>3. Captured'
    BY <1>1 DEF ConnectWithoutSession, closure, Captured
  <2> QED
    BY <2>2, <2>3
<1> DEFINE Types(s) == /\ SessionFor(c, s) \in Conn
                       /\ role' \in [Conn -> {"none", "agent", "viewer"}]
                       /\ sid' \in [Conn -> SessionId \cup {None}]
                       /\ obj' \in [Conn -> Conn \cup {None}]
                       /\ viewerId' \in [Conn -> Millis \cup {None}]
                       /\ sessions' \in [SessionId -> Conn \cup {None}]
<1>2. ASSUME NEW s \in SessionId,
             ConnectUnknownPath(c, s) \/ RefuseAgent(c, s)
      PROVE  TypeInv'
  <2>1. stats' \in [total : Int, active : Int, agents : Int, viewers : Int]
    BY <1>2, CountType DEF ConnectUnknownPath, RefuseAgent, CountRefused
  <2>2. Captured' /\ Types(s)
    BY <1>2, CaptureType DEF ConnectUnknownPath, RefuseAgent
  <2>3. ws' \in [Conn -> {"idle", "OPEN", "CLOSING", "CLOSED"}]
    BY <1>2, SMTT(30) DEF ConnectUnknownPath, RefuseAgent, Refused
  <2>4. /\ relay' = NoRelay
        /\ UNCHANGED <<session, now, status, scale, errored, superseded>>
    BY <1>2 DEF ConnectUnknownPath, RefuseAgent
  <2> QED
    BY <2>1, <2>2, <2>3, <2>4 DEF NoRelay, session
<1>3. ASSUME NEW s \in SessionId, AcceptAgent(c, s) PROVE TypeInv'
  <2>1. stats' \in [total : Int, active : Int, agents : Int, viewers : Int]
    BY <1>3, CountType DEF AcceptAgent
  <2>2. Captured' /\ Types(s)
    BY <1>3, CaptureType DEF AcceptAgent
  <2> QED
    BY <1>3, <2>1, <2>2, ZenonT(60) DEF AcceptAgent, Connected, Tell, NoRelay
<1>4. ASSUME NEW s \in SessionId, AcceptViewer(c, s) PROVE TypeInv'
  <2>1. stats' \in [total : Int, active : Int, agents : Int, viewers : Int]
    BY <1>4, CountType DEF AcceptViewer
  <2>2. Captured' /\ Types(s)
    BY <1>4, CaptureType DEF AcceptViewer
  <2>3. viewers' \in [Conn -> [Millis -> Conn \cup {None}]]
    BY <1>4, <2>2 DEF AcceptViewer
  <2> QED
    BY <1>4, <2>1, <2>2, <2>3 DEF AcceptViewer, Connected, Tell, NoRelay
<1> QED
  BY <1>1, <1>2, <1>3, <1>4 DEF Connect

\* Messages keep types; a scale is computed from two screens that are there.
LEMMA MessageType ==
  ASSUME TypeInv, NEW c \in Conn, Message(c)
  PROVE  TypeInv'
<1> USE DEF TypeInv
<1> DEFINE Scales == [Conn -> [agent : Screen, client : Screen] \cup {None}]
           Relays == [kind : {"none", "frame", "screen_info", "input"},
                      from : Conn \cup {None}, to : SUBSET Conn]
<1>1. ASSUME NEW scr \in Screen, AgentScreenInfo(c, scr) PROVE TypeInv'
  <2>1. ASSUME NEW S, S \subseteq {v \in Clients(obj[c]) : Open(v)} \ Unscalable(obj[c]),
               RescaleClients(S, scr)
        PROVE  scale' \in Scales
    <3>1. \A v \in S : v \in Conn /\ clientScreen[v] \in Screen
      BY <2>1 DEF Clients, Unscalable, TypeOK
    <3> QED
      BY <2>1, <3>1 DEF RescaleClients, Rescale, TypeOK
  <2>2. scale' \in Scales
    <3>1. CASE Unscalable(obj[c]) = {}
      BY <1>1, <2>1, <3>1 DEF AgentScreenInfo
    <3>2. CASE Unscalable(obj[c]) # {}
      BY <1>1, <2>1, <3>2 DEF AgentScreenInfo
    <3> QED
      BY <3>1, <3>2
  <2>3. relay' \in Relays
    BY <1>1 DEF AgentScreenInfo, NoRelay, OpenViewers, Registered
  <2>4. agentScreen' \in [Conn -> Screen \cup {None}]
    BY <1>1 DEF AgentScreenInfo, TypeOK
  <2>5. TypeOK'
    BY <1>1, <2>2, <2>3, <2>4 DEF AgentScreenInfo, closure, TypeOK
  <2>6. Captured'
    BY <1>1 DEF AgentScreenInfo, closure, Captured
  <2> QED
    BY <2>5, <2>6
<1>2. CASE AgentFrame(c)
  <2>1. relay' \in Relays
    BY <1>2 DEF AgentFrame, FrameReceivers, OpenViewers, Registered
  <2> QED
    BY <1>2, <2>1 DEF AgentFrame, closure, session, TypeOK, Captured
<1>3. ASSUME NEW scr \in ClientScreen, ViewerClientInfo(c, scr) PROVE TypeInv'
  <2>1. scr \in Screen \cup {Undefined}
    BY ServerAssumption
  <2>2. scale' \in Scales
    <3>1. CASE HasScale(c, scr)
      <4>1. obj[c] \in Conn
        BY <1>3 DEF ViewerClientInfo, Captured
      <4>2. scr \in Screen /\ agentScreen[obj[c]] \in Screen
        BY <3>1, <4>1, <2>1 DEF HasScale, TypeOK
      <4> QED
        BY <1>3, <3>1, <4>2 DEF ViewerClientInfo, TypeOK
    <3>2. CASE ~HasScale(c, scr)
      BY <1>3, <3>2 DEF ViewerClientInfo, TypeOK
    <3> QED
      BY <3>1, <3>2
  <2>3. relay' \in Relays
    BY <1>3 DEF ViewerClientInfo, NoRelay
  <2>4. clientScreen' \in [Conn -> Screen \cup {Undefined, None}]
    BY <1>3, <2>1 DEF ViewerClientInfo, TypeOK
  <2>5. TypeOK'
    BY <1>3, <2>2, <2>3, <2>4 DEF ViewerClientInfo, closure, TypeOK
  <2>6. Captured'
    BY <1>3 DEF ViewerClientInfo, closure, Captured
  <2> QED
    BY <2>5, <2>6
<1>4. CASE ViewerInput(c)
  <2>1. InputReceivers(c) \subseteq Conn
    BY <1>4 DEF ViewerInput, InputReceivers, Open, Captured, TypeOK
  <2>2. relay' \in Relays
    BY <1>4, <2>1 DEF ViewerInput
  <2> QED
    BY <1>4, <2>2 DEF ViewerInput, closure, session, TypeOK, Captured
<1> QED
  BY <1>1, <1>2, <1>3, <1>4 DEF Message

\* The handlers at the end of a connection keep types.
LEMMA EndType ==
  ASSUME TypeInv, NEW c \in Conn, End(c)
  PROVE  TypeInv'
<1> USE DEF TypeInv
<1>1. Captured'
  BY DEF End, CloseEvent, BeginClose, AgentError, ViewerError, AgentClose,
         ViewerClose, RefusedClose, closure, Captured
<1>2. CASE BeginClose(c) \/ RefusedClose(c)
  <2>1. /\ ws' \in [Conn -> {"idle", "OPEN", "CLOSING", "CLOSED"}]
        /\ relay' = NoRelay
        /\ UNCHANGED <<closure, sessions, session, stats, now, status, scale,
                       errored, superseded>>
    BY <1>2 DEF BeginClose, RefusedClose, TypeOK
  <2> QED
    BY <1>1, <2>1 DEF NoRelay, closure, session, TypeOK
<1>3. CASE AgentError(c)
  <2>1. stats' \in [total : Int, active : Int, agents : Int, viewers : Int]
    BY <1>3, CountType DEF AgentError
  <2> QED
    BY <1>1, <1>3, <2>1 DEF AgentError, NoRelay, closure, session, TypeOK
<1>4. CASE ViewerError(c)
  <2>1. stats' \in [total : Int, active : Int, agents : Int, viewers : Int]
    BY <1>4, CountType DEF ViewerError
  <2>2. /\ viewers' \in [Conn -> [Millis -> Conn \cup {None}]]
        /\ clientScreen' \in [Conn -> Screen \cup {Undefined, None}]
    BY <1>4 DEF ViewerError, Captured, TypeOK
  <2> QED
    BY <1>1, <1>4, <2>1, <2>2 DEF ViewerError, NoRelay, closure, TypeOK
<1>5. CASE AgentClose(c)
  <2>1. stats' \in [total : Int, active : Int, agents : Int, viewers : Int]
    BY <1>5, CountType DEF AgentClose
  <2>2. sessions' \in [SessionId -> Conn \cup {None}]
    BY <1>5, CleanupType DEF AgentClose
  <2>3. agent' \in [Conn -> Conn \cup {None}]
    BY <1>5 DEF AgentClose, SlotEmptied, TypeOK
  <2>4. status' \in [Conn -> {"none", "up", "down"}]
    BY <1>5 DEF AgentClose, Tell, TypeOK
  <2> QED
    BY <1>1, <1>5, <2>1, <2>2, <2>3, <2>4 DEF AgentClose, NoRelay, closure, TypeOK
<1>6. CASE ViewerClose(c)
  <2>1. stats' \in [total : Int, active : Int, agents : Int, viewers : Int]
    BY <1>6, CountType DEF ViewerClose
  <2>2. sessions' \in [SessionId -> Conn \cup {None}]
    BY <1>6, CleanupType DEF ViewerClose
  <2>3. /\ viewers' \in [Conn -> [Millis -> Conn \cup {None}]]
        /\ clientScreen' \in [Conn -> Screen \cup {Undefined, None}]
    BY <1>6 DEF ViewerClose, EntryDeleted, Captured, TypeOK
  <2> QED
    BY <1>1, <1>6, <2>1, <2>2, <2>3 DEF ViewerClose, NoRelay, closure, TypeOK
<1> QED
  BY <1>2, <1>3, <1>4, <1>5, <1>6 DEF End, CloseEvent

\* Every handler keeps the types, and a connection whose handlers it registers
\* has captured a session and, if it is a viewer's, an id.
LEMMA TypeInvariant == Spec => []TypeInv
<1>1. Init => TypeInv
  <2>1. Init => TypeOK
    BY ServerAssumption DEF Init, TypeOK, NoRelay, Millis
  <2>2. Init => Captured
    BY DEF Init, Captured
  <2> QED
    BY <2>1, <2>2 DEF TypeInv
<1>2. TypeInv /\ [Next]_vars => TypeInv'
  <2> SUFFICES ASSUME TypeInv, [Next]_vars PROVE TypeInv'
    OBVIOUS
  <2>1. CASE Tick
    <3>1. now' \in Millis
      BY <2>1, ServerAssumption DEF Tick, Millis, TypeInv, TypeOK
    <3> QED
      BY <2>1, <3>1 DEF Tick, NoRelay, closure, session, TypeInv, TypeOK, Captured
  <2>2. CASE UNCHANGED vars
    BY <2>2 DEF vars, closure, session, TypeInv, TypeOK, Captured
  <2> QED
    BY <2>1, <2>2, ConnectType, MessageType, EndType DEF Next
<1> QED
  BY <1>1, <1>2, PTL DEF Spec

\* Every state of the server has its type, and no handler uses a session or a
\* viewer id it did not capture.
THEOREM TypeCorrect == Spec => []TypeOK
<1>1. TypeInv => TypeOK
  BY DEF TypeInv
<1> QED
  BY <1>1, TypeInvariant, PTL

-----------------------------------------------------------------------------
(* The registry.                                                           *)

\* Nothing is known of a connection before it connects, and no object is
\* named by it.
Fresh ==
  \A c \in Conn : ws[c] = "idle" =>
    /\ role[c] = "none" /\ sid[c] = None /\ obj[c] = None
    /\ \A d \in Conn : obj[d] # c

RInv == TypeInv /\ Fresh /\ RegistryConsistent

\* Time and messages leave the registry alone, and so they leave the status.
LEMMA QuietStep ==
  ASSUME Tick \/ (\E c \in Conn : Message(c)) \/ UNCHANGED vars
  PROVE  UNCHANGED <<ws, role, sid, obj, viewerId, sessions, agent, viewers,
                     superseded, status>>
  BY DEF Tick, Message, AgentScreenInfo, AgentFrame, ViewerClientInfo, ViewerInput,
         vars, closure, session

\* The object a newcomer finds under its id is there under that id, or the
\* newcomer's own.
LEMMA FoundObject ==
  ASSUME RInv, NEW c \in Conn, NEW s \in SessionId, ws[c] = "idle"
  PROVE  LET o == SessionFor(c, s) IN
         /\ o \in Conn
         /\ o # c => sid[o] = s /\ sessions[s] = o
         /\ o = c => sessions[s] = None
         /\ \A t \in SessionId : sessions[t] # c
<1>1. \A t \in SessionId : sessions[t] # c
  BY ServerAssumption DEF RInv, Fresh, RegistryConsistent, ObjectsKnown
<1> QED
  BY <1>1 DEF SessionFor, RInv, TypeInv, TypeOK, RegistryConsistent, ObjectsKnown

\* The cleanup removes the session of id s or nothing.
LEMMA CleanupEffect ==
  ASSUME TypeInv, NEW s, NEW a, NEW v
  PROVE  \A t \in SessionId :
           LET m == CleanupSessionIfEmpty(s, a, v) IN
           /\ m[t] = sessions[t] \/ m[t] = None
           /\ m[t] # sessions[t] =>
                /\ t = s /\ a[sessions[t]] = None
                /\ \A k \in Millis : v[sessions[t]][k] = None
  BY DEF CleanupSessionIfEmpty, TypeInv, TypeOK

\* Every handler keeps what the registry refers to alive, and nothing of the
\* registry refers to a connection yet to come.
LEMMA RegistryStep ==
  ASSUME RInv, TypeInv', [Next]_vars
  PROVE  RInv'
<1> USE DEF RInv, TypeInv, TypeOK
<1>1. CASE Tick \/ (\E c \in Conn : Message(c)) \/ UNCHANGED vars
  BY <1>1, QuietStep DEF ObjectsKnown, AgentsKnown, ViewersKnown, Fresh, RegistryConsistent, Live
<1>2. ASSUME NEW c \in Conn, Connect(c) PROVE RInv'
  <2>1. CASE ConnectWithoutSession(c)
    BY <2>1 DEF ConnectWithoutSession, Refused, closure, session, Fresh, Live,
                RegistryConsistent, ObjectsKnown, AgentsKnown, ViewersKnown
  <2>2. ASSUME NEW s \in SessionId,
               \/ ConnectUnknownPath(c, s)
               \/ RefuseAgent(c, s)
               \/ AcceptAgent(c, s)
               \/ AcceptViewer(c, s)
        PROVE  RInv'
    <3> DEFINE o == SessionFor(c, s)
    <3>1. /\ ws[c] = "idle"
          /\ ws' \in {[ws EXCEPT ![c] = "OPEN"], [ws EXCEPT ![c] = "CLOSING"]}
          /\ sid' = [sid EXCEPT ![c] = s]
          /\ obj' = [obj EXCEPT ![c] = o]
          /\ sessions' = [sessions EXCEPT ![s] = o]
          /\ \A d \in Conn : d # c => role'[d] = role[d] /\ viewerId'[d] = viewerId[d]
      BY <2>2 DEF ConnectUnknownPath, RefuseAgent, AcceptAgent, AcceptViewer,
                  Refused, Connected, Capture
    <3>2. /\ o \in Conn
          /\ o # c => sid[o] = s /\ sessions[s] = o
          /\ o = c => sessions[s] = None
          /\ \A t \in SessionId : sessions[t] # c
      BY <3>1, FoundObject
    <3>3. \A d \in Conn : obj[d] # c /\ agent[d] # c /\ \A k \in Millis : viewers[d][k] # c
      BY <3>1 DEF Fresh, RegistryConsistent, AgentsKnown, ViewersKnown, Live
    <3> HIDE DEF o
    <3>4. Fresh'
      <4>1. ws[o] # "idle" \/ o = c
        BY <3>2, ServerAssumption DEF Fresh
      <4> QED
        BY <3>1, <3>2, <3>3, <4>1 DEF Fresh
    <3>5. ObjectsKnown'
      BY <3>1, <3>2, <3>3 DEF ObjectsKnown, RegistryConsistent
    <3>6. \A d \in Conn : Live(d) => /\ Live(d)' /\ role'[d] = role[d] /\ obj'[d] = obj[d]
                                    /\ viewerId'[d] = viewerId[d]
      BY <3>1 DEF Live
    <3>7. AgentsKnown'
      <4>1. CASE AcceptAgent(c, s)
        <5>1. agent' = [agent EXCEPT ![o] = c] /\ role'[c] = "agent" /\ ws'[c] = "OPEN"
          BY <4>1 DEF AcceptAgent, Capture, Connected, o
        <5> QED
          BY <3>1, <3>6, <5>1 DEF AgentsKnown, RegistryConsistent, Live
      <4>2. CASE agent' = agent
        BY <3>6, <4>2 DEF AgentsKnown, RegistryConsistent
      <4> QED
        BY <2>2, <4>1, <4>2 DEF ConnectUnknownPath, RefuseAgent, AcceptViewer, session
    <3>8. ViewersKnown'
      <4>1. CASE AcceptViewer(c, s)
        <5>1. /\ viewers' = [viewers EXCEPT ![o][now] = c]
              /\ role'[c] = "viewer" /\ ws'[c] = "OPEN" /\ viewerId'[c] = now
          BY <4>1 DEF AcceptViewer, Capture, Connected, o
        <5> QED
          BY <3>1, <3>6, <5>1 DEF ViewersKnown, RegistryConsistent, Live
      <4>2. CASE viewers' = viewers
        BY <3>6, <4>2 DEF ViewersKnown, RegistryConsistent
      <4> QED
        BY <2>2, <4>1, <4>2 DEF ConnectUnknownPath, RefuseAgent, AcceptAgent, session
    <3> QED
      BY <3>4, <3>5, <3>7, <3>8 DEF RegistryConsistent
  <2> QED
    BY <1>2, <2>1, <2>2 DEF Connect
<1>3. ASSUME NEW c \in Conn, End(c) PROVE RInv'
  <2>1. /\ ws[c] # "idle" /\ ws'[c] # "idle"
        /\ UNCHANGED closure
        /\ \A d \in Conn : d # c => ws'[d] = ws[d]
    BY <1>3 DEF End, BeginClose, AgentError, ViewerError, CloseEvent, AgentClose,
                ViewerClose, RefusedClose, Open
  <2>2. Fresh'
    BY <2>1 DEF Fresh, closure
  <2>3. \A t \in SessionId : sessions'[t] = sessions[t] \/ sessions'[t] = None
    BY <1>3, CleanupEffect
    DEF End, BeginClose, AgentError, ViewerError, CloseEvent, AgentClose,
        ViewerClose, RefusedClose
  <2>4. ObjectsKnown'
    BY <2>1, <2>3 DEF ObjectsKnown, RegistryConsistent, closure
  <2>5. role' = role /\ obj' = obj /\ viewerId' = viewerId
    BY <2>1 DEF closure
  <2>6. \A d \in Conn : Live(d) /\ (d # c \/ ws'[c] = "CLOSING") => Live(d)'
    BY <2>1, <2>5 DEF Live
  <2>7. AgentsKnown'
    <3>1. CASE AgentClose(c)
      BY <3>1, <2>5, <2>6 DEF AgentClose, SlotEmptied, AgentsKnown, RegistryConsistent
    <3>2. CASE agent' = agent /\ role[c] # "agent"
      BY <3>2, <2>5, <2>6 DEF AgentsKnown, RegistryConsistent
    <3>3. CASE agent' = agent /\ ws'[c] = "CLOSING"
      BY <3>3, <2>5, <2>6 DEF AgentsKnown, RegistryConsistent
    <3> QED
      BY <1>3, <3>1, <3>2, <3>3
      DEF End, BeginClose, AgentError, ViewerError, CloseEvent, ViewerClose,
          RefusedClose, session
  <2>8. ViewersKnown'
    <3>1. CASE ViewerClose(c) \/ ViewerError(c)
      <4>1. viewers' = [viewers EXCEPT ![obj[c]][viewerId[c]] = None]
        BY <3>1 DEF ViewerClose, ViewerError, EntryDeleted
      <4>2. obj[c] \in Conn /\ viewerId[c] \in Millis
        BY <3>1 DEF ViewerClose, ViewerError, Captured
      <4> QED
        BY <4>1, <4>2, <2>5, <2>6 DEF ViewersKnown, RegistryConsistent
    <3>2. CASE viewers' = viewers /\ role[c] # "viewer"
      BY <3>2, <2>5, <2>6 DEF ViewersKnown, RegistryConsistent
    <3>3. CASE viewers' = viewers /\ ws'[c] = "CLOSING"
      BY <3>3, <2>5, <2>6 DEF ViewersKnown, RegistryConsistent
    <3> QED
      BY <1>3, <3>1, <3>2, <3>3
      DEF End, BeginClose, AgentError, CloseEvent, AgentClose, RefusedClose, session
  <2> QED
    BY <2>2, <2>4, <2>7, <2>8 DEF RegistryConsistent
<1> QED
  BY <1>1, <1>2, <1>3 DEF Next

\* The registry holds live connections only, each in the object it captured.
THEOREM RegistryCorrect == Spec => []RegistryConsistent
<1>1. Init => RInv
  <2>1. Init => Fresh /\ RegistryConsistent
    BY ServerAssumption
    DEF Init, Fresh, RegistryConsistent, ObjectsKnown, AgentsKnown, ViewersKnown
  <2>2. Init => TypeInv
    BY ServerAssumption DEF Init, TypeInv, TypeOK, Captured, NoRelay, Millis
  <2> QED
    BY <2>1, <2>2 DEF RInv
<1>2. RInv /\ TypeInv' /\ [Next]_vars => RInv'
  BY RegistryStep
<1>3. RInv => RegistryConsistent
  BY DEF RInv
<1> QED
  BY <1>1, <1>2, <1>3, TypeInvariant, PTL DEF Spec

-----------------------------------------------------------------------------
(* Reachability.                                                           *)

\* A live agent of an object in which no agent was replaced early holds the
\* slot, and the map has the object.  For the OPEN ones this is
\* AgentReachable; the closing ones are what makes it inductive: their
\* 'close' event would empty the slot of an OPEN one.
Held ==
  \A a \in Conn : Live(a) /\ role[a] = "agent" /\ Undisturbed(obj[a]) =>
    agent[obj[a]] = a /\ sessions[sid[a]] = obj[a]

\* An OPEN viewer with an id of its own has its entry, and the map has the
\* object.
Entered ==
  \A v \in Conn : Open(v) /\ role[v] = "viewer" /\ UniqueId(v) =>
    viewers[obj[v]][viewerId[v]] = v /\ sessions[sid[v]] = obj[v]

IInv == RInv /\ Held /\ Entered /\ StatusAgrees /\ NoEmptySession

\* An object in the map stays in it when somebody connects.
LEMMA ObjectStays ==
  ASSUME TypeInv, NEW c \in Conn, NEW s \in SessionId, NEW t \in SessionId,
         sessions' = [sessions EXCEPT ![s] = SessionFor(c, s)],
         sessions[t] # None
  PROVE  sessions'[t] = sessions[t]
  BY DEF SessionFor, TypeInv, TypeOK

\* A connection that was there before c connected keeps its closure, and it is
\* undisturbed and alone with its id only if it was so before.
LEMMA OthersKeep ==
  ASSUME RInv, NEW c \in Conn, NEW s \in SessionId, ws[c] = "idle",
         \/ ConnectUnknownPath(c, s)
         \/ RefuseAgent(c, s)
         \/ AcceptAgent(c, s)
         \/ AcceptViewer(c, s)
  PROVE  /\ \A d \in Conn \ {c} :
              /\ ws'[d] = ws[d] /\ role'[d] = role[d] /\ sid'[d] = sid[d]
              /\ obj'[d] = obj[d] /\ viewerId'[d] = viewerId[d]
              /\ UniqueId(d)' => UniqueId(d)
              /\ obj[d] # None /\ Undisturbed(obj[d])' => Undisturbed(obj[d])
<1> USE DEF RInv, TypeInv, TypeOK
<1>1. \A d \in Conn \ {c} :
        /\ ws'[d] = ws[d] /\ role'[d] = role[d] /\ sid'[d] = sid[d]
        /\ obj'[d] = obj[d] /\ viewerId'[d] = viewerId[d]
  BY DEF ConnectUnknownPath, RefuseAgent, AcceptAgent, AcceptViewer, Refused,
         Connected, Capture
<1>2. role[c] = "none"
  BY DEF Fresh
<1>3. \A d \in Conn \ {c} : UniqueId(d)' => UniqueId(d)
  BY <1>1, <1>2, ZenonT(60) DEF UniqueId
<1>4. superseded \subseteq superseded'
  BY DEF ConnectUnknownPath, RefuseAgent, AcceptAgent, AcceptViewer
<1>5. obj[c] = None
  BY DEF Fresh
<1>6. ASSUME NEW d \in Conn \ {c}, obj[d] # None, Undisturbed(obj[d])'
      PROVE  Undisturbed(obj[d])
  <2> SUFFICES ASSUME NEW b \in superseded, obj[b] = obj[d] PROVE FALSE
    BY DEF Undisturbed
  <2>1. b \in Conn \ {c} /\ b \in superseded'
    BY <1>4, <1>5, <1>6
  <2>2. obj'[b] = obj'[d]
    BY <1>1, <2>1
  <2> QED
    BY <1>6, <2>1, <2>2 DEF Undisturbed
<1> QED
  BY <1>1, <1>3, <1>6

\* Every handler leaves an undisturbed agent, closing ones included, in the slot
\* of the session that newcomers find.
LEMMA HeldStep ==
  ASSUME RInv, RInv', Held, [Next]_vars
  PROVE  Held'
<1> USE DEF RInv, TypeInv, TypeOK
<1>1. CASE Tick \/ (\E c \in Conn : Message(c)) \/ UNCHANGED vars
  <2>1. UNCHANGED <<ws, role, sid, obj, sessions, agent, superseded>>
    BY <1>1, QuietStep
  <2>2. \A a \in Conn : Live(a)' = Live(a) /\ Undisturbed(obj[a])' = Undisturbed(obj[a])
    BY <2>1 DEF Live, Undisturbed
  <2> QED
    BY <2>1, <2>2 DEF Held
<1>2. ASSUME NEW c \in Conn, Connect(c) PROVE Held'
  <2>1. CASE ConnectWithoutSession(c)
    <3>1. role[c] = "none"
      BY <2>1 DEF ConnectWithoutSession, Fresh
    <3> QED
      BY <2>1, <3>1 DEF ConnectWithoutSession, Refused, closure, session, Held,
                        Live, Undisturbed
  <2>2. ASSUME NEW s \in SessionId,
               \/ ConnectUnknownPath(c, s)
               \/ RefuseAgent(c, s)
               \/ AcceptAgent(c, s)
               \/ AcceptViewer(c, s),
               NEW a \in Conn, Live(a)', role'[a] = "agent", Undisturbed(obj[a])'
        PROVE  agent'[obj'[a]] = a /\ sessions'[sid'[a]] = obj'[a]
    <3> DEFINE o == SessionFor(c, s)
    <3>1. ws[c] = "idle" /\ sessions' = [sessions EXCEPT ![s] = o]
      BY <2>2 DEF ConnectUnknownPath, RefuseAgent, AcceptAgent, AcceptViewer, Capture
    <3>2. o \in Conn
      BY <3>1, FoundObject
    <3>3. CASE a = c
      <4>1. AcceptAgent(c, s)
        BY <2>2, <3>3
        DEF ConnectUnknownPath, RefuseAgent, AcceptViewer, Capture
      <4> QED
        BY <3>2, <3>3, <4>1 DEF AcceptAgent, Capture
    <3>4. CASE a # c
      <4>1. /\ Live(a) /\ role[a] = "agent" /\ Undisturbed(obj[a])
            /\ obj'[a] = obj[a] /\ sid'[a] = sid[a]
            /\ obj[a] \in Conn /\ sid[a] \in SessionId
        <5>1. /\ ws'[a] = ws[a] /\ role'[a] = role[a]
              /\ obj'[a] = obj[a] /\ sid'[a] = sid[a]
          BY <2>2, <3>1, <3>4, OthersKeep
        <5>2. Live(a) /\ role[a] = "agent" /\ obj[a] \in Conn /\ sid[a] \in SessionId
          BY <2>2, <5>1 DEF Live, Captured
        <5>3. Undisturbed(obj[a])
          BY <2>2, <3>1, <3>4, <5>2, OthersKeep, ServerAssumption
        <5> QED
          BY <5>1, <5>2, <5>3
      <4>2. agent[obj[a]] = a /\ sessions[sid[a]] = obj[a]
        BY <4>1 DEF Held
      <4>3. sessions'[sid[a]] = obj[a]
        <5>1. sessions[sid[a]] # None
          BY <4>1, <4>2, ServerAssumption
        <5> QED
          BY <3>1, <4>1, <4>2, <5>1, ObjectStays, ZenonT(60)
      <4>4. agent'[obj[a]] = a
        <5>1. CASE AcceptAgent(c, s) /\ o = obj[a]
          <6>1. superseded' = superseded \cup {a}
            BY <4>2, <5>1, ServerAssumption DEF AcceptAgent
          <6> QED
            BY <2>2, <4>1, <6>1 DEF Undisturbed
        <5>2. CASE AcceptAgent(c, s) /\ o # obj[a]
          BY <3>2, <4>1, <4>2, <5>2 DEF AcceptAgent
        <5>3. CASE agent' = agent
          BY <4>2, <5>3
        <5> QED
          BY <2>2, <5>1, <5>2, <5>3
          DEF ConnectUnknownPath, RefuseAgent, AcceptViewer, session
      <4> QED
        BY <4>1, <4>3, <4>4
    <3> QED
      BY <3>3, <3>4
  <2> QED
    BY <1>2, <2>1, <2>2 DEF Connect, Held
<1>3. ASSUME NEW c \in Conn, End(c),
             NEW a \in Conn, Live(a)', role'[a] = "agent", Undisturbed(obj[a])'
      PROVE  agent'[obj'[a]] = a /\ sessions'[sid'[a]] = obj'[a]
  <2>1. UNCHANGED <<closure, superseded>>
    BY <1>3 DEF End, BeginClose, AgentError, ViewerError, CloseEvent, AgentClose,
                ViewerClose, RefusedClose
  <2>2. Live(a) /\ role[a] = "agent" /\ Undisturbed(obj[a])
    <3>1. ws'[a] = ws[a] \/ ws[a] = "OPEN" \/ ws'[a] = "CLOSED"
      BY <1>3 DEF End, BeginClose, AgentError, ViewerError, CloseEvent, AgentClose,
                  ViewerClose, RefusedClose, Open
    <3> QED
      BY <1>3, <2>1, <3>1 DEF closure, Live, Undisturbed
  <2>3. /\ agent[obj[a]] = a /\ sessions[sid[a]] = obj[a]
        /\ obj[a] \in Conn /\ sid[a] \in SessionId
    BY <2>2 DEF Held, Live, Captured
  <2>4. agent'[obj[a]] = a
    <3>1. CASE AgentClose(c)
      <4>1. a # c
        BY <1>3, <3>1 DEF AgentClose, Live
      <4>2. Live(c) /\ role[c] = "agent"
        BY <3>1 DEF AgentClose, Live
      <4>3. obj[c] # obj[a]
        BY <2>2, <2>3, <4>1, <4>2 DEF Held
      <4> QED
        BY <2>3, <3>1, <4>3 DEF AgentClose, SlotEmptied
    <3>2. CASE agent' = agent
      BY <2>3, <3>2
    <3> QED
      BY <1>3, <3>1, <3>2
      DEF End, BeginClose, AgentError, ViewerError, CloseEvent, ViewerClose,
          RefusedClose, session
  <2>5. sessions'[sid[a]] = obj[a]
    <3>1. CASE sessions' = sessions
      BY <2>3, <3>1
    <3>2. CASE AgentClose(c) \/ ViewerClose(c)
      <4>1. \/ sessions' = CleanupSessionIfEmpty(sid[c], agent', viewers)
            \/ sessions' = CleanupSessionIfEmpty(sid[c], agent', viewers')
        BY <3>2 DEF AgentClose, ViewerClose
      <4>2. agent'[sessions[sid[a]]] # None
        BY <2>3, <2>4, ServerAssumption
      <4> QED
        BY <2>3, <4>1, <4>2, CleanupEffect
    <3> QED
      BY <1>3, <3>1, <3>2
      DEF End, BeginClose, AgentError, ViewerError, CloseEvent, RefusedClose
  <2> QED
    BY <2>1, <2>4, <2>5 DEF closure
<1> QED
  BY <1>1, <1>2, <1>3 DEF Next, Held

\* Every handler leaves the entry of a viewer with an id of its own where the
\* viewer's own 'close' event will look for it.
LEMMA EnteredStep ==
  ASSUME RInv, RInv', Entered, [Next]_vars
  PROVE  Entered'
<1> USE DEF RInv, TypeInv, TypeOK
<1>1. CASE Tick \/ (\E c \in Conn : Message(c)) \/ UNCHANGED vars
  <2>1. UNCHANGED <<ws, role, sid, obj, viewerId, sessions, viewers>>
    BY <1>1, QuietStep
  <2>2. \A v \in Conn : Open(v)' = Open(v) /\ UniqueId(v)' = UniqueId(v)
    BY <2>1 DEF Open, UniqueId
  <2> QED
    BY <2>1, <2>2 DEF Entered
<1>2. ASSUME NEW c \in Conn, Connect(c) PROVE Entered'
  <2>1. CASE ConnectWithoutSession(c)
    <3>1. role[c] = "none"
      BY <2>1 DEF ConnectWithoutSession, Fresh
    <3>2. /\ UNCHANGED <<role, sid, obj, viewerId, sessions, viewers>>
          /\ \A d \in Conn \ {c} : ws'[d] = ws[d]
      BY <2>1 DEF ConnectWithoutSession, Refused, closure, session
    <3>3. \A v \in Conn : UniqueId(v)' = UniqueId(v)
      BY <3>2 DEF UniqueId
    <3> QED
      BY <3>1, <3>2, <3>3 DEF Entered, Open
  <2>2. ASSUME NEW s \in SessionId,
               \/ ConnectUnknownPath(c, s)
               \/ RefuseAgent(c, s)
               \/ AcceptAgent(c, s)
               \/ AcceptViewer(c, s),
               NEW v \in Conn, Open(v)', role'[v] = "viewer", UniqueId(v)'
        PROVE  viewers'[obj'[v]][viewerId'[v]] = v /\ sessions'[sid'[v]] = obj'[v]
    <3> DEFINE o == SessionFor(c, s)
    <3>1. ws[c] = "idle" /\ sessions' = [sessions EXCEPT ![s] = o]
      BY <2>2 DEF ConnectUnknownPath, RefuseAgent, AcceptAgent, AcceptViewer, Capture
    <3>2. o \in Conn
      BY <3>1, FoundObject
    <3>3. CASE v = c
      <4>1. AcceptViewer(c, s)
        BY <2>2, <3>3
        DEF ConnectUnknownPath, RefuseAgent, AcceptAgent, Capture
      <4> QED
        BY <3>2, <3>3, <4>1 DEF AcceptViewer, Capture
    <3>4. CASE v # c
      <4>1. /\ ws'[v] = ws[v] /\ role'[v] = role[v] /\ sid'[v] = sid[v]
            /\ obj'[v] = obj[v] /\ viewerId'[v] = viewerId[v] /\ UniqueId(v)
        BY <2>2, <3>1, <3>4, OthersKeep
      <4>2. /\ viewers[obj[v]][viewerId[v]] = v /\ sessions[sid[v]] = obj[v]
            /\ obj[v] \in Conn /\ sid[v] \in SessionId /\ viewerId[v] \in Millis
        BY <2>2, <4>1 DEF Entered, Open, Captured
      <4>3. sessions'[sid[v]] = obj[v]
        <5>1. sessions[sid[v]] # None
          BY <4>2, ServerAssumption
        <5> QED
          BY <3>1, <4>2, <5>1, ObjectStays, ZenonT(60)
      <4>4. viewers'[obj[v]][viewerId[v]] = v
        <5>1. CASE AcceptViewer(c, s)
          <6>1. /\ role'[c] = "viewer" /\ obj'[c] = o /\ viewerId'[c] = now
                /\ viewers' = [viewers EXCEPT ![o][now] = c]
            BY <5>1 DEF AcceptViewer, Capture
          <6>2. o # obj[v] \/ now # viewerId[v]
            BY <2>2, <3>4, <4>1, <6>1 DEF UniqueId
          <6> QED
            BY <3>2, <4>2, <6>1, <6>2
        <5>2. CASE viewers' = viewers
          BY <4>2, <5>2
        <5> QED
          BY <2>2, <5>1, <5>2
          DEF ConnectUnknownPath, RefuseAgent, AcceptAgent, session
      <4> QED
        BY <4>1, <4>3, <4>4
    <3> QED
      BY <3>3, <3>4
  <2> QED
    BY <1>2, <2>1, <2>2 DEF Connect, Entered
<1>3. ASSUME NEW c \in Conn, End(c),
             NEW v \in Conn, Open(v)', role'[v] = "viewer", UniqueId(v)'
      PROVE  viewers'[obj'[v]][viewerId'[v]] = v /\ sessions'[sid'[v]] = obj'[v]
  <2>1. UNCHANGED closure
    BY <1>3 DEF End, BeginClose, AgentError, ViewerError, CloseEvent, AgentClose,
                ViewerClose, RefusedClose
  <2>2. v # c /\ ws'[v] = ws[v]
    BY <1>3 DEF End, BeginClose, AgentError, ViewerError, CloseEvent, AgentClose,
                ViewerClose, RefusedClose, Open
  <2>3. Open(v) /\ role[v] = "viewer" /\ UniqueId(v)
    BY <1>3, <2>1, <2>2 DEF closure, Open, UniqueId
  <2>4. /\ viewers[obj[v]][viewerId[v]] = v /\ sessions[sid[v]] = obj[v]
        /\ obj[v] \in Conn /\ sid[v] \in SessionId /\ viewerId[v] \in Millis
    BY <2>3 DEF Entered, Captured
  <2>5. viewers'[obj[v]][viewerId[v]] = v
    <3>1. CASE ViewerClose(c) \/ ViewerError(c)
      <4>1. /\ viewers' = [viewers EXCEPT ![obj[c]][viewerId[c]] = None]
            /\ role[c] = "viewer"
        BY <3>1 DEF ViewerClose, ViewerError, EntryDeleted
      <4>2. obj[c] \in Conn /\ viewerId[c] \in Millis
        BY <4>1 DEF Captured
      <4>3. obj[c] # obj[v] \/ viewerId[c] # viewerId[v]
        BY <2>2, <2>3, <4>1 DEF UniqueId
      <4> QED
        BY <2>4, <4>1, <4>2, <4>3
    <3>2. CASE viewers' = viewers
      BY <2>4, <3>2
    <3> QED
      BY <1>3, <3>1, <3>2
      DEF End, BeginClose, AgentError, CloseEvent, AgentClose, RefusedClose, session
  <2>6. sessions'[sid[v]] = obj[v]
    <3>1. CASE sessions' = sessions
      BY <2>4, <3>1
    <3>2. CASE AgentClose(c) \/ ViewerClose(c)
      <4>1. \/ sessions' = CleanupSessionIfEmpty(sid[c], agent', viewers')
            \/ sessions' = CleanupSessionIfEmpty(sid[c], agent, viewers')
        BY <3>2 DEF AgentClose, ViewerClose
      <4>2. viewers'[sessions[sid[v]]][viewerId[v]] # None
        BY <2>4, <2>5, ServerAssumption
      <4> QED
        BY <2>4, <4>1, <4>2, CleanupEffect
    <3> QED
      BY <1>3, <3>1, <3>2
      DEF End, BeginClose, AgentError, ViewerError, CloseEvent, RefusedClose
  <2> QED
    BY <2>1, <2>5, <2>6 DEF closure
<1> QED
  BY <1>1, <1>2, <1>3 DEF Next, Entered

\* A step that opens nothing, registers nobody and tells nobody keeps every
\* viewer's status right.
LEMMA StatusKept ==
  ASSUME TypeInv, TypeInv', StatusAgrees, agent' = agent, status' = status,
         \A c \in Conn : Open(c)' => Open(c),
         \A o \in Conn, k \in Millis : viewers'[o][k] \in {viewers[o][k], None}
  PROVE  StatusAgrees'
<1> USE DEF TypeInv, TypeOK
<1>1. SUFFICES ASSUME NEW o \in Conn, NEW v \in OpenViewers(o)'
               PROVE  /\ Open(agent[o])' => status'[v] = "up"
                      /\ status'[v] = "up" => agent'[o] # None
  BY DEF StatusAgrees
<1>2. PICK k \in Millis : viewers'[o][k] = v /\ v \in Conn /\ Open(v)'
  BY DEF OpenViewers, Registered
<1>3. v \in OpenViewers(o)
  BY <1>2, ServerAssumption DEF OpenViewers, Registered
<1>4. Open(agent[o])' => Open(agent[o])
  BY DEF Open
<1> QED
  BY <1>3, <1>4 DEF StatusAgrees

\* An object in which a viewer is registered is the one it captured.
LEMMA RegisteredOnce ==
  ASSUME RInv, NEW o \in Conn, NEW v \in Registered(o)
  PROVE  /\ v \in Conn /\ obj[v] = o /\ role[v] = "viewer" /\ Live(v)
         /\ viewerId[v] \in Millis /\ viewers[o][viewerId[v]] = v
  BY ServerAssumption DEF Registered, RInv, RegistryConsistent, ViewersKnown

\* Every handler tells the viewers of each change of the agent slot that their
\* status depends on.
LEMMA StatusStep ==
  ASSUME RInv, RInv', StatusAgrees, [Next]_vars
  PROVE  StatusAgrees'
<1> USE DEF RInv, TypeInv
<1>1. CASE Tick \/ (\E c \in Conn : Message(c)) \/ UNCHANGED vars
  <2>1. UNCHANGED <<ws, agent, viewers, status>>
    BY <1>1, QuietStep
  <2> QED
    BY <2>1 DEF StatusAgrees, OpenViewers, Registered, Open
<1>2. ASSUME NEW c \in Conn,
             \/ ConnectWithoutSession(c)
             \/ \E s \in SessionId : ConnectUnknownPath(c, s) \/ RefuseAgent(c, s)
             \/ BeginClose(c) \/ AgentError(c) \/ ViewerError(c)
             \/ ViewerClose(c) \/ RefusedClose(c)
      PROVE  StatusAgrees'
  <2>1. agent' = agent /\ status' = status
    BY <1>2 DEF ConnectWithoutSession, ConnectUnknownPath, RefuseAgent, BeginClose,
                AgentError, ViewerError, ViewerClose, RefusedClose, session
  <2>2. \A d \in Conn : Open(d)' => Open(d)
    <3>1. \A d \in Conn : ws'[d] = ws[d] \/ ws'[d] # "OPEN"
      BY <1>2 DEF ConnectWithoutSession, ConnectUnknownPath, RefuseAgent, BeginClose,
                  AgentError, ViewerError, ViewerClose, RefusedClose, Refused, TypeOK
    <3> QED
      BY <3>1 DEF Open
  <2>3. \A o \in Conn, k \in Millis : viewers'[o][k] \in {viewers[o][k], None}
    <3>1. CASE ViewerError(c) \/ ViewerClose(c)
      <4>1. /\ viewers' = [viewers EXCEPT ![obj[c]][viewerId[c]] = None]
            /\ obj[c] \in Conn /\ viewerId[c] \in Millis
        BY <3>1 DEF ViewerError, ViewerClose, EntryDeleted, Captured
      <4> QED
        BY <4>1 DEF TypeOK
    <3>2. CASE viewers' = viewers
      BY <3>2
    <3> QED
      BY <1>2, <3>1, <3>2
      DEF ConnectWithoutSession, ConnectUnknownPath, RefuseAgent, BeginClose,
          AgentError, RefusedClose, session
  <2> QED
    BY <2>1, <2>2, <2>3, StatusKept
<1>3. ASSUME NEW c \in Conn, NEW s \in SessionId, AcceptAgent(c, s)
      PROVE  StatusAgrees'
  <2> DEFINE o == SessionFor(c, s)
  <2>1. ws[c] = "idle" /\ o \in Conn
    BY <1>3, FoundObject DEF AcceptAgent
  <2>2. /\ agent' = [agent EXCEPT ![o] = c] /\ viewers' = viewers
        /\ ws' = [ws EXCEPT ![c] = "OPEN"]
        /\ status' = [v \in Conn |-> IF v \in OpenViewers(o) THEN "up" ELSE status[v]]
    BY <1>3 DEF AcceptAgent, Connected, Tell
  <2> HIDE DEF o
  <2>3. ASSUME NEW p \in Conn, NEW v \in OpenViewers(p)'
        PROVE  /\ Open(agent[p])' => status'[v] = "up"
               /\ status'[v] = "up" => agent'[p] # None
    <3>1. v \in Registered(p) /\ ws'[v] = "OPEN"
      BY <2>2, <2>3 DEF OpenViewers, Registered, Open
    <3>2. v # c
      BY <2>1, <3>1, RegisteredOnce DEF Live
    <3>3. v \in OpenViewers(p) /\ obj[v] = p /\ v \in Conn
      BY <2>2, <3>1, <3>2, RegisteredOnce, ServerAssumption DEF OpenViewers, Open, TypeOK
    <3>4. CASE p = o
      BY <2>1, <2>2, <3>3, <3>4, ServerAssumption DEF TypeOK
    <3>5. CASE p # o
      <4>1. v \notin OpenViewers(o)
        BY <2>1, <3>3, <3>5, RegisteredOnce DEF OpenViewers
      <4>2. status'[v] = status[v] /\ agent'[p] = agent[p]
        BY <2>1, <2>2, <3>3, <3>5, <4>1 DEF TypeOK
      <4>3. agent[p] # c
        BY <2>1, ServerAssumption DEF RegistryConsistent, AgentsKnown, Live
      <4>4. Open(agent[p])' => Open(agent[p])
        BY <2>1, <2>2, <4>2, <4>3 DEF Open, TypeOK
      <4> QED
        BY <3>3, <4>2, <4>4 DEF StatusAgrees
    <3> QED
      BY <3>4, <3>5
  <2> QED
    BY <2>3 DEF StatusAgrees
<1>4. ASSUME NEW c \in Conn, NEW s \in SessionId, AcceptViewer(c, s)
      PROVE  StatusAgrees'
  <2> DEFINE o == SessionFor(c, s)
  <2>1. ws[c] = "idle" /\ o \in Conn /\ now \in Millis
    BY <1>4, FoundObject DEF AcceptViewer, TypeOK
  <2>2. /\ agent' = agent /\ viewers' = [viewers EXCEPT ![o][now] = c]
        /\ ws' = [ws EXCEPT ![c] = "OPEN"]
        /\ status' = [status EXCEPT ![c] = IF Open(agent[o]) THEN "up" ELSE "down"]
    <3>1. status' = [v \in Conn |-> IF v \in {c} THEN IF Open(agent[o]) THEN "up" ELSE "down"
                                   ELSE status[v]]
      BY <1>4 DEF AcceptViewer, Tell
    <3> QED
      BY <1>4, <3>1, ZenonT(60) DEF AcceptViewer, Connected, TypeOK
  <2> HIDE DEF o
  <2>3. ASSUME NEW p \in Conn, NEW v \in OpenViewers(p)'
        PROVE  /\ Open(agent[p])' => status'[v] = "up"
               /\ status'[v] = "up" => agent'[p] # None
    <3>1. agent[p] # c
      BY <2>1, ServerAssumption DEF RegistryConsistent, AgentsKnown, Live
    <3>2. Open(agent[p])' = Open(agent[p])
      BY <2>1, <2>2, <3>1 DEF Open, TypeOK
    <3>3. PICK k \in Millis : v \in Conn /\ viewers'[p][k] = v /\ ws'[v] = "OPEN"
      BY DEF OpenViewers, Registered, Open
    <3>4. CASE v = c
      <4>1. \A q \in Conn, j \in Millis : viewers[q][j] # c
        BY <2>1, ServerAssumption DEF RegistryConsistent, ViewersKnown, Live
      <4>2. p = o
        BY <2>1, <2>2, <3>3, <3>4, <4>1 DEF TypeOK
      <4> QED
        BY <2>2, <3>2, <3>4, <4>2 DEF TypeOK, Open
    <3>5. CASE v # c
      <4>1. v \in OpenViewers(p)
        BY <2>1, <2>2, <3>3, <3>5, ServerAssumption DEF OpenViewers, Registered, Open, TypeOK
      <4> QED
        BY <2>2, <3>2, <3>3, <3>5, <4>1 DEF StatusAgrees, TypeOK
    <3> QED
      BY <3>4, <3>5
  <2> QED
    BY <2>3 DEF StatusAgrees
<1>5. ASSUME NEW c \in Conn, AgentClose(c) PROVE StatusAgrees'
  <2>1. /\ obj[c] \in Conn /\ ws[c] = "CLOSING" /\ viewers' = viewers
        /\ ws' = [ws EXCEPT ![c] = "CLOSED"]
        /\ agent' = [agent EXCEPT ![obj[c]] = None]
        /\ status' = [v \in Conn |-> IF v \in OpenViewers(obj[c]) THEN "down" ELSE status[v]]
    BY <1>5 DEF AgentClose, SlotEmptied, Tell, ToldOfClose, Captured
  <2>2. ASSUME NEW p \in Conn, NEW v \in OpenViewers(p)'
        PROVE  /\ Open(agent[p])' => status'[v] = "up"
               /\ status'[v] = "up" => agent'[p] # None
    <3>1. v \in OpenViewers(p) /\ v \in Conn
      BY <2>1, <2>2 DEF OpenViewers, Registered, Open, TypeOK
    <3>2. CASE p = obj[c]
      BY <2>1, <3>1, <3>2 DEF Open, TypeOK
    <3>3. CASE p # obj[c]
      <4>1. v \notin OpenViewers(obj[c])
        BY <2>1, <3>1, <3>3, RegisteredOnce DEF OpenViewers
      <4>2. status'[v] = status[v] /\ agent'[p] = agent[p]
        BY <2>1, <3>1, <3>3, <4>1 DEF TypeOK
      <4>3. Open(agent[p])' => Open(agent[p])
        BY <2>1, <4>2 DEF Open, TypeOK
      <4> QED
        BY <3>1, <4>2, <4>3 DEF StatusAgrees
    <3> QED
      BY <3>2, <3>3
  <2> QED
    BY <2>2 DEF StatusAgrees
<1> QED
  BY <1>1, <1>2, <1>3, <1>4, <1>5 DEF Next, Connect, End, CloseEvent

\* Every handler that empties a session is followed by a cleanup that sees it.
LEMMA NeededStep ==
  ASSUME RInv, TypeInv', NoEmptySession, [Next]_vars
  PROVE  NoEmptySession'
<1> USE DEF RInv, TypeInv, TypeOK
<1>1. CASE Tick \/ (\E c \in Conn : Message(c)) \/ UNCHANGED vars
  <2>1. UNCHANGED <<ws, role, obj, agent, viewers, sessions>>
    BY <1>1, QuietStep
  <2>2. \A o \in Conn : Needed(o) => Needed(o)'
    BY <2>1 DEF Needed
  <2> QED
    BY <2>1, <2>2 DEF NoEmptySession
<1>2. ASSUME NEW c \in Conn, ConnectWithoutSession(c) PROVE NoEmptySession'
  <2>1. /\ UNCHANGED <<role, obj, agent, viewers, sessions>>
        /\ ws[c] = "idle" /\ ws' = [ws EXCEPT ![c] = "CLOSING"]
    BY <1>2 DEF ConnectWithoutSession, Refused, closure, session
  <2>2. \A o \in Conn : Needed(o) => Needed(o)'
    BY <2>1 DEF Needed
  <2> QED
    BY <2>1, <2>2 DEF NoEmptySession
<1>3. ASSUME NEW c \in Conn, NEW s \in SessionId,
             \/ ConnectUnknownPath(c, s)
             \/ RefuseAgent(c, s)
             \/ AcceptAgent(c, s)
             \/ AcceptViewer(c, s),
             NEW t \in SessionId, sessions'[t] # None
      PROVE  Needed(sessions[t])'
  <2> DEFINE o == SessionFor(c, s)
             p == sessions'[t]
  <2>1. ws[c] = "idle" /\ sessions' = [sessions EXCEPT ![s] = o]
    BY <1>3 DEF ConnectUnknownPath, RefuseAgent, AcceptAgent, AcceptViewer, Capture
  <2>2. /\ o \in Conn /\ p \in Conn
        /\ p # c => sessions[t] = p
        /\ p = c => t = s /\ o = c
    BY <1>3, <2>1, FoundObject
  <2>3. CASE p = c
    <3>1. role'[c] = "none" \/ agent'[c] # None \/ viewers'[c][now] # None
      BY <1>3, <2>2, <2>3, ServerAssumption
      DEF ConnectUnknownPath, RefuseAgent, AcceptAgent, AcceptViewer, Capture
    <3> QED
      BY <2>3, <3>1 DEF Needed
  <2>4. CASE p # c
    <3>1. Needed(p)
      BY <1>3, <2>2, <2>4 DEF NoEmptySession
    <3>2. \A d \in Conn \ {c} :
            ws'[d] = ws[d] /\ role'[d] = role[d] /\ obj'[d] = obj[d]
      BY <1>3, <2>1, OthersKeep
    <3>3. agent[p] # None => agent'[p] # None
      BY <1>3, <2>2, ServerAssumption
      DEF ConnectUnknownPath, RefuseAgent, AcceptAgent, AcceptViewer, session
    <3>4. \A k \in Millis : viewers[p][k] # None => viewers'[p][k] # None
      <4>1. CASE AcceptViewer(c, s)
        <5>1. viewers' = [viewers EXCEPT ![o][now] = c] /\ c # None
          BY <4>1, ServerAssumption DEF AcceptViewer
        <5> QED
          BY <2>2, <5>1
      <4>2. CASE viewers' = viewers
        BY <4>2
      <4> QED
        BY <1>3, <4>1, <4>2
        DEF ConnectUnknownPath, RefuseAgent, AcceptAgent, session
    <3>5. ASSUME NEW v \in Conn, obj[v] = p, role[v] = "viewer", ws[v] = "CLOSING"
          PROVE  obj'[v] = p /\ role'[v] = "viewer" /\ ws'[v] = "CLOSING"
      <4>1. v # c
        BY <2>1, <3>5
      <4> QED
        BY <3>2, <3>5, <4>1
    <3> QED
      BY <2>2, <2>4, <3>1, <3>2, <3>3, <3>4, <3>5 DEF Needed
  <2> QED
    BY <2>3, <2>4
<1>4. ASSUME NEW c \in Conn, End(c), NEW t \in SessionId, sessions'[t] # None
      PROVE  Needed(sessions[t])'
  <2> DEFINE p == sessions[t]
  <2>1. sessions'[t] = p
    BY <1>4, CleanupEffect
    DEF End, BeginClose, AgentError, ViewerError, CloseEvent, AgentClose,
        ViewerClose, RefusedClose
  <2>2. Needed(p) /\ p \in Conn /\ sid[p] = t
    BY <1>4, <2>1 DEF NoEmptySession, RegistryConsistent, ObjectsKnown
  <2>3. role' = role /\ obj' = obj /\ \A d \in Conn \ {c} : ws'[d] = ws[d]
    BY <1>4
    DEF End, BeginClose, AgentError, ViewerError, CloseEvent, AgentClose,
        ViewerClose, RefusedClose, closure
  <2>4. CASE BeginClose(c) \/ AgentError(c) \/ RefusedClose(c)
    <3>1. agent' = agent /\ viewers' = viewers /\ (role[c] = "viewer" => ws'[c] = "CLOSING")
      BY <2>4 DEF BeginClose, AgentError, RefusedClose, session
    <3> QED
      BY <2>1, <2>2, <2>3, <3>1 DEF Needed
  <2>5. CASE ViewerError(c)
    <3>1. /\ agent' = agent /\ role[c] = "viewer" /\ ws'[c] = "CLOSING"
          /\ obj[c] \in Conn /\ viewerId[c] \in Millis
          /\ viewers' = [viewers EXCEPT ![obj[c]][viewerId[c]] = None]
      BY <2>5 DEF ViewerError, Captured
    <3>2. CASE obj[c] = p
      BY <2>1, <2>3, <3>1, <3>2 DEF Needed
    <3>3. CASE obj[c] # p
      BY <2>1, <2>2, <2>3, <3>1, <3>3 DEF Needed
    <3> QED
      BY <3>2, <3>3
  <2>6. CASE AgentClose(c) \/ ViewerClose(c)
    <3>1. /\ obj[c] \in Conn /\ sid[c] \in SessionId /\ sid[obj[c]] = sid[c]
          /\ sessions' = CleanupSessionIfEmpty(sid[c], agent', viewers')
      BY <2>6, ServerAssumption
      DEF AgentClose, ViewerClose, Captured, RegistryConsistent, ObjectsKnown
    <3>2. CASE obj[c] = p
      <4>1. sid[c] = t
        BY <2>2, <3>1, <3>2
      <4>2. ~ (agent'[p] = None /\ \A k \in Millis : viewers'[p][k] = None)
        BY <1>4, <2>1, <3>1, <4>1 DEF CleanupSessionIfEmpty
      <4> QED
        BY <2>1, <4>2 DEF Needed
    <3>3. CASE obj[c] # p
      <4>1. agent'[p] = agent[p] /\ viewers'[p] = viewers[p]
        BY <2>2, <2>6, <3>1, <3>3
        DEF AgentClose, SlotEmptied, ViewerClose, EntryDeleted, Captured
      <4> QED
        BY <2>1, <2>2, <2>3, <3>3, <4>1 DEF Needed
    <3> QED
      BY <3>2, <3>3
  <2> QED
    BY <1>4, <2>4, <2>5, <2>6 DEF End, CloseEvent
<1> QED
  BY <1>1, <1>2, <1>3, <1>4 DEF Next, Connect, NoEmptySession

\* The parts above are an invariant of the server together.
LEMMA Invariance == Spec => []IInv
<1>1. Init => IInv
  <2>1. Init => Fresh /\ RegistryConsistent
    BY ServerAssumption
    DEF Init, Fresh, RegistryConsistent, ObjectsKnown, AgentsKnown, ViewersKnown
  <2>2. Init => TypeInv
    BY ServerAssumption DEF Init, TypeInv, TypeOK, Captured, NoRelay, Millis
  <2>3. Init => Held /\ Entered
    BY DEF Init, Held, Entered, Live, Open
  <2>4. Init => StatusAgrees /\ NoEmptySession
    BY DEF Init, StatusAgrees, NoEmptySession, OpenViewers, Registered, Open
  <2> QED
    BY <2>1, <2>2, <2>3, <2>4 DEF IInv, RInv
<1>2. IInv /\ TypeInv' /\ [Next]_vars => IInv'
  <2> SUFFICES ASSUME IInv, TypeInv', [Next]_vars PROVE IInv'
    OBVIOUS
  <2>1. RInv'
    BY RegistryStep DEF IInv
  <2>2. Held' /\ Entered'
    BY <2>1, HeldStep, EnteredStep DEF IInv
  <2>3. StatusAgrees' /\ NoEmptySession'
    BY <2>1, StatusStep, NeededStep DEF IInv
  <2> QED
    BY <2>1, <2>2, <2>3 DEF IInv
<1> QED
  BY <1>1, <1>2, TypeInvariant, PTL DEF Spec

\* What a viewer was told last agrees with the agent slot of its session, in
\* every order in which agents and viewers come, go and replace each other.
THEOREM StatusCorrect == Spec => []StatusAgrees
<1>1. IInv => StatusAgrees
  BY DEF IInv
<1> QED
  BY <1>1, Invariance, PTL

\* cleanupSessionIfEmpty never takes the session away from an open viewer with
\* an id of its own.
THEOREM ViewersReached == Spec => []ViewerReachable
<1>1. IInv => ViewerReachable
  BY DEF IInv, RInv, TypeInv, Captured, Entered, ViewerReachable, Registered
<1> QED
  BY <1>1, Invariance, PTL

\* An open agent is the one its session leads to, as long as no agent of the
\* session was replaced before its 'close' event.
THEOREM AgentsReached == Spec => []AgentReachable
<1>1. IInv => AgentReachable
  BY DEF IInv, Held, AgentReachable, Live, Open
<1> QED
  BY <1>1, Invariance, PTL

\* A session stays in the map only for somebody who is still to leave it, or
\* because a connection with an unknown path created it.
THEOREM EmptyRemoved == Spec => []NoEmptySession
<1>1. IInv => NoEmptySession
  BY DEF IInv
<1> QED
  BY <1>1, Invariance, PTL

-----------------------------------------------------------------------------
(* The relay.                                                              *)

\* A forwarding handler reaches its own session, and the others forward nothing.
LEMMA RelayStep ==
  ASSUME IInv, RelayToSameSession, [Next]_vars
  PROVE  RelayToSameSession'
<1> USE DEF IInv, RInv, TypeInv, TypeOK
<1>1. CASE UNCHANGED vars
  BY <1>1 DEF vars, closure, RelayToSameSession, Open, Undisturbed, UniqueId
<1>2. CASE relay' = NoRelay
  BY <1>2 DEF RelayToSameSession, NoRelay
<1>3. ASSUME NEW c \in Conn, role[c] = "agent", Open(c), UNCHANGED <<ws, closure, superseded>>,
             relay'.from = c, relay'.to = OpenViewers(obj[c])
      PROVE  RelayToSameSession'
  <2>1. /\ role' = role /\ sid' = sid /\ obj' = obj /\ viewerId' = viewerId
        /\ ws' = ws /\ superseded' = superseded
    BY <1>3 DEF closure
  <2>2. obj[c] \in Conn /\ sid[obj[c]] = sid[c]
    BY <1>3, ServerAssumption DEF Captured, RegistryConsistent, ObjectsKnown
  <2>3. \A d \in OpenViewers(obj[c]) : Open(d) /\ sid[d] = sid[c] /\ role[d] = "viewer"
    <3> TAKE d \in OpenViewers(obj[c])
    <3>1. obj[d] = obj[c] /\ role[d] = "viewer" /\ d \in Conn /\ Open(d)
      BY <2>2, RegisteredOnce DEF OpenViewers
    <3> QED
      BY <2>2, <3>1, ServerAssumption DEF RegistryConsistent, ObjectsKnown
  <2>4. ASSUME Undisturbed(obj[c]), NEW d \in Conn, Open(d), role[d] = "viewer",
               sid[d] = sid[c], UniqueId(d)
        PROVE  d \in OpenViewers(obj[c])
    <3>1. sessions[sid[c]] = obj[c]
      BY <1>3, <2>4 DEF Held, Live, Open
    <3>2. viewers[obj[d]][viewerId[d]] = d /\ sessions[sid[d]] = obj[d]
      BY <2>4 DEF Entered
    <3> QED
      BY <2>4, <3>1, <3>2 DEF Captured, OpenViewers, Registered
  <2>5. \A d \in Conn : Open(d)' = Open(d) /\ UniqueId(d)' = UniqueId(d)
    BY <2>1 DEF Open, UniqueId
  <2>6. Undisturbed(obj[c])' = Undisturbed(obj[c])
    BY <2>1 DEF Undisturbed
  <2>7. \A d \in OpenViewers(obj[c]) : d \in Conn
    BY DEF OpenViewers, Registered
  <2> QED
    BY <1>3, <2>1, <2>3, <2>4, <2>5, <2>6, <2>7 DEF RelayToSameSession
<1>4. ASSUME NEW c \in Conn, role[c] = "viewer", Open(c), UNCHANGED <<ws, closure, superseded>>,
             relay'.from = c, relay'.to = InputReceivers(c)
      PROVE  RelayToSameSession'
  <2>1. /\ role' = role /\ sid' = sid /\ obj' = obj /\ viewerId' = viewerId
        /\ ws' = ws /\ superseded' = superseded
    BY <1>4 DEF closure
  <2>2. obj[c] \in Conn /\ sid[obj[c]] = sid[c]
    BY <1>4, ServerAssumption DEF Captured, RegistryConsistent, ObjectsKnown
  <2>3. \A d \in InputReceivers(c) :
          d \in Conn /\ Open(d) /\ sid[d] = sid[c] /\ role[d] = "agent"
    <3> TAKE d \in InputReceivers(c)
    <3>1. d = agent[obj[c]] /\ Open(d)
      BY DEF InputReceivers
    <3>2. d \in Conn /\ obj[d] = obj[c] /\ role[d] = "agent"
      BY <2>2, <3>1 DEF Open, RegistryConsistent, AgentsKnown
    <3> QED
      BY <2>2, <3>1, <3>2, ServerAssumption DEF RegistryConsistent, ObjectsKnown
  <2>4. ASSUME UniqueId(c), NEW d \in Conn, Open(d), role[d] = "agent",
               sid[d] = sid[c], Undisturbed(obj[d])
        PROVE  d \in InputReceivers(c)
    <3>1. sessions[sid[c]] = obj[c]
      BY <1>4, <2>4 DEF Entered
    <3>2. agent[obj[d]] = d /\ sessions[sid[d]] = obj[d]
      BY <2>4 DEF Held, Live, Open
    <3> QED
      BY <2>4, <3>1, <3>2 DEF InputReceivers
  <2>5. \A d \in Conn : Open(d)' = Open(d) /\ UniqueId(d)' = UniqueId(d)
    BY <2>1 DEF Open, UniqueId
  <2>6. \A d \in Conn : Undisturbed(obj[d])' = Undisturbed(obj[d])
    BY <2>1 DEF Undisturbed
  <2> QED
    BY <1>4, <2>1, <2>3, <2>4, <2>5, <2>6 DEF RelayToSameSession
<1>5. ASSUME NEW c \in Conn, Message(c) PROVE RelayToSameSession'
  <2>1. UNCHANGED <<ws, closure, superseded>>
    BY <1>5 DEF Message, AgentScreenInfo, AgentFrame, ViewerClientInfo, ViewerInput
  <2>2. \/ relay' = NoRelay
        \/ /\ role[c] = "agent" /\ Open(c)
           /\ relay'.from = c /\ relay'.to = OpenViewers(obj[c])
        \/ /\ role[c] = "viewer" /\ Open(c)
           /\ relay'.from = c /\ relay'.to = InputReceivers(c)
    <3>1. CASE \E scr \in Screen : AgentScreenInfo(c, scr)
      BY <3>1 DEF AgentScreenInfo
    <3>2. CASE AgentFrame(c)
      BY <3>2 DEF AgentFrame, FrameReceivers
    <3>3. CASE \E scr \in ClientScreen : ViewerClientInfo(c, scr)
      BY <3>3 DEF ViewerClientInfo
    <3>4. CASE ViewerInput(c)
      BY <3>4 DEF ViewerInput
    <3> QED
      BY <1>5, <3>1, <3>2, <3>3, <3>4 DEF Message
  <2> QED
    BY <1>2, <1>3, <1>4, <2>1, <2>2
<1>6. ASSUME NEW c \in Conn, Connect(c) \/ End(c) PROVE relay' = NoRelay
  BY <1>6 DEF Connect, ConnectWithoutSession, ConnectUnknownPath, RefuseAgent,
              AcceptAgent, AcceptViewer, End, BeginClose, AgentError, ViewerError,
              CloseEvent, AgentClose, ViewerClose, RefusedClose
<1> QED
  BY <1>1, <1>2, <1>5, <1>6 DEF Next, Tick

\* Frames and inputs stay within the session id of their sender, and reach
\* everybody there whom neither of the two faults cut off.
THEOREM RelayCorrect == Spec => []RelayToSameSession
<1>1. Init => RelayToSameSession
  BY DEF Init, NoRelay, RelayToSameSession
<1>2. IInv /\ RelayToSameSession /\ [Next]_vars => RelayToSameSession'
  BY RelayStep
<1> QED
  BY <1>1, <1>2, Invariance, PTL DEF Spec
-----------------------------------------------------------------------------
(* The counters.                                                           *)

LiveIn(R) == {c \in Conn : Live(c) /\ role[c] \in R}
ErroredIn(R) == {c \in errored : role[c] \in R}
Counted(R) == Cardinality(LiveIn(R)) - Cardinality(ErroredIn(R))

\* A connection has its protocol error while it is open, and only once.
ErrorsEnd == \A c \in errored : ws[c] \in {"CLOSING", "CLOSED"}

LEMMA FinitelyMany ==
  ASSUME TypeOK, NEW R
  PROVE  /\ IsFiniteSet(LiveIn(R)) /\ IsFiniteSet(ErroredIn(R))
         /\ Cardinality(LiveIn(R)) \in Nat /\ Cardinality(ErroredIn(R)) \in Nat
<1>1. LiveIn(R) \subseteq Conn /\ ErroredIn(R) \subseteq Conn
  BY DEF LiveIn, ErroredIn, TypeOK
<1>2. IsFiniteSet(LiveIn(R)) /\ IsFiniteSet(ErroredIn(R))
  BY <1>1, ServerAssumption, FS_Subset
<1> QED
  BY <1>2, FS_CardinalityType

\* How the four kinds of step change a count.
LEMMA CountedMoves ==
  ASSUME TypeOK, NEW R, NEW c
  PROVE  /\ LiveIn(R)' = LiveIn(R) /\ ErroredIn(R)' = ErroredIn(R)
              => Counted(R)' = Counted(R)
         /\ c \notin LiveIn(R) /\ LiveIn(R)' = LiveIn(R) \cup {c} /\ ErroredIn(R)' = ErroredIn(R)
              => Counted(R)' = Counted(R) + 1
         /\ c \in LiveIn(R) /\ LiveIn(R)' = LiveIn(R) \ {c} /\ ErroredIn(R)' = ErroredIn(R)
              => Counted(R)' = Counted(R) - 1
         /\ LiveIn(R)' = LiveIn(R) /\ c \notin ErroredIn(R) /\ ErroredIn(R)' = ErroredIn(R) \cup {c}
              => Counted(R)' = Counted(R) - 1
         /\ Counted(R) \in Int
<1> DEFINE L == LiveIn(R)  E == ErroredIn(R)
<1>1. IsFiniteSet(L) /\ IsFiniteSet(E) /\ Cardinality(L) \in Nat /\ Cardinality(E) \in Nat
  BY FinitelyMany
<1>2. /\ c \notin L => Cardinality(L \cup {c}) = Cardinality(L) + 1
      /\ c \notin E => Cardinality(E \cup {c}) = Cardinality(E) + 1
      /\ c \in L => Cardinality(L \ {c}) = Cardinality(L) - 1
  BY <1>1, FS_AddElement, FS_RemoveElement
<1>3. Counted(R) = Cardinality(L) - Cardinality(E) /\ Counted(R)' = Cardinality(L') - Cardinality(E')
  BY DEF Counted
<1> HIDE DEF L, E
<1>4. /\ L' = L /\ E' = E => Counted(R)' = Counted(R)
      /\ c \notin L /\ L' = L \cup {c} /\ E' = E => Counted(R)' = Counted(R) + 1
      /\ c \in L /\ L' = L \ {c} /\ E' = E => Counted(R)' = Counted(R) - 1
      /\ L' = L /\ c \notin E /\ E' = E \cup {c} => Counted(R)' = Counted(R) - 1
      /\ Counted(R) \in Int
  BY <1>1, <1>2, <1>3
<1> QED
  BY <1>4 DEF L, E

CountsInv ==
  /\ stats.active = Counted({"agent", "viewer"})
  /\ stats.agents = Counted({"agent"})
  /\ stats.viewers = Counted({"viewer"})

\* A handler counts the change it makes to the live connections or to those
\* with an error, in each of the three counters.
LEMMA CountStep ==
  ASSUME TypeOK, CountsInv, NEW c \in Conn, NEW r \in {"agent", "viewer"}, NEW n \in {1, -1},
         \E t \in Int : Count(t, n, IF r = "agent" THEN n ELSE 0, IF r = "viewer" THEN n ELSE 0),
         \A R : r \notin R => LiveIn(R)' = LiveIn(R) /\ ErroredIn(R)' = ErroredIn(R),
         \A R : r \in R => Counted(R)' = Counted(R) + n
  PROVE  CountsInv'
<1>1. /\ stats'.active = stats.active + n
      /\ stats'.agents = stats.agents + (IF r = "agent" THEN n ELSE 0)
      /\ stats'.viewers = stats.viewers + (IF r = "viewer" THEN n ELSE 0)
  BY DEF Count
<1>2. stats.active \in Int /\ stats.agents \in Int /\ stats.viewers \in Int
  BY DEF TypeOK
<1>3. \A R : r \notin R => Counted(R)' = Counted(R)
  BY CountedMoves
<1>4. /\ Counted({"agent", "viewer"})' = Counted({"agent", "viewer"}) + n
      /\ Counted({"agent"})' = IF r = "agent" THEN Counted({"agent"}) + n ELSE Counted({"agent"})
      /\ Counted({"viewer"})' = IF r = "viewer" THEN Counted({"viewer"}) + n ELSE Counted({"viewer"})
  BY <1>3
<1> QED
  BY <1>1, <1>2, <1>4 DEF CountsInv

\* Steps that change neither the counters nor who is counted.
LEMMA CountStays ==
  ASSUME TypeOK, CountsInv,
         \A R : LiveIn(R)' = LiveIn(R) /\ ErroredIn(R)' = ErroredIn(R),
         /\ stats'.active = stats.active /\ stats'.agents = stats.agents
         /\ stats'.viewers = stats.viewers
  PROVE  CountsInv'
<1>1. \A R : Counted(R)' = Counted(R)
  BY CountedMoves
<1> QED
  BY <1>1 DEF CountsInv

LEMMA CountersStep ==
  ASSUME RInv, ErrorsEnd, CountsInv, [Next]_vars
  PROVE  ErrorsEnd' /\ CountsInv'
<1>1. TypeInv /\ TypeOK /\ Fresh
  BY DEF RInv, TypeInv
<1>2. CASE UNCHANGED <<ws, role, errored, stats>>
  <2>1. \A R : LiveIn(R)' = LiveIn(R) /\ ErroredIn(R)' = ErroredIn(R)
    BY <1>2 DEF LiveIn, ErroredIn, Live
  <2> QED
    BY <1>1, <1>2, <2>1, CountStays DEF ErrorsEnd
<1>3. ASSUME NEW c \in Conn, Connect(c) PROVE ErrorsEnd' /\ CountsInv'
  <2>1. ws[c] = "idle" /\ role[c] = "none" /\ c \notin errored /\ errored' = errored
    BY <1>1, <1>3 DEF Connect, ConnectWithoutSession, ConnectUnknownPath, RefuseAgent,
       AcceptAgent, AcceptViewer, Fresh, ErrorsEnd
  <2>2. \A d \in Conn \ {c} : role'[d] = role[d] /\ ws'[d] = ws[d]
    BY <1>1, <1>3 DEF Connect, ConnectWithoutSession, ConnectUnknownPath, RefuseAgent,
       AcceptAgent, AcceptViewer, Capture, Connected, Refused, closure, TypeOK
  <2>3. errored \subseteq Conn
    BY <1>1 DEF TypeOK
  <2>4. ErrorsEnd' /\ \A R : ErroredIn(R)' = ErroredIn(R)
    BY <2>1, <2>2, <2>3 DEF ErrorsEnd, ErroredIn
  <2>5. CASE ConnectWithoutSession(c) \/ \E s \in SessionId : ConnectUnknownPath(c, s) \/ RefuseAgent(c, s)
    <3>1. role'[c] = "none" /\ CountRefused
      BY <1>1, <2>1, <2>5 DEF ConnectWithoutSession, ConnectUnknownPath, RefuseAgent, Capture,
         closure, TypeOK
    <3>2. \A R : LiveIn(R)' = LiveIn(R)
      BY <2>1, <2>2, <3>1 DEF LiveIn, Live
    <3>3. stats'.active = stats.active /\ stats'.agents = stats.agents /\ stats'.viewers = stats.viewers
      BY <1>1, <3>1 DEF CountRefused, Count, TypeOK
    <3> QED
      BY <1>1, <2>4, <3>2, <3>3, CountStays
  <2>6. ASSUME NEW r \in {"agent", "viewer"}, role'[c] = r, ws'[c] = "OPEN",
               Count(1, 1, IF r = "agent" THEN 1 ELSE 0, IF r = "viewer" THEN 1 ELSE 0)
        PROVE  CountsInv'
    <3>1. \A R : r \notin R => LiveIn(R)' = LiveIn(R)
      BY <2>1, <2>2, <2>6 DEF LiveIn, Live
    <3>2. \A R : r \in R => c \notin LiveIn(R) /\ LiveIn(R)' = LiveIn(R) \cup {c}
      BY <2>1, <2>2, <2>6 DEF LiveIn, Live
    <3>3. \A R : r \in R => Counted(R)' = Counted(R) + 1
      BY <1>1, <2>4, <3>2, CountedMoves
    <3> QED
      BY <1>1, <2>4, <2>6, <3>1, <3>3, CountStep
  <2>7. CASE \E s \in SessionId : AcceptAgent(c, s)
    <3>1. role'[c] = "agent" /\ ws'[c] = "OPEN" /\ Count(1, 1, 1, 0)
      BY <1>1, <2>7 DEF AcceptAgent, Capture, Connected, TypeOK
    <3> QED
      BY <2>4, <2>6, <3>1
  <2>8. CASE \E s \in SessionId : AcceptViewer(c, s)
    <3>1. role'[c] = "viewer" /\ ws'[c] = "OPEN" /\ Count(1, 1, 0, 1)
      BY <1>1, <2>8 DEF AcceptViewer, Capture, Connected, TypeOK
    <3> QED
      BY <2>4, <2>6, <3>1
  <2> QED
    BY <1>3, <2>5, <2>7, <2>8 DEF Connect
<1>4. ASSUME NEW c \in Conn, BeginClose(c) \/ RefusedClose(c) PROVE ErrorsEnd' /\ CountsInv'
  <2>1. /\ UNCHANGED <<role, errored, stats>>
        /\ \A d \in Conn \ {c} : ws'[d] = ws[d]
        /\ ws'[c] \in {"CLOSING", "CLOSED"}
        /\ role[c] = "none" \/ (ws[c] = "OPEN" /\ ws'[c] = "CLOSING")
    BY <1>1, <1>4 DEF BeginClose, RefusedClose, Open, closure, TypeOK
  <2>2. \A R : LiveIn(R)' = LiveIn(R) /\ ErroredIn(R)' = ErroredIn(R)
    BY <2>1 DEF LiveIn, ErroredIn, Live
  <2>3. ErrorsEnd'
    BY <1>1, <2>1 DEF ErrorsEnd, TypeOK
  <2> QED
    BY <1>1, <2>1, <2>2, <2>3, CountStays
<1>5. ASSUME NEW c \in Conn, AgentError(c) \/ ViewerError(c) PROVE ErrorsEnd' /\ CountsInv'
  <2>1. PICK r \in {"agent", "viewer"} :
             /\ role[c] = r
             /\ Count(0, -1, IF r = "agent" THEN -1 ELSE 0, IF r = "viewer" THEN -1 ELSE 0)
    BY <1>5 DEF AgentError, ViewerError
  <2>2. /\ role' = role /\ errored' = errored \cup {c}
        /\ ws[c] = "OPEN" /\ ws'[c] = "CLOSING"
        /\ \A d \in Conn \ {c} : ws'[d] = ws[d]
    BY <1>1, <1>5 DEF AgentError, ViewerError, Open, closure, TypeOK
  <2>3. c \notin errored
    BY <2>2 DEF ErrorsEnd
  <2>4. \A R : LiveIn(R)' = LiveIn(R)
    BY <2>2 DEF LiveIn, Live
  <2>5. \A R : r \notin R => ErroredIn(R)' = ErroredIn(R)
    BY <2>1, <2>2 DEF ErroredIn
  <2>6. \A R : r \in R => c \notin ErroredIn(R) /\ ErroredIn(R)' = ErroredIn(R) \cup {c}
    BY <2>1, <2>2, <2>3 DEF ErroredIn
  <2>7. \A R : r \in R => Counted(R)' = Counted(R) + -1
    <3>1. \A R : r \in R => Counted(R)' = Counted(R) - 1 /\ Counted(R) \in Int
      BY <1>1, <2>4, <2>6, CountedMoves
    <3> QED
      BY <3>1
  <2>8. ErrorsEnd'
    BY <1>1, <2>2 DEF ErrorsEnd, TypeOK
  <2>9. CountsInv'
    BY <1>1, <2>1, <2>4, <2>5, <2>7, CountStep
  <2> QED
    BY <2>8, <2>9
<1>6. ASSUME NEW c \in Conn, AgentClose(c) \/ ViewerClose(c) PROVE ErrorsEnd' /\ CountsInv'
  <2>1. PICK r \in {"agent", "viewer"} :
             /\ role[c] = r
             /\ Count(0, -1, IF r = "agent" THEN -1 ELSE 0, IF r = "viewer" THEN -1 ELSE 0)
    BY <1>6 DEF AgentClose, ViewerClose
  <2>2. /\ role' = role /\ errored' = errored
        /\ ws[c] = "CLOSING" /\ ws'[c] = "CLOSED"
        /\ \A d \in Conn \ {c} : ws'[d] = ws[d]
    BY <1>1, <1>6 DEF AgentClose, ViewerClose, closure, TypeOK
  <2>3. \A R : ErroredIn(R)' = ErroredIn(R)
    BY <2>2 DEF ErroredIn
  <2>4. \A R : r \notin R => LiveIn(R)' = LiveIn(R)
    BY <2>1, <2>2 DEF LiveIn, Live
  <2>5. \A R : r \in R => c \in LiveIn(R) /\ LiveIn(R)' = LiveIn(R) \ {c}
    BY <2>1, <2>2 DEF LiveIn, Live
  <2>6. \A R : r \in R => Counted(R)' = Counted(R) + -1
    <3>1. \A R : r \in R => Counted(R)' = Counted(R) - 1 /\ Counted(R) \in Int
      BY <1>1, <2>3, <2>5, CountedMoves
    <3> QED
      BY <3>1
  <2>7. ErrorsEnd'
    BY <1>1, <2>2 DEF ErrorsEnd, TypeOK
  <2>8. CountsInv'
    BY <1>1, <2>1, <2>3, <2>4, <2>6, CountStep
  <2> QED
    BY <2>7, <2>8
<1>7. CASE Tick \/ (\E c \in Conn : Message(c)) \/ UNCHANGED vars
  <2>1. UNCHANGED <<ws, role, errored, stats>>
    BY <1>7 DEF Tick, Message, AgentScreenInfo, AgentFrame, ViewerClientInfo, ViewerInput,
       vars, closure
  <2> QED
    BY <1>2, <2>1
<1> QED
  BY <1>3, <1>4, <1>5, <1>6, <1>7 DEF Next, End, CloseEvent

\* The counters are the live connections less one for each protocol error so
\* far, for every number of connections (lines 96, 134, 202-234, 243, 291-309).
THEOREM CountersCorrect == Spec => []CountersExact
<1>1. Init => ErrorsEnd /\ CountsInv
  <2> SUFFICES ASSUME Init PROVE ErrorsEnd /\ CountsInv
    OBVIOUS
  <2>1. \A R : LiveIn(R) = {} /\ ErroredIn(R) = {}
    BY DEF Init, LiveIn, ErroredIn, Live
  <2>2. \A R : Counted(R) = 0
    BY <2>1, FS_EmptySet DEF Counted
  <2> QED
    BY <2>2 DEF Init, ErrorsEnd, CountsInv
<1>2. IInv /\ ErrorsEnd /\ CountsInv /\ [Next]_vars => ErrorsEnd' /\ CountsInv'
  BY CountersStep DEF IInv
<1>3. CountsInv => CountersExact
  BY DEF CountsInv, CountersExact, Counted, LiveIn, ErroredIn
<1> QED
  BY <1>1, <1>2, <1>3, Invariance, PTL DEF Spec
=============================================================================
