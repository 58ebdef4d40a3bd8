----------------------------- MODULE ShareServer -----------------------------
(***************************************************************************)
(* The relay server of Remote-Share/Server/index.js: its registry of       *)
(* sessions, the handlers of agent and viewer connections, the messages it *)
(* forwards and the connection counters.                                   *)
(*                                                                         *)
(* The server is one Node.js event loop, so an event handler runs to its   *)
(* end before the next event: one handler is one action.  What interleaves *)
(* are the events of different connections, and a connection has two of    *)
(* them at its end: readyState becomes CLOSING (close frame received,      *)
(* socket lost, terminate() called by the ping timer, or a protocol error) *)
(* and only later does the 'close' event run the handler.                  *)
(*                                                                         *)
(* A handler is a closure over the session OBJECT it was registered with,  *)
(* which need not be the object that the map holds under the session id    *)
(* later on.  An object is named here by the connection that created it,   *)
(* so that obj[c] is what the closure of c captured and sessions[s] what   *)
(* sessions.get(s) returns now.                                            *)
(***************************************************************************)
EXTENDS Integers, FiniteSets

CONSTANTS
  Conn,          \* WebSocket connections; each connects at most once
  SessionId,     \* non-empty values of the sessionId query parameter
  Screen,        \* screen descriptions that calculateOptimalScale accepts
  ClientScreen,  \* the values msg.screen of a client_info message may take
  Undefined,     \* msg.screen of a client_info message without that field
  MaxMs,         \* bound on the clock behind Date.now()
  None           \* null, and an absent entry of a Map

ASSUME ServerAssumption ==
  /\ IsFiniteSet(Conn)
  /\ None \notin Conn \cup SessionId \cup Screen \cup {Undefined}
  /\ Undefined \notin Screen
  /\ ClientScreen \subseteq Screen \cup {Undefined}
  /\ MaxMs \in Nat

VARIABLES
  ws,            \* readyState of each connection; "idle" before it connects
  role,          \* which handlers are registered on it: agent, viewer, none
  sid, obj,      \* sessionId and session as the handlers captured them
  viewerId,      \* viewerId as the viewer's handlers captured it
  sessions,      \* the Map from session ids to session objects
  agent,         \* session.agent of every session object
  viewers,       \* session.viewers of every session object
  agentScreen,   \* session.agentScreen of every session object
  clientScreen,  \* the entry of a connection in session.clientScreens
  stats,         \* connectionState
  now,           \* what Date.now() returns
  status,        \* last agent_status sent to a viewer
  scale,         \* the two screens of the last set_scale sent to a viewer
  relay,         \* what the last handler forwarded, and to whom
  errored,       \* connections on which ws emitted 'error'
  superseded     \* history: agents replaced before their 'close' event

closure == <<role, sid, obj, viewerId>>
session == <<agent, viewers, agentScreen, clientScreen>>
vars    == <<ws, closure, sessions, session, stats, now, status, scale,
             relay, errored, superseded>>

Millis == 0 .. MaxMs
NoRelay == [kind |-> "none", from |-> None, to |-> {}]

TypeOK ==
  /\ ws \in [Conn -> {"idle", "OPEN", "CLOSING", "CLOSED"}]
  /\ role \in [Conn -> {"none", "agent", "viewer"}]
  /\ sid \in [Conn -> SessionId \cup {None}]
  /\ obj \in [Conn -> Conn \cup {None}]
  /\ viewerId \in [Conn -> Millis \cup {None}]
  /\ sessions \in [SessionId -> Conn \cup {None}]
  /\ agent \in [Conn -> Conn \cup {None}]
  /\ viewers \in [Conn -> [Millis -> Conn \cup {None}]]
  /\ agentScreen \in [Conn -> Screen \cup {None}]
  /\ clientScreen \in [Conn -> Screen \cup {Undefined, None}]
  /\ stats \in [total : Int, active : Int, agents : Int, viewers : Int]
  /\ now \in Millis
  /\ status \in [Conn -> {"none", "up", "down"}]
  /\ scale \in [Conn -> [agent : Screen, client : Screen] \cup {None}]
  /\ relay \in [kind : {"none", "frame", "screen_info", "input"},
                from : Conn \cup {None}, to : SUBSET Conn]
  /\ errored \in SUBSET Conn
  /\ superseded \in SUBSET Conn

Init ==
  /\ ws = [c \in Conn |-> "idle"]
  /\ role = [c \in Conn |-> "none"]
  /\ sid = [c \in Conn |-> None]
  /\ obj = [c \in Conn |-> None]
  /\ viewerId = [c \in Conn |-> None]
  /\ sessions = [s \in SessionId |-> None]
  /\ agent = [o \in Conn |-> None]
  /\ viewers = [o \in Conn |-> [k \in Millis |-> None]]
  /\ agentScreen = [o \in Conn |-> None]
  /\ clientScreen = [c \in Conn |-> None]
  /\ stats = [total |-> 0, active |-> 0, agents |-> 0, viewers |-> 0]
  /\ now = 0
  /\ status = [c \in Conn |-> "none"]
  /\ scale = [c \in Conn |-> None]
  /\ relay = NoRelay
  /\ errored = {}
  /\ superseded = {}

-----------------------------------------------------------------------------
(* Helpers.                                                                *)

Open(c) == c # None /\ ws[c] = "OPEN"

\* The values of session.viewers, and those a handler may send to.
Registered(o) == {v \in Conn : \E k \in Millis : viewers[o][k] = v}
OpenViewers(o) == {v \in Registered(o) : Open(v)}

\* The connections of session o that have an entry in its clientScreens.
Clients(o) == {v \in Conn : obj[v] = o /\ clientScreen[v] # None}

Tell(S, what) == status' = [c \in Conn |-> IF c \in S THEN what ELSE status[c]]

Count(total, active, agents, viewing) ==
  stats' = [total |-> stats.total + total, active |-> stats.active + active,
            agents |-> stats.agents + agents,
            viewers |-> stats.viewers + viewing]

\* A refused connection was added to activeConnections and is taken off again.
CountRefusedAsActive == Count(1, 1, 0, 0)  \* Faulty: it is not taken off.
CountRefused == Count(1, 0, 0, 0)

Connected(c) == ws' = [ws EXCEPT ![c] = "OPEN"]
Refused(c)   == ws' = [ws EXCEPT ![c] = "CLOSING"]

\* The object sessions.get(s) returns to connection c, which creates it when
\* the map has none.
SessionFor(c, s) == IF sessions[s] = None THEN c ELSE sessions[s]

Capture(c, s, r, id) ==
  /\ role' = [role EXCEPT ![c] = r]
  /\ sid' = [sid EXCEPT ![c] = s]
  /\ obj' = [obj EXCEPT ![c] = SessionFor(c, s)]
  /\ viewerId' = [viewerId EXCEPT ![c] = id]
  /\ sessions' = [sessions EXCEPT ![s] = SessionFor(c, s)]

\* The map once cleanupSessionIfEmpty(s) ran on agent slots a and viewers v.
\* The session is looked up by its id, not taken from the closure.
CleanupNever(s, a, v) == sessions   \* Faulty: an empty session is kept.
CleanupIgnoringViewers(s, a, v) ==  \* Faulty: viewers.size is not tested.
  IF sessions[s] # None /\ a[sessions[s]] = None
  THEN [sessions EXCEPT ![s] = None] ELSE sessions
CleanupIgnoringAgent(s, a, v) ==    \* Faulty: session.agent is not tested.
  IF sessions[s] # None /\ \A k \in Millis : v[sessions[s]][k] = None
  THEN [sessions EXCEPT ![s] = None] ELSE sessions
CleanupSessionIfEmpty(s, a, v) ==
  IF /\ sessions[s] # None
     /\ a[sessions[s]] = None
     /\ \A k \in Millis : v[sessions[s]][k] = None
  THEN [sessions EXCEPT ![s] = None]
  ELSE sessions

-----------------------------------------------------------------------------
(* wss.on('connection').                                                   *)

\* No sessionId: the connection is closed and no handler is registered.
ConnectWithoutSession(c) ==
  /\ ws[c] = "idle"
  /\ Refused(c)
  /\ CountRefused
  /\ relay' = NoRelay
  /\ UNCHANGED <<closure, sessions, session, now, status, scale, errored, superseded>>

\* A path other than /agent and /viewer: the session was looked up, and
\* created if need be, before the path is examined.
ConnectUnknownPath(c, s) ==
  /\ ws[c] = "idle"
  /\ Refused(c)
  /\ Capture(c, s, "none", None)
  /\ CountRefused
  /\ relay' = NoRelay
  /\ UNCHANGED <<session, now, status, scale, errored, superseded>>

\* handleAgentConnection, the session's agent being OPEN.
RefuseAgent(c, s) ==
  /\ ws[c] = "idle"
  /\ sessions[s] # None
  /\ Open(agent[sessions[s]])
  /\ Refused(c)
  /\ Capture(c, s, "none", None)
  /\ CountRefused
  /\ relay' = NoRelay
  /\ UNCHANGED <<session, now, status, scale, errored, superseded>>

\* handleAgentConnection otherwise: the slot is taken, also from an agent
\* that is CLOSING, and the viewers are told.
AcceptAgent(c, s) ==
  LET o == SessionFor(c, s) IN
  /\ ws[c] = "idle"
  /\ ~Open(agent[o])
  /\ Connected(c)
  /\ Capture(c, s, "agent", None)
  /\ agent' = [agent EXCEPT ![o] = c]
  /\ Count(1, 1, 1, 0)
  /\ Tell(OpenViewers(o), "up")
  /\ relay' = NoRelay
  /\ superseded' = IF agent[o] = None THEN superseded
                                      ELSE superseded \cup {agent[o]}
  /\ UNCHANGED <<viewers, agentScreen, clientScreen, now, scale, errored>>

\* handleViewerConnection: the viewer is registered under the current
\* millisecond and told whether the agent is there.
AcceptViewer(c, s) ==
  LET o == SessionFor(c, s) IN
  /\ ws[c] = "idle"
  /\ Connected(c)
  /\ Capture(c, s, "viewer", now)
  /\ viewers' = [viewers EXCEPT ![o][now] = c]
  /\ Count(1, 1, 0, 1)
  /\ Tell({c}, IF Open(agent[o]) THEN "up" ELSE "down")
  /\ relay' = NoRelay
  /\ UNCHANGED <<agent, agentScreen, clientScreen, now, scale, errored, superseded>>

-----------------------------------------------------------------------------
(* Messages.                                                               *)

\* ws.on('message') of an agent, type screen_info.  A client whose screen is
\* undefined makes calculateOptimalScale throw: the clients that come after
\* it in the Map get no set_scale, and nothing is forwarded.
Unscalable(o) == {v \in Clients(o) : Open(v) /\ clientScreen[v] = Undefined}

Rescale(S, scr) ==
  scale' = [v \in Conn |-> IF v \in S
                           THEN [agent |-> scr, client |-> clientScreen[v]]
                           ELSE scale[v]]
RescaleNobody(S, scr) == scale' = scale  \* Faulty: the clients keep their scale.
RescaleClients(S, scr) == Rescale(S, scr)

AgentScreenInfo(c, scr) ==
  LET o == obj[c]
      clients == {v \in Clients(o) : Open(v)} \ Unscalable(o)
  IN
  /\ Open(c) /\ role[c] = "agent"
  /\ agentScreen' = [agentScreen EXCEPT ![o] = scr]
  /\ IF Unscalable(o) = {}
     THEN /\ RescaleClients(clients, scr)
          /\ relay' = [kind |-> "screen_info", from |-> c, to |-> OpenViewers(o)]
     ELSE /\ \E reached \in SUBSET clients : RescaleClients(reached, scr)
          /\ relay' = NoRelay
  /\ UNCHANGED <<ws, closure, sessions, agent, viewers, clientScreen, stats,
                 now, status, errored, superseded>>

\* ws.on('message') of an agent, any other message: forwarded to the viewers.
ToAllRegistered(c) == Registered(obj[c])  \* Faulty: readyState is not tested.
FrameReceivers(c) == OpenViewers(obj[c])
AgentFrame(c) ==
  /\ Open(c) /\ role[c] = "agent"
  /\ relay' = [kind |-> "frame", from |-> c, to |-> FrameReceivers(c)]
  /\ UNCHANGED <<ws, closure, sessions, session, stats, now, status, scale,
                 errored, superseded>>

\* ws.on('message') of a viewer, type client_info.  Without a screen the entry
\* is stored and the log statement throws before anything is sent.
ScaleUnguarded(c, scr) == scr # Undefined  \* Faulty: agentScreen is not tested.
HasScale(c, scr) == agentScreen[obj[c]] # None /\ scr # Undefined
ViewerClientInfo(c, scr) ==
  /\ Open(c) /\ role[c] = "viewer"
  /\ clientScreen' = [clientScreen EXCEPT ![c] = scr]
  /\ scale' = IF HasScale(c, scr)
              THEN [scale EXCEPT ![c] = [agent |-> agentScreen[obj[c]],
                                         client |-> scr]]
              ELSE scale
  /\ relay' = NoRelay
  /\ UNCHANGED <<ws, closure, sessions, agent, viewers, agentScreen, stats,
                 now, status, errored, superseded>>

\* ws.on('message') of a viewer, any other message: forwarded to the agent.
InputReceivers(c) == IF Open(agent[obj[c]]) THEN {agent[obj[c]]} ELSE {}
ViewerInput(c) ==
  /\ Open(c) /\ role[c] = "viewer"
  /\ relay' = [kind |-> "input", from |-> c, to |-> InputReceivers(c)]
  /\ UNCHANGED <<ws, closure, sessions, session, stats, now, status, scale,
                 errored, superseded>>

-----------------------------------------------------------------------------
(* The end of a connection.                                                *)

\* ws: a close frame, a lost socket or terminate() makes the connection
\* CLOSING; the 'close' event is still to come.
BeginClose(c) ==
  /\ Open(c)
  /\ ws' = [ws EXCEPT ![c] = "CLOSING"]
  /\ relay' = NoRelay
  /\ UNCHANGED <<closure, sessions, session, stats, now, status, scale,
                 errored, superseded>>

\* ws.on('error') of an agent: ws has begun to close the connection.
AgentError(c) ==
  /\ Open(c) /\ role[c] = "agent"
  /\ ws' = [ws EXCEPT ![c] = "CLOSING"]
  /\ errored' = errored \cup {c}
  /\ Count(0, -1, -1, 0)
  /\ relay' = NoRelay
  /\ UNCHANGED <<closure, sessions, session, now, status, scale, superseded>>

\* ws.on('error') of a viewer: it is removed from the session, the session is
\* left in the map.
ViewerError(c) ==
  /\ Open(c) /\ role[c] = "viewer"
  /\ ws' = [ws EXCEPT ![c] = "CLOSING"]
  /\ errored' = errored \cup {c}
  /\ viewers' = [viewers EXCEPT ![obj[c]][viewerId[c]] = None]
  /\ clientScreen' = [clientScreen EXCEPT ![c] = None]
  /\ Count(0, -1, 0, -1)
  /\ relay' = NoRelay
  /\ UNCHANGED <<closure, sessions, agent, agentScreen, now, status, scale, superseded>>

\* ws.on('close') of an agent: the slot is emptied whoever holds it now.
SlotEmptied(c) == [agent EXCEPT ![obj[c]] = None]
ToldNobody(c) == {}                        \* Faulty: the viewers are not told.
ToldOfClose(c) == OpenViewers(obj[c])
AgentClose(c) ==
  /\ ws[c] = "CLOSING" /\ role[c] = "agent"
  /\ ws' = [ws EXCEPT ![c] = "CLOSED"]
  /\ agent' = SlotEmptied(c)
  /\ Count(0, -1, -1, 0)
  /\ Tell(ToldOfClose(c), "down")
  /\ sessions' = CleanupSessionIfEmpty(sid[c], agent', viewers)
  /\ relay' = NoRelay
  /\ UNCHANGED <<closure, viewers, agentScreen, clientScreen, now, scale,
                 errored, superseded>>

\* ws.on('close') of a viewer: the entry under its id goes, whoever's it is.
EntryKept(c) == viewers  \* Faulty: the viewer stays registered.
EntryDeleted(c) == [viewers EXCEPT ![obj[c]][viewerId[c]] = None]
ViewerClose(c) ==
  /\ ws[c] = "CLOSING" /\ role[c] = "viewer"
  /\ ws' = [ws EXCEPT ![c] = "CLOSED"]
  /\ viewers' = EntryDeleted(c)
  /\ clientScreen' = [clientScreen EXCEPT ![c] = None]
  /\ Count(0, -1, 0, -1)
  /\ sessions' = CleanupSessionIfEmpty(sid[c], agent, viewers')
  /\ relay' = NoRelay
  /\ UNCHANGED <<closure, agent, agentScreen, now, status, scale, errored, superseded>>

\* A refused connection has no handlers: nothing else changes.  An 'error' on
\* it, which nothing would catch, is left out: it would end the process.
RefusedClose(c) ==
  /\ ws[c] = "CLOSING" /\ role[c] = "none"
  /\ ws' = [ws EXCEPT ![c] = "CLOSED"]
  /\ relay' = NoRelay
  /\ UNCHANGED <<closure, sessions, session, stats, now, status, scale,
                 errored, superseded>>

\* Time passes between two events.
Tick ==
  /\ now < MaxMs
  /\ now' = now + 1
  /\ relay' = NoRelay
  /\ UNCHANGED <<ws, closure, sessions, session, stats, status, scale,
                 errored, superseded>>

-----------------------------------------------------------------------------

Connect(c) ==
  \/ ConnectWithoutSession(c)
  \/ \E s \in SessionId : \/ ConnectUnknownPath(c, s)
                          \/ RefuseAgent(c, s)
                          \/ AcceptAgent(c, s)
                          \/ AcceptViewer(c, s)

Message(c) ==
  \/ \E scr \in Screen : AgentScreenInfo(c, scr)
  \/ AgentFrame(c)
  \/ \E scr \in ClientScreen : ViewerClientInfo(c, scr)
  \/ ViewerInput(c)

CloseEvent(c) == AgentClose(c) \/ ViewerClose(c) \/ RefusedClose(c)

End(c) == BeginClose(c) \/ AgentError(c) \/ ViewerError(c) \/ CloseEvent(c)

Next == Tick \/ \E c \in Conn : Connect(c) \/ Message(c) \/ End(c)

\* ws destroys the socket 30 s after it began to close it, so that the 'close'
\* event of a closing connection is never withheld for ever.
Fairness == \A c \in Conn : WF_vars(CloseEvent(c))

Spec == Init /\ [][Next]_vars
FairSpec == Spec /\ Fairness
-----------------------------------------------------------------------------
(* Properties.                                                             *)

\* A connection that was accepted and whose 'close' handler has not run.
Live(c) == role[c] # "none" /\ ws[c] \in {"OPEN", "CLOSING"}

\* No other viewer of the session was accepted in the same millisecond.
UniqueId(v) == ~ \E w \in Conn \ {v} : /\ role[w] = "viewer"
                                       /\ obj[w] = obj[v]
                                       /\ viewerId[w] = viewerId[v]

\* No agent of session o was replaced while its close was under way.
Undisturbed(o) == ~ \E a \in superseded : obj[a] = o

\* Every reference the registry holds leads to a live connection of the right
\* kind that captured the very object holding it, under the id it captured:
\* the handlers of lines 149-212 and 283-309 send only to such connections,
\* and a session object in the map is there under its own id.
ObjectsKnown ==
  /\ \A s \in SessionId : sessions[s] # None => sid[sessions[s]] = s
  /\ \A c \in Conn : obj[c] # None => sid[obj[c]] = sid[c]
AgentsKnown ==
  \A o \in Conn : agent[o] # None =>
    Live(agent[o]) /\ role[agent[o]] = "agent" /\ obj[agent[o]] = o
ViewersKnown ==
  \A o \in Conn, k \in Millis : viewers[o][k] # None =>
    LET v == viewers[o][k] IN
    Live(v) /\ role[v] = "viewer" /\ obj[v] = o /\ viewerId[v] = k
RegistryConsistent == ObjectsKnown /\ AgentsKnown /\ ViewersKnown

\* A viewer that can be reached is told "connected" while the agent is OPEN,
\* and is told "disconnected" before the agent slot is empty, in whatever
\* order agents and viewers come, go and replace each other
\* (handleAgentConnection, handleViewerConnection and the 'close' handler).
StatusAgrees ==
  \A o \in Conn : \A v \in OpenViewers(o) :
    /\ Open(agent[o]) => status[v] = "up"
    /\ status[v] = "up" => agent[o] # None

\* An open viewer that shares its millisecond with no other stays registered
\* in the session that newcomers with the same session id find, so that
\* cleanupSessionIfEmpty never takes the session away from under it.
ViewerReachable ==
  \A v \in Conn : Open(v) /\ role[v] = "viewer" /\ UniqueId(v) =>
    /\ v \in Registered(obj[v])
    /\ sessions[sid[v]] = obj[v]

\* An open agent holds the slot of the session that newcomers find, unless an
\* agent of that session was replaced before its 'close' event: then that
\* event empties the slot of the newcomer (line 203).
AgentReachable ==
  \A a \in Conn : Open(a) /\ role[a] = "agent" /\ Undisturbed(obj[a]) =>
    /\ agent[obj[a]] = a
    /\ sessions[sid[a]] = obj[a]

\* What an agent sends reaches every open viewer that gave the same session
\* id and nobody else, and what a viewer sends reaches the open agent of the
\* same session id and nobody else, the two faults above excepted (the relay
\* loops of lines 186-194 and 273-277 go by session object, not by id).
RelayToSameSession ==
  LET c == relay.from IN relay.kind # "none" =>
    /\ \A d \in relay.to : Open(d) /\ sid[d] = sid[c] /\ role[d] # role[c]
    /\ Undisturbed(obj[c]) =>
         \A d \in Conn : /\ Open(d) /\ role[d] # "none" /\ role[d] # role[c]
                         /\ sid[d] = sid[c] /\ Undisturbed(obj[d])
                         /\ \A v \in {c, d} : role[v] = "viewer" => UniqueId(v)
                         => d \in relay.to

\* What keeps the session object o in the map.
Needed(o) ==
  \/ agent[o] # None
  \/ \E k \in Millis : viewers[o][k] # None
  \/ role[o] = "none"
  \/ \E v \in Conn : obj[v] = o /\ role[v] = "viewer" /\ ws[v] = "CLOSING"

\* cleanupSessionIfEmpty leaves no session behind without agent and viewers,
\* but for one created for an unknown path, and one whose viewer had a
\* protocol error and will run its 'close' handler.
NoEmptySession ==
  \A s \in SessionId : sessions[s] # None => Needed(sessions[s])

\* connectionState counts the live connections, less one for every protocol
\* error so far: such a connection is subtracted by both of its handlers.
CountersExact ==
  LET LiveIn(R) == {c \in Conn : Live(c) /\ role[c] \in R}
      ErroredIn(R) == {c \in errored : role[c] \in R}
      Counted(R) == Cardinality(LiveIn(R)) - Cardinality(ErroredIn(R))
  IN /\ stats.active = Counted({"agent", "viewer"})
     /\ stats.agents = Counted({"agent"})
     /\ stats.viewers = Counted({"viewer"})

\* The last set_scale of an open viewer was computed from the screen its
\* agents announced last and the screen the viewer announced last, in either
\* order of the two and through changes of agent (lines 163-183, 254-270).
\* It holds as long as no client_info of the session lacks its screen.
ScaleCurrent ==
  \A v \in Conn :
    (Open(v) /\ clientScreen[v] \in Screen /\ agentScreen[obj[v]] # None) =>
      scale[v] = [agent |-> agentScreen[obj[v]], client |-> clientScreen[v]]
=============================================================================
