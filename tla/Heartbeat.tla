------------------------------ MODULE Heartbeat ------------------------------
(***************************************************************************)
(* setupPingPong of Remote-Share/Server/index.js over the connections of   *)
(* ShareServer: the interval timer of every accepted connection, its       *)
(* isAlive flag and the peer at the other end, which may answer pings,     *)
(* close the connection, or vanish without a word (a machine that sleeps,  *)
(* a cable that is pulled).  From then on nothing it sent arrives.         *)
(***************************************************************************)
EXTENDS ShareServer

VARIABLES
  peer,        \* "up" or "gone"; the other end of the connection
  unanswered,  \* a ping was sent and its pong has not arrived
  isAlive,     \* isAlive of setupPingPong
  timer,       \* pingInterval is set
  missed       \* history: timer callbacks since the peer vanished

beat  == <<peer, unanswered, isAlive, timer, missed>>
hvars == <<vars, beat>>

HTypeOK ==
  /\ peer \in [Conn -> {"up", "gone"}]
  /\ unanswered \in [Conn -> BOOLEAN]
  /\ isAlive \in [Conn -> BOOLEAN]
  /\ timer \in [Conn -> BOOLEAN]
  /\ missed \in [Conn -> 0 .. 2]

\* let isAlive = true.
AliveFromAnswer == FALSE  \* Faulty: only a pong makes a connection alive.
AliveAtFirst == TRUE

HInit ==
  /\ Init
  /\ peer = [c \in Conn |-> "up"]
  /\ unanswered = [c \in Conn |-> FALSE]
  /\ isAlive = [c \in Conn |-> AliveAtFirst]
  /\ timer = [c \in Conn |-> FALSE]
  /\ missed = [c \in Conn |-> 0]

\* Both handlers that accept a connection end with setupPingPong.
HConnect(c) ==
  /\ Connect(c)
  /\ timer' = [timer EXCEPT ![c] = ws'[c] = "OPEN"]
  /\ UNCHANGED <<peer, unanswered, isAlive, missed>>

\* A message, a close or a fault of the connection, as long as the peer is up.
HPeer(c) ==
  /\ peer[c] = "up"
  /\ Message(c) \/ BeginClose(c) \/ AgentError(c) \/ ViewerError(c)
  /\ UNCHANGED beat

\* The 'close' event: setupPingPong registered a handler for it, too.  What
\* nothing reads any more goes back to its initial value.
HClose(c) ==
  /\ CloseEvent(c)
  /\ timer' = [timer EXCEPT ![c] = FALSE]
  /\ isAlive' = [isAlive EXCEPT ![c] = AliveAtFirst]
  /\ peer' = [peer EXCEPT ![c] = "up"]
  /\ unanswered' = [unanswered EXCEPT ![c] = FALSE]
  /\ missed' = [missed EXCEPT ![c] = 0]

HTick == Tick /\ UNCHANGED beat

Vanish(c) ==
  /\ Open(c) /\ peer[c] = "up"
  /\ peer' = [peer EXCEPT ![c] = "gone"]
  /\ UNCHANGED <<vars, unanswered, isAlive, timer, missed>>

\* ws.on('pong').
Pong(c) ==
  /\ Open(c) /\ peer[c] = "up" /\ unanswered[c]
  /\ isAlive' = [isAlive EXCEPT ![c] = TRUE]
  /\ unanswered' = [unanswered EXCEPT ![c] = FALSE]
  /\ UNCHANGED <<vars, peer, timer, missed>>

Missed(c) == missed' = IF peer[c] = "gone" /\ Open(c)
                       THEN [missed EXCEPT ![c] = @ + 1] ELSE missed

\* The timer callback: the connection is OPEN and was alive.
StaysAlive(c) == TRUE  \* Faulty: isAlive is not reset.
AliveAfterPing(c) == FALSE
Ping(c) ==
  /\ timer[c] /\ Open(c) /\ isAlive[c]
  /\ isAlive' = [isAlive EXCEPT ![c] = AliveAfterPing(c)]
  /\ unanswered' = [unanswered EXCEPT ![c] = TRUE]
  /\ Missed(c)
  /\ UNCHANGED <<vars, peer, timer>>

\* The timer callback: no pong came since the last one.
NotTerminated(c) == UNCHANGED vars  \* Faulty: only the interval is cleared.
Terminate(c) == BeginClose(c)
GiveUp(c) ==
  /\ timer[c] /\ Open(c) /\ ~isAlive[c]
  /\ Terminate(c)
  /\ timer' = [timer EXCEPT ![c] = FALSE]
  /\ Missed(c)
  /\ UNCHANGED <<peer, unanswered, isAlive>>

\* The timer callback: the connection is no longer OPEN.
StopTimer(c) ==
  /\ timer[c] /\ ~Open(c)
  /\ timer' = [timer EXCEPT ![c] = FALSE]
  /\ UNCHANGED <<vars, peer, unanswered, isAlive, missed>>

PingInterval(c) == Ping(c) \/ GiveUp(c) \/ StopTimer(c)

HNext ==
  \/ HTick
  \/ \E c \in Conn : \/ HConnect(c) \/ HPeer(c) \/ HClose(c)
                     \/ Vanish(c) \/ Pong(c) \/ PingInterval(c)

\* setInterval goes on firing until it is cleared.
HFairness == \A c \in Conn : /\ WF_hvars(HClose(c))
                             /\ WF_hvars(PingInterval(c))

HSpec == HInit /\ [][HNext]_hvars /\ HFairness
-----------------------------------------------------------------------------
(* Properties.                                                             *)

\* A vanished peer costs the server at most one more ping: at the second
\* callback of its timer the connection is no longer OPEN, wherever in the
\* cycle of pings and pongs the peer vanished (lines 337-350).
VanishedPeerDropped ==
  \A c \in Conn : Open(c) /\ peer[c] = "gone" => missed[c] <= 1

\* The server gives up only on a peer that owes it a pong (lines 339-342).
OnlySilentPeersDropped == [][\A c \in Conn : GiveUp(c) => unanswered[c]]_hvars

\* Nobody on session s can be heard any more, and its object was not left by
\* a connection with an unknown path.
Abandoned(s) ==
  /\ sessions[s] # None => role[sessions[s]] # "none"
  /\ \A c \in Conn : sid[c] = s => ~Open(c) \/ peer[c] = "gone"

\* A session whose agent and viewers have all vanished leaves the map: the
\* timers close the connections, and the last 'close' event cleans up.
AbandonedSessionRemoved ==
  \A s \in SessionId : <>[]Abandoned(s) => <>[](sessions[s] = None)

\* The session of viewer v has an agent that is there.
Served(v) == Open(agent[obj[v]]) /\ peer[agent[obj[v]]] = "up"

\* A viewer does not go on believing in an agent that vanished: it is told,
\* unless another agent comes, the viewer goes, or it loses its entry to a
\* viewer of the same millisecond.
VanishedAgentAnnounced ==
  \A v \in Conn :
    (Open(v) /\ role[v] = "viewer" /\ ~Served(v))
      ~> (~Open(v) \/ status[v] = "down" \/ Served(v) \/ ~UniqueId(v))
=============================================================================
