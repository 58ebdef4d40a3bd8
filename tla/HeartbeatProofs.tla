--------------------------- MODULE HeartbeatProofs ---------------------------
(***************************************************************************)
(* The ping timers, for every set of connections: they only add steps that *)
(* the server takes anyway, so that everything proved of ShareServer holds *)
(* with them, and they drop exactly the peers that fell silent.            *)
(***************************************************************************)
EXTENDS Heartbeat, ShareServerProofs

\* The timers, the pings and the peers change the server's state as one of its
\* own events does, or not at all (setupPingPong, index.js:331-362).
THEOREM TimersAddNothing == HSpec => Spec
<1>1. HInit => Init
  BY DEF HInit
<1>2. [HNext]_hvars => [Next]_vars
  <2> SUFFICES ASSUME [HNext]_hvars PROVE [Next]_vars
    OBVIOUS
  <2>1. CASE HTick
    BY <2>1 DEF HTick, Next
  <2>2. ASSUME NEW c \in Conn, HConnect(c) PROVE [Next]_vars
    BY <2>2 DEF HConnect, Next
  <2>3. ASSUME NEW c \in Conn, HPeer(c) PROVE [Next]_vars
    BY <2>3 DEF HPeer, Next, End
  <2>4. ASSUME NEW c \in Conn, HClose(c) PROVE [Next]_vars
    BY <2>4 DEF HClose, Next, End
  <2>5. ASSUME NEW c \in Conn, Vanish(c) \/ Pong(c) PROVE [Next]_vars
    BY <2>5 DEF Vanish, Pong
  <2>6. ASSUME NEW c \in Conn, PingInterval(c) PROVE [Next]_vars
    <3>1. CASE Ping(c) \/ StopTimer(c)
      BY <3>1 DEF Ping, StopTimer
    <3>2. CASE GiveUp(c)
      BY <3>2 DEF GiveUp, Terminate, Next, End
    <3> QED
      BY <2>6, <3>1, <3>2 DEF PingInterval
  <2>7. CASE UNCHANGED hvars
    BY <2>7 DEF hvars
  <2> QED
    BY <2>1, <2>2, <2>3, <2>4, <2>5, <2>6, <2>7 DEF HNext
<1> QED
  BY <1>1, <1>2, PTL DEF HSpec, Spec

\* A vanished peer is counted from 0; at its first callback the flag is down,
\* and with the second the connection is no longer open.
MissedInv ==
  \A c \in Conn :
    /\ peer[c] = "up" => missed[c] = 0
    /\ ws[c] = "idle" => peer[c] = "up"
    /\ Open(c) /\ peer[c] = "gone" => missed[c] = 0 \/ (missed[c] = 1 /\ isAlive[c] = FALSE)

\* The flag is down only while a pong is due.
DueInv == \A c \in Conn : isAlive[c] = FALSE => unanswered[c] = TRUE

HInv == HTypeOK /\ MissedInv /\ DueInv

\* The steps of the server itself.
LEMMA ServerStep ==
  ASSUME TypeInv, HInv, HTick \/ \E c \in Conn : HConnect(c) \/ HPeer(c)
  PROVE  HInv'
<1>1. /\ UNCHANGED <<peer, unanswered, isAlive, missed>>
      /\ timer' \in [Conn -> BOOLEAN]
  BY DEF HTick, HConnect, HPeer, beat, HInv, HTypeOK
<1>2. ws \in [Conn -> {"idle", "OPEN", "CLOSING", "CLOSED"}]
  BY DEF TypeInv, TypeOK
<1>3. \A d \in Conn : /\ ws'[d] = "idle" => ws[d] = "idle"
                      /\ ws'[d] = "OPEN" => ws[d] \in {"idle", "OPEN"}
  <2>1. CASE ws' = ws
    BY <2>1
  <2>2. CASE \E c \in Conn : ws[c] = "idle" /\ (Connected(c) \/ Refused(c))
    BY <1>2, <2>2 DEF Connected, Refused
  <2>3. CASE \E c \in Conn : Open(c) /\ ws' = [ws EXCEPT ![c] = "CLOSING"]
    BY <1>2, <2>3 DEF Open
  <2>4. CASE HTick
    BY <2>1, <2>4 DEF HTick, Tick
  <2>5. ASSUME NEW c \in Conn, HConnect(c)
        PROVE  ws[c] = "idle" /\ (Connected(c) \/ Refused(c))
    BY <2>5 DEF HConnect, Connect, ConnectWithoutSession, ConnectUnknownPath,
       RefuseAgent, AcceptAgent, AcceptViewer
  <2>6. ASSUME NEW c \in Conn, HPeer(c)
        PROVE  ws' = ws \/ (Open(c) /\ ws' = [ws EXCEPT ![c] = "CLOSING"])
    BY <2>6 DEF HPeer, Message, AgentScreenInfo, AgentFrame, ViewerClientInfo, ViewerInput,
       BeginClose, AgentError, ViewerError
  <2> QED
    BY <2>1, <2>2, <2>3, <2>4, <2>5, <2>6
<1>4. HTypeOK' /\ DueInv'
  BY <1>1 DEF HInv, HTypeOK, DueInv
<1>5. MissedInv'
  BY <1>1, <1>3 DEF HInv, MissedInv, Open
<1> QED
  BY <1>4, <1>5 DEF HInv

\* The 'close' event, which forgets the peer.
LEMMA CloseStep ==
  ASSUME TypeInv, HInv, NEW c \in Conn, HClose(c)
  PROVE  HInv'
<1>1. ws[c] = "CLOSING" /\ ws' = [ws EXCEPT ![c] = "CLOSED"]
  BY DEF HClose, CloseEvent, AgentClose, ViewerClose, RefusedClose
<1>2. HTypeOK'
  BY DEF HClose, HInv, HTypeOK, AliveAtFirst
<1>3. \A d \in Conn : d # c => /\ ws'[d] = ws[d] /\ peer'[d] = peer[d] /\ missed'[d] = missed[d]
                               /\ isAlive'[d] = isAlive[d] /\ unanswered'[d] = unanswered[d]
  BY <1>1 DEF HClose, HInv, HTypeOK, TypeInv, TypeOK
<1>4. peer'[c] = "up" /\ missed'[c] = 0 /\ isAlive'[c] = TRUE /\ ws'[c] = "CLOSED"
  BY <1>1 DEF HClose, HInv, HTypeOK, TypeInv, TypeOK, AliveAtFirst
<1>5. MissedInv' /\ DueInv'
  BY <1>3, <1>4 DEF HInv, MissedInv, DueInv, Open
<1> QED
  BY <1>2, <1>5 DEF HInv

\* Peers that vanish or answer, and the timer's callbacks.
LEMMA BeatStep ==
  ASSUME TypeInv, HInv, NEW c \in Conn, Vanish(c) \/ Pong(c) \/ PingInterval(c)
  PROVE  HInv'
<1> USE DEF HInv
<1>1. CASE Vanish(c)
  <2>1. HTypeOK' /\ DueInv'
    BY <1>1 DEF Vanish, HTypeOK, DueInv
  <2>2. MissedInv'
    BY <1>1 DEF Vanish, HTypeOK, MissedInv, Open, vars
  <2> QED
    BY <2>1, <2>2
<1>2. CASE Pong(c)
  <2>1. HTypeOK' /\ DueInv'
    BY <1>2 DEF Pong, HTypeOK, DueInv
  <2>2. MissedInv'
    BY <1>2 DEF Pong, HTypeOK, MissedInv, Open, vars
  <2> QED
    BY <2>1, <2>2
<1>3. CASE Ping(c)
  <2>1. /\ isAlive[c] /\ Open(c) /\ UNCHANGED <<ws, peer>>
        /\ isAlive' = [isAlive EXCEPT ![c] = FALSE]
        /\ unanswered' = [unanswered EXCEPT ![c] = TRUE]
        /\ timer' = timer
        /\ missed' = IF peer[c] = "gone" THEN [missed EXCEPT ![c] = @ + 1] ELSE missed
    BY <1>3 DEF Ping, AliveAfterPing, Missed, vars
  <2>2. peer[c] = "gone" => missed[c] = 0
    BY <2>1 DEF MissedInv
  <2>3. HTypeOK'
    BY <2>1, <2>2 DEF HTypeOK
  <2>4. DueInv'
    BY <2>1 DEF HTypeOK, DueInv
  <2>5. MissedInv'
    BY <2>1, <2>2 DEF HTypeOK, MissedInv, Open
  <2> QED
    BY <2>3, <2>4, <2>5
<1>4. CASE GiveUp(c)
  <2>1. /\ Open(c) /\ ws' = [ws EXCEPT ![c] = "CLOSING"]
        /\ UNCHANGED <<peer, unanswered, isAlive>>
        /\ timer' = [timer EXCEPT ![c] = FALSE]
        /\ missed' = IF peer[c] = "gone" THEN [missed EXCEPT ![c] = @ + 1] ELSE missed
    BY <1>4 DEF GiveUp, Terminate, BeginClose, Missed
  <2>2. peer[c] = "gone" => missed[c] \in 0 .. 1
    BY <2>1 DEF MissedInv
  <2>3. HTypeOK' /\ DueInv'
    BY <2>1, <2>2 DEF HTypeOK, DueInv
  <2>4. MissedInv'
    BY <2>1 DEF HTypeOK, MissedInv, Open, TypeInv, TypeOK
  <2> QED
    BY <2>3, <2>4
<1>5. CASE StopTimer(c)
  <2>1. HTypeOK' /\ DueInv'
    BY <1>5 DEF StopTimer, HTypeOK, DueInv
  <2>2. MissedInv'
    BY <1>5 DEF StopTimer, MissedInv, Open, vars
  <2> QED
    BY <2>1, <2>2
<1> QED
  BY <1>1, <1>2, <1>3, <1>4, <1>5 DEF PingInterval

LEMMA HeartbeatInvariance == HSpec => [](TypeInv /\ HInv)
<1>1. HInit => HInv
  <2> SUFFICES ASSUME HInit PROVE HInv
    OBVIOUS
  <2>1. HTypeOK
    BY DEF HInit, HTypeOK, AliveAtFirst
  <2>2. MissedInv /\ DueInv
    BY DEF HInit, Init, MissedInv, DueInv, AliveAtFirst, Open
  <2> QED
    BY <2>1, <2>2 DEF HInv
<1>2. TypeInv /\ HInv /\ [HNext]_hvars => HInv'
  <2> SUFFICES ASSUME TypeInv, HInv, [HNext]_hvars PROVE HInv'
    OBVIOUS
  <2>1. CASE UNCHANGED hvars
    BY <2>1 DEF hvars, beat, vars, HInv, HTypeOK, MissedInv, DueInv, Open
  <2> QED
    BY <2>1, ServerStep, CloseStep, BeatStep DEF HNext
<1>3. HSpec => []TypeInv
  BY TimersAddNothing, TypeInvariant, PTL
<1> QED
  BY <1>1, <1>2, <1>3, PTL DEF HSpec

\* The heartbeat's state keeps its types, at most two callbacks of a vanished
\* peer among them.
THEOREM HeartbeatTypes == HSpec => []HTypeOK
<1>1. HInv => HTypeOK
  BY DEF HInv
<1> QED
  BY <1>1, HeartbeatInvariance, PTL

\* A peer that vanishes is sent one more ping at most (index.js:337-350).
THEOREM VanishedDropped == HSpec => []VanishedPeerDropped
<1>1. HInv => VanishedPeerDropped
  BY DEF HInv, MissedInv, VanishedPeerDropped
<1> QED
  BY <1>1, HeartbeatInvariance, PTL

\* Whoever is given up on owes a pong: no peer that answers every ping before
\* the next one is ever dropped by its timer (index.js:339-342).
THEOREM OnlySilentDropped == HSpec => OnlySilentPeersDropped
<1>1. HInv => \A c \in Conn : GiveUp(c) => unanswered[c]
  BY DEF HInv, DueInv, HTypeOK, GiveUp
<1>2. HInv /\ [HNext]_hvars => [\A c \in Conn : GiveUp(c) => unanswered[c]]_hvars
  BY <1>1
<1> QED
  BY <1>2, HeartbeatInvariance, PTL DEF OnlySilentPeersDropped, HSpec
=============================================================================
