---------------------------- MODULE MCHeartbeat ----------------------------
(***************************************************************************)
(* Heartbeat for TLC, which does not check liveness up to symmetry: the    *)
(* connections are told apart by what they try to be.  Of the messages,    *)
(* which do not touch the timers, the input without a receiver stands for  *)
(* all, and the clock moves only when everybody has gone, since one viewer *)
(* has no other to share an id with.                                       *)
(***************************************************************************)
EXTENDS Heartbeat

CONSTANT Agents  \* the connections that connect as agents, if they do

Silent ==
  /\ relay'.kind \in {"none", "input"} /\ relay'.to = {}
  /\ now' # now => \A c \in Conn : ws[c] = "CLOSED"
  /\ \A c \in Conn : role'[c] = "agent" => c \in Agents
  /\ \A c \in Conn : role'[c] = "viewer" => c \notin Agents

SilentSpec == HInit /\ [][HNext /\ Silent]_hvars /\ HFairness
=============================================================================
