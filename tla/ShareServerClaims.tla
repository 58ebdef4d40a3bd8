-------------------------- MODULE ShareServerClaims --------------------------
(***************************************************************************)
(* What the comments of Remote-Share/Server/index.js say of the server and *)
(* the code does not do, as a run shows.                                   *)
(***************************************************************************)
EXTENDS MCShareServer

\* Line 365: a session is cleaned up "if it has no connected agent and no
\* connected viewers", so that of a connected agent is in the map.
SessionOfAgentKept ==
  \A a \in Conn : Open(a) /\ role[a] = "agent" => sessions[sid[a]] = obj[a]

=============================================================================
