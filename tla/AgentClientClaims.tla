-------------------------- MODULE AgentClientClaims --------------------------
(* What the agent's messages and comments say of it and its code does not do. *)
EXTENDS AgentClient

\* "WebSocket disconnected. Attempting to reconnect..." (main.cpp:227): an
\* agent that lost its connection calls connect() again.
ReconnectsAfterLoss == pc = "idle" ~> (io = "reconnect" \/ Ended)

=============================================================================
