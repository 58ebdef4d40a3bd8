--------------------------- MODULE ServerPresence ---------------------------
(***************************************************************************)
(* The server implements Presence, as long as its connections are orderly: *)
(* no agent takes a slot before the 'close' event of the one it replaces,  *)
(* and no two viewers of a session share a millisecond.  What happens when *)
(* they are not is the matter of ShareServerClaims.                        *)
(***************************************************************************)
EXTENDS ShareServer

\* The agent newcomers to session s are told of.
Holder(s) == IF sessions[s] # None /\ Open(agent[sessions[s]])
             THEN agent[sessions[s]] ELSE None

Watching(v) == Open(v) /\ role[v] = "viewer"

P == INSTANCE Presence WITH
       holder   <- [s \in SessionId |-> Holder(s)],
       watching <- [v \in Conn |-> IF Watching(v) THEN sid[v] ELSE None],
       told     <- [v \in Conn |-> IF Watching(v) THEN status[v] ELSE "none"]

Orderly == superseded = {} /\ \A v \in Conn : UniqueId(v)

OrderlySpec == Init /\ [][Next /\ Orderly']_vars /\ Fairness

\* Under the reading above, every handler is a step of Presence or leaves it
\* as it is, and the 'close' event of the agent is what announces that it
\* left: handleAgentConnection, handleViewerConnection and their handlers
\* together, through all the lookups by id and by captured object.
PresenceImplemented == P!Spec

\* The part of it that holds step by step.
PresenceSafety == P!Init /\ [][P!Next]_(P!vars)

=============================================================================
