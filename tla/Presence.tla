------------------------------ MODULE Presence ------------------------------
(***************************************************************************)
(* What the relay server promises the viewers of a session, without the    *)
(* sockets, the session objects and the map that hold it together:  a      *)
(* session has at most one agent, an arriving agent is announced to all    *)
(* who watch the session, whoever begins to watch is told at once how      *)
(* things stand, and the departure of an agent, which may go unnoticed for *)
(* a while, is announced unless another agent takes over first.            *)
(***************************************************************************)
CONSTANTS
  Conn,       \* agents and viewers
  SessionId,  \* sessions
  None        \* nobody, and no session

VARIABLES
  holder,    \* the agent that serves a session
  watching,  \* the session a viewer watches
  told       \* what a viewer was told last about its session's agent

vars == <<holder, watching, told>>

Init ==
  /\ holder = [s \in SessionId |-> None]
  /\ watching = [v \in Conn |-> None]
  /\ told = [v \in Conn |-> "none"]

Watchers(s) == {v \in Conn : watching[v] = s}

Announce(s, what) ==
  told' = [v \in Conn |-> IF v \in Watchers(s) THEN what ELSE told[v]]

Enter(a, s) ==
  /\ holder[s] = None
  /\ \A r \in SessionId : holder[r] # a
  /\ holder' = [holder EXCEPT ![s] = a]
  /\ Announce(s, "up")
  /\ UNCHANGED watching

Leave(s) ==
  /\ holder[s] # None
  /\ holder' = [holder EXCEPT ![s] = None]
  /\ UNCHANGED <<watching, told>>

Notice(s) ==
  /\ holder[s] = None
  /\ Announce(s, "down")
  /\ UNCHANGED <<holder, watching>>

Watch(v, s) ==
  /\ watching[v] = None
  /\ watching' = [watching EXCEPT ![v] = s]
  /\ told' = [told EXCEPT ![v] = IF holder[s] = None THEN "down" ELSE "up"]
  /\ UNCHANGED holder

Unwatch(v) ==
  /\ watching[v] # None
  /\ watching' = [watching EXCEPT ![v] = None]
  /\ told' = [told EXCEPT ![v] = "none"]
  /\ UNCHANGED holder

Next ==
  \/ \E s \in SessionId : \/ Leave(s)
                          \/ Notice(s)
                          \/ \E c \in Conn : Enter(c, s) \/ Watch(c, s)
  \/ \E v \in Conn : Unwatch(v)

Spec == Init /\ [][Next]_vars /\ \A s \in SessionId : WF_vars(Notice(s))
=============================================================================
