-------------------------- MODULE AgentClientProofs --------------------------
(***************************************************************************)
(* Proofs about the two threads of the agent, for every set of windows and *)
(* every bound on the polls and the pauses.                                *)
(***************************************************************************)
EXTENDS AgentClient, TLAPS

-----------------------------------------------------------------------------
(* The inductive invariant.                                                *)

\* Main has not called connect(), and there is no second thread.
Unstarted == pc = "connect" => io = "none"

\* onOpen has not come to its end, for this connection or an attempt before.
Early == \/ io \in {"none", "open1", "open2", "backoff", "reconnect"}
         \/ sock = "connecting"

\* Main found the flag set at some time.
Beyond == {"select", "announce", "sendInfo", "putInfo", "loop", "idle",
           "capture", "sendFrame", "putFrame", "close"}
Late == reading \/ pc \in Beyond

\* The connection is lost, and nothing can be sent on it any more.
Lost == sock \in {"closing", "gone"}

\* Until onOpen has stored the flag, main cannot have come beyond it.
NotBeforeOpen == Early => ~Late /\ ~m_connected
Opening == io \in {"open1", "open2"} => sock = "open"

\* Once it has, the flag is cleared only on a connection that is lost for good.
FlagTells == Late /\ ~m_connected => Lost

\* Main is in the loop without having announced the screen only if it found
\* the connection lost.
Streaming == {"loop", "idle", "capture", "sendFrame", "putFrame"}
Unannounced == pc \in Streaming /\ ~announced => Lost

IInv == /\ TypeOK
        /\ Unstarted
        /\ NotBeforeOpen
        /\ Opening
        /\ FlagTells
        /\ Unannounced
        /\ FramesAnnounced

-----------------------------------------------------------------------------
\* Where main goes on, by the place it asks from (main.cpp and send()).
LEMMA Branches ==
  ASSUME NEW p \in Asking
  PROVE  /\ IfNot[p] \in {"wait", "destroy", "loop", "idle", "stop"}
         /\ IfConnected[p] \in {"check", "select", "sendInfo", "putInfo",
                                 "capture", "putFrame", "close"}
         /\ IfNot[p] \in Streaming <=>
              p \in {"announce", "sendInfo", "loop", "sendFrame"}
         /\ IfConnected[p] \in Streaming <=> p \in {"loop", "sendFrame"}
  BY DEF Asking, IfNot, IfConnected, Streaming

\* A new agent satisfies the invariant.
LEMMA Initially == Init => IInv
  <1> SUFFICES ASSUME Init PROVE IInv
    OBVIOUS
  <1>1. TypeOK
    <2>1. polls \in 0 .. MaxPolls /\ attempts \in 0 .. MaxDelay
      BY AgentAssumption DEF Init
    <2>2. hwnd \in Window \cup {None}
      BY DEF Init
    <2> QED
      BY <2>1, <2>2 DEF Init, TypeOK, IOState
  <1>a. pc = "connect" /\ io = "none" /\ ~reading /\ ~m_connected /\ ~framed
    BY DEF Init
  <1>2. Unstarted /\ NotBeforeOpen /\ Opening
    BY <1>a DEF Unstarted, NotBeforeOpen, Opening, Late, Beyond
  <1>3. FlagTells /\ Unannounced /\ FramesAnnounced
    BY <1>a DEF FlagTells, Unannounced, FramesAnnounced, Late, Beyond, Streaming
  <1> QED
    BY <1>1, <1>2, <1>3 DEF IInv

\* Every step of either thread, of the user and of the network keeps the types.
LEMMA TypeStep == TypeOK /\ [Next]_vars => TypeOK'
  <1> SUFFICES ASSUME TypeOK, [Next]_vars PROVE TypeOK'
    OBVIOUS
  <1> USE AgentAssumption DEF TypeOK, MainAt, Goto, main, history, IOAt,
          Dispatch, IOState
  <1>1. CASE ConnectThrows
    BY <1>1 DEF ConnectThrows, Asking
  <1>2. CASE Connect
    BY <1>2 DEF Connect, Asking
  <1>3. CASE LoadConnected
    <2>1. pc' = pc \/ (pc \in Asking /\ pc' = IfNot[pc])
      BY <1>3 DEF LoadConnected
    <2>2. pc' \in Asking \cup {"connect", "wait", "select", "putInfo", "idle",
                 "capture", "putFrame", "close", "stop", "join", "exit"}
      BY <2>1, Branches DEF Asking
    <2> QED
      BY <1>3, <2>2 DEF LoadConnected
  <1>4. CASE TestExpired
    BY <1>4, Branches DEF TestExpired, Asking
  <1>5. CASE Wait
    BY <1>5 DEF Wait, Elapsed, Asking
  <1>6. CASE SelectWindow
    BY <1>6 DEF SelectWindow, Asking
  <1>7. CASE PutInfo
    BY <1>7 DEF PutInfo, Asking
  <1>8. CASE PutFrame
    BY <1>8 DEF PutFrame, Asking
  <1>9. CASE Capture
    BY <1>9 DEF Capture, Asking
  <1>10. CASE Idle
    BY <1>10 DEF Idle, Asking
  <1>11. CASE Close
    BY <1>11 DEF Close, Asking
  <1>12. CASE Stop
    BY <1>12 DEF Stop, Asking
  <1>13. CASE Join
    BY <1>13 DEF Join, Asking
  <1>14. CASE OpenStoreHandle
    BY <1>14 DEF OpenStoreHandle, Asking
  <1>15. CASE OpenStoreConnected
    BY <1>15 DEF OpenStoreConnected, Asking
  <1>16. CASE BackoffOver
    BY <1>16 DEF BackoffOver, Asking
  <1>17. CASE Reconnect
    BY <1>17 DEF Reconnect, Asking
  <1>18. CASE RunOutOfWork
    BY <1>18 DEF RunOutOfWork, Asking
  <1>19. CASE RunStopped
    BY <1>19 DEF RunStopped, Asking
  <1>20. CASE Exit
    BY <1>20 DEF Exit, Asking
  <1>21. CASE OnOpen
    BY <1>21 DEF OnOpen, Asking
  <1>22. CASE OnFail
    <2>1. attempts' \in 0 .. MaxDelay
      BY <1>22 DEF OnFail, Delay
    <2> QED
      BY <1>22, <2>1 DEF OnFail
  <1>23. CASE BeginClose
    BY <1>23 DEF BeginClose, Asking
  <1>24. CASE OnClose
    BY <1>24 DEF OnClose, Asking
  <1>25. CASE ToggleFullscreen
    BY <1>25 DEF ToggleFullscreen, Asking
  <1>26. CASE CloseConnection
    BY <1>26 DEF CloseConnection, Asking
  <1>27. CASE UNCHANGED vars
    BY <1>27 DEF vars
  <1>28. CASE ReconnectThrows
    BY <1>28 DEF ReconnectThrows, Asking
  <1>29. QED
    BY <1>1, <1>2, <1>3, <1>4, <1>5, <1>6, <1>7, <1>8, <1>9, <1>10, <1>11, <1>12, <1>13, <1>14, <1>15, <1>16, <1>17, <1>18, <1>19, <1>20, <1>21, <1>22, <1>23, <1>24, <1>25, <1>26, <1>27, <1>28
       DEF Next, MainStep, IOStep, Network, Received

\* Every step keeps the rest of the invariant as well.
LEMMA InvariantStep == IInv /\ [Next]_vars => IInv'
  <1> SUFFICES ASSUME IInv, [Next]_vars PROVE IInv'
    OBVIOUS
  <1>0. TypeOK /\ TypeOK'
    BY TypeStep DEF IInv
  <1> DEFINE Rest == Unstarted /\ NotBeforeOpen /\ Opening /\ FlagTells /\ Unannounced
                     /\ FramesAnnounced
  <1> SUFFICES Rest'
    BY <1>0 DEF IInv
  <1>r. Rest
    BY DEF IInv
  <1> USE DEF Unstarted, NotBeforeOpen, Opening, FlagTells, Unannounced, FramesAnnounced,
          Early, Late, Beyond, Streaming, Lost, MainAt, Goto, main, history,
          IOAt, Dispatch
  <1>1. CASE ConnectThrows
    BY <1>0, <1>r, <1>1 DEF ConnectThrows, TypeOK
  <1>2. CASE Connect
    BY <1>0, <1>r, <1>2 DEF Connect, TypeOK
  <1>3. CASE LoadConnected
    <2>1. CASE m_connected /\ reading' = TRUE /\ UNCHANGED pc
      BY <1>0, <1>r, <1>3, <2>1 DEF LoadConnected, TypeOK
    <2>2. CASE ~m_connected /\ pc' = IfNot[pc] /\ UNCHANGED reading
      <3>1. /\ pc \in Asking /\ pc' # "connect"
            /\ pc' \in Beyond => pc \in Beyond
            /\ pc' \in Streaming => pc \in {"announce", "sendInfo", "loop", "sendFrame"}
        BY <1>3, <2>2, Branches DEF LoadConnected, Asking
      <3>2. UNCHANGED <<io, sock, m_connected, reading, announced, framed>>
        BY <1>3, <2>2 DEF LoadConnected
      <3> QED
        BY <1>0, <1>r, <2>2, <3>1, <3>2
    <2> QED
      BY <1>3, <2>1, <2>2 DEF LoadConnected
  <1>4. CASE TestExpired
    BY <1>0, <1>r, <1>4, Branches DEF TestExpired, Asking, TypeOK
  <1>5. CASE Wait
    BY <1>0, <1>r, <1>5 DEF Wait, TypeOK
  <1>6. CASE SelectWindow
    BY <1>0, <1>r, <1>6 DEF SelectWindow, TypeOK
  <1>7. CASE PutInfo
    BY <1>0, <1>r, <1>7 DEF PutInfo, TypeOK
  <1>8. CASE PutFrame
    BY <1>0, <1>r, <1>8 DEF PutFrame, TypeOK
  <1>9. CASE Capture
    BY <1>0, <1>r, <1>9 DEF Capture, TypeOK
  <1>10. CASE Idle
    BY <1>0, <1>r, <1>10 DEF Idle, TypeOK
  <1>11. CASE Close
    BY <1>0, <1>r, <1>11 DEF Close, TypeOK
  <1>12. CASE Stop
    BY <1>0, <1>r, <1>12 DEF Stop, TypeOK
  <1>13. CASE Join
    BY <1>0, <1>r, <1>13 DEF Join, TypeOK
  <1>14. CASE OpenStoreHandle
    BY <1>0, <1>r, <1>14 DEF OpenStoreHandle, TypeOK
  <1>15. CASE OpenStoreConnected
    BY <1>0, <1>r, <1>15 DEF OpenStoreConnected, TypeOK
  <1>16. CASE BackoffOver
    BY <1>0, <1>r, <1>16 DEF BackoffOver, TypeOK
  <1>17. CASE Reconnect
    BY <1>0, <1>r, <1>17 DEF Reconnect, TypeOK
  <1>18. CASE RunOutOfWork
    BY <1>0, <1>r, <1>18 DEF RunOutOfWork, TypeOK
  <1>19. CASE RunStopped
    BY <1>0, <1>r, <1>19 DEF RunStopped, TypeOK
  <1>20. CASE Exit
    BY <1>0, <1>r, <1>20 DEF Exit, TypeOK
  <1>21. CASE OnOpen
    BY <1>0, <1>r, <1>21 DEF OnOpen, TypeOK
  <1>22. CASE OnFail
    BY <1>0, <1>r, <1>22 DEF OnFail, TypeOK
  <1>23. CASE BeginClose
    BY <1>0, <1>r, <1>23 DEF BeginClose, TypeOK
  <1>24. CASE OnClose
    BY <1>0, <1>r, <1>24 DEF OnClose, TypeOK
  <1>25. CASE ToggleFullscreen
    BY <1>0, <1>r, <1>25 DEF ToggleFullscreen, TypeOK
  <1>26. CASE CloseConnection
    BY <1>0, <1>r, <1>26 DEF CloseConnection, TypeOK
  <1>27. CASE UNCHANGED vars
    BY <1>r, <1>27 DEF vars
  <1>28. CASE ReconnectThrows
    BY <1>0, <1>r, <1>28 DEF ReconnectThrows, TypeOK
  <1>29. QED
    BY <1>1, <1>2, <1>3, <1>4, <1>5, <1>6, <1>7, <1>8, <1>9, <1>10, <1>11, <1>12, <1>13, <1>14, <1>15, <1>16, <1>17, <1>18, <1>19, <1>20, <1>21, <1>22, <1>23, <1>24, <1>25, <1>26, <1>27, <1>28
       DEF Next, MainStep, IOStep, Network, Received

-----------------------------------------------------------------------------
\* The invariant holds of every run of the two threads.
LEMMA Invariance == Spec => []IInv
  BY Initially, InvariantStep, PTL DEF Spec

\* Every variable of the two threads stays in its set, delays and polls within
\* their bounds (main.cpp, WebSocketClient.cpp).
THEOREM AgentTypeCorrect == Spec => []TypeOK
  <1>1. IInv => TypeOK
    BY DEF IInv
  <1> QED
    BY <1>1, Invariance, PTL

\* m_hdl is never read by main() while the IO thread writes it, although it has
\* no lock (WebSocketClient.cpp:74, 97-99, 111 and 129).
THEOREM HandleRaceFree == Spec => []HdlRaceFree
  <1>1. IInv => HdlRaceFree
    BY DEF IInv, TypeOK, NotBeforeOpen, Early, Late, Beyond, HdlRaceFree,
           ReadingHandle, WritingHandle
  <1> QED
    BY <1>1, Invariance, PTL

\* No frame is transmitted before the screen was announced (main.cpp:152-223).
THEOREM FramesFollowInfo == Spec => []FramesAnnounced
  <1>1. IInv => FramesAnnounced
    BY DEF IInv
  <1> QED
    BY <1>1, Invariance, PTL

=============================================================================
