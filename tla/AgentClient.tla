----------------------------- MODULE AgentClient -----------------------------
(***************************************************************************)
(* The two threads of the agent: main() in Agent/src/main.cpp, which       *)
(* connects, lets the user choose a window, announces the screen and sends *)
(* frames, and the thread of Agent/src/WebSocketClient.cpp, which runs the *)
(* socket's handlers.  They share m_connected, an atomic; m_hdl, a plain   *)
(* weak pointer; and selected_hwnd, a plain local of main().               *)
(*                                                                         *)
(* Every access to shared state is a step of its own.  The value of m_hdl  *)
(* needs no variable: every assignment stores the handle of the one        *)
(* connection the client has, so it has expired when that connection is    *)
(* gone.  What matters is when it is read and written, and that shows in   *)
(* the control states of the threads.                                      *)
(***************************************************************************)
EXTENDS Integers

CONSTANTS
  Window,    \* windows the user may select
  None,      \* NULL, the whole screen
  MaxPolls,  \* polls of isConnected before main gives up (50 in the code)
  MaxDelay   \* longest pause before another attempt, in seconds (30)

ASSUME AgentAssumption ==
  /\ None \notin Window
  /\ MaxPolls \in Nat
  /\ MaxDelay \in Nat \ {0}

VARIABLES
  pc,           \* where the main thread is
  reading,      \* it has read TRUE from m_connected and comes to m_hdl next
  polls,        \* elapsed_ms, in polls
  hwnd,         \* selected_hwnd
  io,           \* where the IO thread is
  sock,         \* state of the connection m_hdl refers to
  m_connected,
  attempts,     \* reconnectAttempts; beyond MaxDelay it makes no difference
  stopped,      \* m_client.stop() was called
  announced,    \* history: screen_info was transmitted
  framed        \* history: a frame was transmitted

main    == <<pc, reading, polls>>
history == <<announced, framed>>
vars    == <<main, hwnd, io, sock, m_connected, attempts, stopped, history>>

\* Where main asks whether it is connected, and where the answer leads.
IfConnected ==
  [poll |-> "check", check |-> "select", announce |-> "sendInfo",
   sendInfo |-> "putInfo", loop |-> "capture", sendFrame |-> "putFrame",
   destroy |-> "close"]
IfNot ==
  [poll |-> "wait", check |-> "destroy", announce |-> "loop",
   sendInfo |-> "loop", loop |-> "idle", sendFrame |-> "loop",
   destroy |-> "stop"]
Asking == {"poll", "check", "announce", "sendInfo", "loop", "sendFrame", "destroy"}

\* "open1" and "open2" are onOpen before its two assignments, "closed" is
\* onClose after its assignment, "backoff" and "reconnect" are onFail asleep
\* and about to call connect(), "exiting" is exit(0) destroying statics.
IOState == {"none", "run", "open1", "open2", "closed", "backoff", "reconnect",
            "exiting", "exit", "ended"}

TypeOK ==
  /\ pc \in Asking \cup {"connect", "wait", "select", "putInfo", "idle",
                         "capture", "putFrame", "close", "stop", "join", "exit"}
  /\ reading \in BOOLEAN
  /\ polls \in 0 .. MaxPolls
  /\ hwnd \in Window \cup {None}
  /\ io \in IOState
  /\ sock \in {"connecting", "open", "closing", "gone"}
  /\ m_connected \in BOOLEAN
  /\ attempts \in 0 .. MaxDelay
  /\ stopped \in BOOLEAN
  /\ announced \in BOOLEAN
  /\ framed \in BOOLEAN

Init ==
  /\ pc = "connect" /\ reading = FALSE /\ polls = 0
  /\ hwnd = None
  /\ io = "none" /\ sock = "gone"
  /\ m_connected = FALSE /\ attempts = 0 /\ stopped = FALSE
  /\ announced = FALSE /\ framed = FALSE

\* The process is over when main returned or exit() has done its work.
Ended == pc = "exit" \/ io = "exit"

-----------------------------------------------------------------------------
(* The main thread.                                                        *)

MainAt(where) == ~Ended /\ pc = where
Goto(where)   == pc' = where /\ UNCHANGED <<reading, polls>>

\* connect(): the thread is started and stored in m_thread in one step, for
\* onFail, which looks at m_thread too, first sleeps for a second.
ConnectThrows ==
  /\ MainAt("connect")
  /\ Goto("destroy")
  /\ UNCHANGED <<hwnd, io, sock, m_connected, attempts, stopped, history>>
Connect ==
  /\ MainAt("connect")
  /\ Goto("poll")
  /\ io' = "run" /\ sock' = "connecting"
  /\ UNCHANGED <<hwnd, m_connected, attempts, stopped, history>>

\* isConnected(), and the same test in send() and in the destructor.
LoadConnected ==
  /\ ~Ended /\ pc \in Asking /\ ~reading
  /\ \/ m_connected /\ reading' = TRUE /\ UNCHANGED pc
     \/ ~m_connected /\ pc' = IfNot[pc] /\ UNCHANGED reading
  /\ UNCHANGED <<polls, hwnd, io, sock, m_connected, attempts, stopped, history>>
TestExpired ==
  /\ ~Ended /\ pc \in Asking /\ reading
  /\ reading' = FALSE
  /\ pc' = IF sock = "gone" THEN IfNot[pc] ELSE IfConnected[pc]
  /\ UNCHANGED <<polls, hwnd, io, sock, m_connected, attempts, stopped, history>>

\* The loop that waits for the connection.
Elapsed == polls + 1
Wait ==
  /\ MainAt("wait")
  /\ IF polls < MaxPolls
       THEN pc' = "poll" /\ polls' = Elapsed
       ELSE pc' = "check" /\ UNCHANGED polls
  /\ UNCHANGED <<reading, hwnd, io, sock, m_connected, attempts, stopped, history>>

SelectWindow ==
  /\ MainAt("select")
  /\ hwnd' \in Window \cup {None}
  /\ Goto("announce")
  /\ UNCHANGED <<io, sock, m_connected, attempts, stopped, history>>

\* m_client.send() reports an error, which send() ignores, unless the
\* connection is open.
PutInfo ==
  /\ MainAt("putInfo")
  /\ announced' = (announced \/ sock = "open")
  /\ Goto("loop")
  /\ UNCHANGED <<hwnd, io, sock, m_connected, attempts, stopped, framed>>
PutFrame ==
  /\ MainAt("putFrame")
  /\ framed' = (framed \/ sock = "open")
  /\ Goto("loop")
  /\ UNCHANGED <<hwnd, io, sock, m_connected, attempts, stopped, announced>>

\* The picture, of selected_hwnd or of the screen, may come out empty.
Capture ==
  /\ MainAt("capture")
  /\ Goto("sendFrame") \/ Goto("loop")
  /\ UNCHANGED <<hwnd, io, sock, m_connected, attempts, stopped, history>>
Idle ==
  /\ MainAt("idle")
  /\ Goto("loop")
  /\ UNCHANGED <<hwnd, io, sock, m_connected, attempts, stopped, history>>

\* The destructor of WebSocketClient, when main returns.
Close ==
  /\ MainAt("close")
  /\ sock' = IF sock = "open" THEN "closing" ELSE sock
  /\ Goto("stop")
  /\ UNCHANGED <<hwnd, io, m_connected, attempts, stopped, history>>
StopOmitted ==  \* Faulty: the IO thread is joined but never told to stop.
  /\ MainAt("stop")
  /\ Goto("join")
  /\ UNCHANGED <<hwnd, io, sock, m_connected, attempts, stopped, history>>
Stop ==
  /\ MainAt("stop")
  /\ stopped' = TRUE
  /\ Goto("join")
  /\ UNCHANGED <<hwnd, io, sock, m_connected, attempts, history>>
Join ==
  /\ MainAt("join") /\ io \in {"none", "ended"}
  /\ Goto("exit")
  /\ UNCHANGED <<hwnd, io, sock, m_connected, attempts, stopped, history>>

-----------------------------------------------------------------------------
(* The IO thread.  It takes no new handler once the loop is stopped.       *)

IOAt(where) == ~Ended /\ io = where
Dispatch    == IOAt("run") /\ ~stopped

\* onOpen: first m_hdl, then m_connected.
OpenFlagFirst ==  \* Faulty: m_connected is set before m_hdl is.
  /\ Dispatch /\ sock = "connecting"
  /\ sock' = "open" /\ io' = "open1" /\ m_connected' = TRUE
  /\ UNCHANGED <<main, hwnd, attempts, stopped, history>>
OnOpen ==
  /\ Dispatch /\ sock = "connecting"
  /\ sock' = "open" /\ io' = "open1"
  /\ UNCHANGED <<main, hwnd, m_connected, attempts, stopped, history>>
OpenStoreHandle ==
  /\ IOAt("open1")
  /\ io' = "open2"
  /\ UNCHANGED <<main, hwnd, sock, m_connected, attempts, stopped, history>>
OpenStoreConnected ==
  /\ IOAt("open2")
  /\ m_connected' = TRUE /\ io' = "run"
  /\ UNCHANGED <<main, hwnd, sock, attempts, stopped, history>>

\* onFail: a pause, one second longer every time, and connect() again.
DelayUncapped == attempts + 1  \* Faulty: the limit is missing.
Delay == IF attempts < MaxDelay THEN attempts + 1 ELSE MaxDelay
OnFail ==
  /\ Dispatch /\ sock = "connecting"
  /\ sock' = "gone" /\ m_connected' = FALSE
  /\ attempts' = Delay /\ io' = "backoff"
  /\ UNCHANGED <<main, hwnd, stopped, history>>
BackoffOver ==
  /\ IOAt("backoff")
  /\ io' = "reconnect"
  /\ UNCHANGED <<main, hwnd, sock, m_connected, attempts, stopped, history>>
Reconnect ==
  /\ IOAt("reconnect")
  /\ sock' = "connecting" /\ io' = "run"
  /\ UNCHANGED <<main, hwnd, m_connected, attempts, stopped, history>>
\* connect() throws, which onFail catches: nothing is left for run() to do.
ReconnectThrows ==
  /\ IOAt("reconnect")
  /\ io' = "ended"
  /\ UNCHANGED <<main, hwnd, sock, m_connected, attempts, stopped, history>>

\* The connection comes to its end: sends fail from now on.
BeginClose ==
  /\ Dispatch /\ sock = "open"
  /\ sock' = "closing"
  /\ UNCHANGED <<main, hwnd, io, m_connected, attempts, stopped, history>>

\* onClose: the flag is all it changes.  With the connection goes the last
\* work of the loop, so that run() returns and the thread ends.
OnCloseReconnecting ==  \* Faulty: connect() is called as in onFail.
  /\ Dispatch /\ sock = "closing"
  /\ m_connected' = FALSE /\ io' = "backoff"
  /\ UNCHANGED <<main, hwnd, sock, attempts, stopped, history>>
OnClose ==
  /\ Dispatch /\ sock = "closing"
  /\ m_connected' = FALSE /\ io' = "closed"
  /\ UNCHANGED <<main, hwnd, sock, attempts, stopped, history>>
RunOutOfWork ==
  /\ IOAt("closed")
  /\ sock' = "gone" /\ io' = "ended"
  /\ UNCHANGED <<main, hwnd, m_connected, attempts, stopped, history>>
RunStopped ==
  /\ IOAt("run") /\ stopped
  /\ io' = "ended"
  /\ UNCHANGED <<main, hwnd, sock, m_connected, attempts, stopped, history>>

\* The message handler.  Input messages change nothing here.
ToggleFullscreen ==
  /\ Dispatch /\ sock = "open"
  /\ hwnd' = None
  /\ UNCHANGED <<main, io, sock, m_connected, attempts, stopped, history>>
CloseConnection ==
  /\ Dispatch /\ sock = "open"
  /\ io' = "exiting"
  /\ UNCHANGED <<main, hwnd, sock, m_connected, attempts, stopped, history>>
Exit ==
  /\ IOAt("exiting")
  /\ io' = "exit"
  /\ UNCHANGED <<main, hwnd, sock, m_connected, attempts, stopped, history>>

-----------------------------------------------------------------------------
MainStep == \/ ConnectThrows \/ Connect \/ LoadConnected \/ TestExpired \/ Wait
            \/ PutInfo \/ PutFrame \/ Capture \/ Idle \/ Close \/ Stop \/ Join
IOStep == \/ OpenStoreHandle \/ OpenStoreConnected \/ BackoffOver \/ Reconnect
          \/ ReconnectThrows \/ RunOutOfWork \/ RunStopped \/ Exit
Network == OnOpen \/ OnFail \/ BeginClose \/ OnClose
Received == ToggleFullscreen \/ CloseConnection

Next == MainStep \/ SelectWindow \/ IOStep \/ Network \/ Received

Spec == Init /\ [][Next]_vars

\* The threads are scheduled; nothing is assumed of the user and the network.
FairSpec == Spec /\ WF_vars(MainStep) /\ WF_vars(IOStep)

-----------------------------------------------------------------------------
\* m_hdl has no lock: main must never be at a read of it (WebSocketClient.cpp
\* 97, 99, 111, 40 and 44) while the IO thread is at a write (74 and 129).
\* Only the order of the accesses to m_connected keeps them apart.
ReadingHandle == reading \/ pc \in {"putInfo", "putFrame", "close"}
WritingHandle == io \in {"open1", "reconnect"}
HdlRaceFree == ~(ReadingHandle /\ WritingHandle)

\* The server learns the size of the screen before the first frame, although
\* main skips the announcement when it finds the connection lost
\* (main.cpp:152) and goes on to the loop that sends frames.
FramesAnnounced == framed => announced

\* However connecting, retrying, opening and closing interleave with the five
\* seconds of polling, main gets to the selection of a window, or the process
\* ends: the destructor's join does not wait for ever (main.cpp:132-147,
\* WebSocketClient.cpp:51-57).
DecidesOrExits == pc = "poll" ~> (pc = "select" \/ Ended)

=============================================================================
