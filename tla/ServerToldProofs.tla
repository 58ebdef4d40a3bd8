-------------------------- MODULE ServerToldProofs --------------------------
(***************************************************************************)
(* What the server tells its viewers, for every set of connections and     *)
(* sessions and screens of every size.  The scale is computed from the     *)
(* latest screens on both sides, and fits the window, if no client_info    *)
(* lacks its screen.  Whether the agent is there is told as Presence       *)
(* promises, as long as connections are orderly.                           *)
(***************************************************************************)
EXTENDS ServerPresence, MCShareServer, ShareServerProofs

-----------------------------------------------------------------------------
(* Fractions.                                                              *)

Fraction == [n : Nat, d : Nat \ {0}]

\* Less than a fraction that is at most a third one.
LEMMA LessAtMost ==
  ASSUME NEW a \in Fraction, NEW b \in Fraction, NEW c \in Fraction,
         Less(a, b), AtMost(b, c)
  PROVE  AtMost(a, c)
<1> DEFINE an == a.n  ad == a.d  bn == b.n  bd == b.d  cn == c.n  cd == c.d
<1>1. /\ an \in Nat /\ ad \in Nat /\ bn \in Nat /\ bd \in Nat /\ cn \in Nat /\ cd \in Nat
      /\ ad > 0 /\ bd > 0 /\ cd > 0
  BY DEF Fraction
<1>2. an * bd < bn * ad /\ bn * cd <= cn * bd
  BY DEF Less, AtMost
<1> HIDE DEF an, ad, bn, bd, cn, cd
<1>3. (an * bd) * cd <= (bn * ad) * cd /\ (bn * cd) * ad <= (cn * bd) * ad
  BY <1>1, <1>2, SMT
<1>4. (an * bd) * cd = (an * cd) * bd /\ (bn * ad) * cd = (bn * cd) * ad
      /\ (cn * bd) * ad = (cn * ad) * bd
  BY <1>1, SMT
<1>5. (an * cd) * bd <= (cn * ad) * bd
  <2>1. an * cd \in Nat /\ cn * ad \in Nat /\ bn * cd \in Nat
    BY <1>1
  <2> QED
    BY <1>1, <1>3, <1>4, <2>1
<1>6. an * cd <= cn * ad
  <2>1. an * cd \in Nat /\ cn * ad \in Nat
    BY <1>1
  <2>2. ASSUME NEW x \in Nat, NEW y \in Nat, x * bd <= y * bd
        PROVE  x <= y
    BY <1>1, <2>2, SMT
  <2> QED
    BY <1>5, <2>1, <2>2
<1> QED
  BY <1>6 DEF AtMost, an, ad, cn, cd

LEMMA SmallerIs ==
  ASSUME NEW a \in Fraction, NEW b \in Fraction
  PROVE  /\ Smaller(a, b) \in {a, b}
         /\ AtMost(Smaller(a, b), a) /\ AtMost(Smaller(a, b), b)
  BY SMT DEF Smaller, Less, AtMost, Fraction

\* The scale is between a tenth and two and takes at most 90% of the window
\* in both directions, unless a tenth is too large already (index.js:318-328).
LEMMA OptimalScaleFits ==
  ASSUME NEW aw \in Nat \ {0}, NEW ah \in Nat \ {0},
         NEW vw \in Nat \ {0}, NEW vh \in Nat \ {0},
         NEW ag, NEW vi, ag.w = aw, ag.h = ah, vi.w = vw, vi.h = vh
  PROVE  FitsWindow(OptimalScale(ag, vi), ag, vi)
<1> DEFINE q1 == Quotient(vi.w, ag.w)
           q2 == Quotient(vi.h, ag.h)
           q == Smaller(q1, q2)
           r == Smaller(q, Twice)
<1>1. /\ q1 \in Fraction /\ q2 \in Fraction /\ Twice \in Fraction
  BY DEF Quotient, Fraction, Twice
<1> HIDE DEF q1, q2
<1>2. q \in {q1, q2} /\ AtMost(q, q1) /\ AtMost(q, q2)
  BY <1>1, SmallerIs
<1>3. q \in Fraction
  BY <1>1, <1>2
<1> HIDE DEF q
<1>4. AtMost(r, q1) /\ AtMost(r, q2)
  <2>1. CASE ~Less(Twice, q)
    BY <1>2, <2>1 DEF Smaller
  <2>2. CASE Less(Twice, q)
    <3>1. r = Twice
      BY <2>2 DEF Smaller
    <3>2. ASSUME NEW s \in {q1, q2}
          PROVE  AtMost(Twice, s)
      BY <1>1, <1>2, <1>3, <2>2, LessAtMost
    <3> QED
      BY <3>1, <3>2
  <2> QED
    BY <2>1, <2>2
<1> HIDE DEF r
<1>5. OptimalScale(ag, vi) = Larger(Tenth, r)
  BY DEF OptimalScale, q1, q2, q, r
<1>6. OptimalScale(ag, vi) = Tenth \/ OptimalScale(ag, vi) = r
  BY <1>5 DEF Larger
<1> QED
  BY <1>4, <1>6 DEF FitsWindow, q1, q2
-----------------------------------------------------------------------------
(* The handlers.                                                           *)

\* Only viewers have a screen, and they all have one that is defined.
ScreensKnown ==
  \A v \in Conn : clientScreen[v] # None => role[v] = "viewer" /\ clientScreen[v] # Undefined

\* A step that changes neither screens nor scales, and opens a connection only
\* if it was idle, keeps the scale right.
LEMMA ScaleKept ==
  ASSUME TypeInv, ScreensKnown, ScaleCurrent,
         UNCHANGED <<agentScreen, scale>>,
         \A v \in Conn : clientScreen'[v] # None =>
           clientScreen'[v] = clientScreen[v] /\ obj'[v] = obj[v] /\ role'[v] = role[v]
             /\ (Open(v)' => Open(v))
  PROVE  ScreensKnown' /\ ScaleCurrent'
<1>1. ScreensKnown'
  BY DEF ScreensKnown
<1>2. ASSUME NEW v \in Conn, Open(v)', clientScreen'[v] \in Screen, agentScreen'[obj'[v]] # None
      PROVE  scale'[v] = [agent |-> agentScreen'[obj'[v]], client |-> clientScreen'[v]]
  <2>1. clientScreen'[v] # None
    BY <1>2, ServerAssumption
  <2> QED
    BY <1>2, <2>1 DEF ScaleCurrent
<1> QED
  BY <1>1, <1>2 DEF ScaleCurrent

LEMMA ScaleStep ==
  ASSUME Undefined \notin ClientScreen, IInv, ScreensKnown, ScaleCurrent, [Next]_vars
  PROVE  ScreensKnown' /\ ScaleCurrent'
<1>1. TypeInv /\ Fresh
  BY DEF IInv, RInv
<1>2. CASE Tick \/ UNCHANGED vars
  <2>1. UNCHANGED <<ws, role, obj, agentScreen, clientScreen, scale>>
    BY <1>2 DEF Tick, vars, closure, session
  <2> QED
    BY <1>1, <2>1, ScaleKept DEF Open
<1>3. ASSUME NEW c \in Conn, Connect(c) PROVE ScreensKnown' /\ ScaleCurrent'
  <2>1. /\ ws[c] = "idle"
        /\ UNCHANGED <<agentScreen, clientScreen, scale>>
        /\ \A v \in Conn \ {c} : obj'[v] = obj[v] /\ role'[v] = role[v] /\ ws'[v] = ws[v]
    BY <1>1, <1>3 DEF Connect, ConnectWithoutSession, ConnectUnknownPath, RefuseAgent,
       AcceptAgent, AcceptViewer, Capture, Connected, Refused, closure, session, TypeInv, TypeOK
  <2>2. clientScreen[c] = None
    BY <1>1, <2>1 DEF Fresh, ScreensKnown
  <2> QED
    BY <1>1, <2>1, <2>2, ScaleKept DEF Open
<1>4. ASSUME NEW c \in Conn, End(c) PROVE ScreensKnown' /\ ScaleCurrent'
  <2>1. /\ UNCHANGED <<agentScreen, scale, obj, role>>
        /\ clientScreen' = clientScreen \/ clientScreen' = [clientScreen EXCEPT ![c] = None]
        /\ ws' = [ws EXCEPT ![c] = "CLOSING"] \/ ws' = [ws EXCEPT ![c] = "CLOSED"]
    BY <1>4 DEF End, BeginClose, AgentError, ViewerError, CloseEvent, AgentClose, ViewerClose,
       RefusedClose, closure, session
  <2>2. \A v \in Conn : clientScreen'[v] # None => clientScreen'[v] = clientScreen[v]
    BY <1>1, <2>1 DEF TypeInv, TypeOK
  <2>3. \A v \in Conn : Open(v)' => Open(v)
    BY <1>1, <2>1 DEF Open, TypeInv, TypeOK
  <2> QED
    BY <1>1, <2>1, <2>2, <2>3, ScaleKept
<1>5. ASSUME NEW c \in Conn, Message(c) PROVE ScreensKnown' /\ ScaleCurrent'
  <2>1. CASE AgentFrame(c) \/ ViewerInput(c)
    <3>1. UNCHANGED <<ws, role, obj, agentScreen, clientScreen, scale>>
      BY <2>1 DEF AgentFrame, ViewerInput, closure, session
    <3> QED
      BY <1>1, <3>1, ScaleKept DEF Open
  <2>2. ASSUME NEW scr \in ClientScreen, ViewerClientInfo(c, scr)
        PROVE  ScreensKnown' /\ ScaleCurrent'
    <3>1. /\ role[c] = "viewer" /\ scr # Undefined /\ scr # None /\ obj[c] \in Conn
          /\ clientScreen' = [clientScreen EXCEPT ![c] = scr]
          /\ UNCHANGED <<ws, role, obj, agentScreen>>
      BY <1>1, <2>2, ServerAssumption DEF ViewerClientInfo, closure, TypeInv, Captured
    <3>2. \A v \in Conn \ {c} : scale'[v] = scale[v] /\ clientScreen'[v] = clientScreen[v]
      BY <1>1, <2>2, <3>1 DEF ViewerClientInfo, TypeInv, TypeOK
    <3>3. agentScreen[obj[c]] # None =>
            scale'[c] = [agent |-> agentScreen[obj[c]], client |-> clientScreen'[c]]
      BY <1>1, <2>2, <3>1 DEF ViewerClientInfo, HasScale, TypeInv, TypeOK
    <3>4. ScreensKnown'
      BY <1>1, <3>1, <3>2 DEF ScreensKnown, TypeInv, TypeOK
    <3> QED
      BY <3>1, <3>2, <3>3, <3>4 DEF ScaleCurrent, Open
  <2>3. ASSUME NEW scr \in Screen, AgentScreenInfo(c, scr)
        PROVE  ScreensKnown' /\ ScaleCurrent'
    <3> DEFINE o == obj[c]
               clients == {v \in Clients(o) : Open(v)} \ Unscalable(o)
    <3>1. /\ o \in Conn
          /\ agentScreen' = [agentScreen EXCEPT ![o] = scr]
          /\ UNCHANGED <<ws, role, obj, clientScreen>>
      BY <1>1, <2>3 DEF AgentScreenInfo, closure, TypeInv, Captured
    <3>2. Unscalable(o) = {}
      BY DEF Unscalable, Clients, ScreensKnown
    <3>3. scale' = [v \in Conn |-> IF v \in clients
                                   THEN [agent |-> scr, client |-> clientScreen[v]] ELSE scale[v]]
      BY <2>3, <3>2 DEF AgentScreenInfo, RescaleClients, Rescale
    <3>4. ScreensKnown'
      BY <3>1 DEF ScreensKnown
    <3>5. ASSUME NEW v \in Conn, Open(v), clientScreen[v] \in Screen, agentScreen'[obj[v]] # None
          PROVE  scale'[v] = [agent |-> agentScreen'[obj[v]], client |-> clientScreen[v]]
      <4>1. clientScreen[v] # None
        BY <3>5, ServerAssumption
      <4>2. obj[v] \in Conn
        BY <1>1, <4>1 DEF ScreensKnown, TypeInv, Captured
      <4>3. CASE obj[v] = o
        <5>1. v \in clients
          BY <3>2, <3>5, <4>1, <4>3 DEF Clients
        <5>2. agentScreen'[obj[v]] = scr
          BY <1>1, <3>1, <4>3 DEF TypeInv, TypeOK
        <5> QED
          BY <3>3, <5>1, <5>2
      <4>4. CASE obj[v] # o
        <5>1. v \notin clients
          BY <4>4 DEF Clients
        <5>2. agentScreen'[obj[v]] = agentScreen[obj[v]]
          BY <1>1, <3>1, <4>2, <4>4 DEF TypeInv, TypeOK
        <5> QED
          BY <3>3, <3>5, <5>1, <5>2 DEF ScaleCurrent
      <4> QED
        BY <4>3, <4>4
    <3> QED
      BY <3>1, <3>4, <3>5 DEF ScaleCurrent, Open
  <2> QED
    BY <1>5, <2>1, <2>2, <2>3 DEF Message
<1> QED
  BY <1>2, <1>3, <1>4, <1>5 DEF Next

LEMMA ScaleInvariance ==
  ASSUME Undefined \notin ClientScreen
  PROVE  Spec => [](IInv /\ ScreensKnown /\ ScaleCurrent)
<1>1. Init => ScreensKnown /\ ScaleCurrent
  BY DEF Init, ScreensKnown, ScaleCurrent, Open
<1>2. IInv /\ ScreensKnown /\ ScaleCurrent /\ [Next]_vars => ScreensKnown' /\ ScaleCurrent'
  BY ScaleStep
<1> QED
  BY <1>1, <1>2, Invariance, PTL DEF Spec

\* A viewer's last scale is the one of the latest screens on both sides, if
\* every client_info has its screen (index.js:163-183, 254-270).
THEOREM ScaleStaysCurrent ==
  ASSUME Undefined \notin ClientScreen
  PROVE  Spec => []ScaleCurrent
  BY ScaleInvariance, PTL

\* And the agent's screen, so scaled, fits the viewer's window, whatever the
\* sizes of the two (index.js:318-328).
THEOREM ScaleAlwaysFits ==
  ASSUME Undefined \notin ClientScreen,
         \A scr \in Screen : scr.w \in Nat \ {0} /\ scr.h \in Nat \ {0}
  PROVE  Spec => []ScaleFitsWindow
<1>1. IInv /\ ScreensKnown /\ ScaleCurrent => ScaleFitsWindow
  <2> SUFFICES ASSUME IInv, ScreensKnown, ScaleCurrent,
                      NEW v \in Conn, Open(v), clientScreen[v] # None, agentScreen[obj[v]] # None
               PROVE  FitsWindow(OptimalScale(scale[v].agent, scale[v].client),
                                 agentScreen[obj[v]], clientScreen[v])
    BY DEF ScaleFitsWindow
  <2>1. TypeInv
    BY DEF IInv, RInv
  <2>2. clientScreen[v] \in Screen /\ obj[v] \in Conn
    BY <2>1 DEF ScreensKnown, TypeInv, TypeOK, Captured
  <2>3. agentScreen[obj[v]] \in Screen
    BY <2>1, <2>2 DEF TypeInv, TypeOK
  <2>4. scale[v] = [agent |-> agentScreen[obj[v]], client |-> clientScreen[v]]
    BY <2>2 DEF ScaleCurrent
  <2>5. scale[v].agent = agentScreen[obj[v]] /\ scale[v].client = clientScreen[v]
    BY <2>4
  <2>6. FitsWindow(OptimalScale(agentScreen[obj[v]], clientScreen[v]),
                   agentScreen[obj[v]], clientScreen[v])
    BY <2>2, <2>3, OptimalScaleFits
  <2> QED
    BY <2>5, <2>6
<1> QED
  BY <1>1, ScaleInvariance, PTL

-----------------------------------------------------------------------------
(* Presence: the three functions it is about, and its actions, read off    *)
(* the server one session and one viewer at a time.                        *)

Watched(v) == IF Watching(v) THEN sid[v] ELSE None
Told(v) == IF Watching(v) THEN status[v] ELSE "none"

SameHolder(s) == Holder(s)' = Holder(s)
SameViewer(v) == Watched(v)' = Watched(v) /\ Told(v)' = Told(v)

LEMMA AsStutter ==
  ASSUME \A s \in SessionId : SameHolder(s), \A v \in Conn : SameViewer(v)
  PROVE  UNCHANGED P!vars
  BY DEF P!vars, SameHolder, SameViewer, Watched, Told

LEMMA AsEnter ==
  ASSUME NEW s \in SessionId, NEW a \in Conn, Holder(s) = None, Holder(s)' = a,
         \A r \in SessionId : Holder(r) # a,
         \A r \in SessionId \ {s} : SameHolder(r),
         \A v \in Conn : /\ Watched(v)' = Watched(v)
                         /\ Told(v)' = IF Watched(v) = s THEN "up" ELSE Told(v)
  PROVE  P!Enter(a, s)
  BY DEF P!Enter, P!Announce, P!Watchers, SameHolder, Watched, Told

LEMMA AsLeave ==
  ASSUME NEW s \in SessionId, Holder(s) # None, Holder(s)' = None,
         \A r \in SessionId \ {s} : SameHolder(r), \A v \in Conn : SameViewer(v)
  PROVE  P!Leave(s)
<1> DEFINE holder == [r \in SessionId |-> Holder(r)]
<1>1. holder[s] # None /\ holder' = [holder EXCEPT ![s] = None]
  <2>1. holder[s] # None
    OBVIOUS
  <2>2. ASSUME NEW x, Holder(s)' = x
        PROVE  holder' = [holder EXCEPT ![s] = x]
    <3>1. \A r \in SessionId : Holder(r)' = IF r = s THEN x ELSE Holder(r)
      BY <2>2 DEF SameHolder
    <3>2. holder' = [r \in SessionId |-> IF r = s THEN x ELSE Holder(r)]
      BY <3>1
    <3>3. [holder EXCEPT ![s] = x] = [r \in SessionId |-> IF r = s THEN x ELSE Holder(r)]
      OBVIOUS
    <3> QED
      BY <3>2, <3>3
  <2> QED
    BY <2>1, <2>2
<1>2. /\ UNCHANGED [v \in Conn |-> Watched(v)]
      /\ UNCHANGED [v \in Conn |-> Told(v)]
  BY DEF SameViewer
<1> QED
  BY <1>1, <1>2 DEF P!Leave, Watched, Told

LEMMA AsNotice ==
  ASSUME NEW s \in SessionId, Holder(s) = None, \A r \in SessionId : SameHolder(r),
         \A v \in Conn : /\ Watched(v)' = Watched(v)
                         /\ Told(v)' = IF Watched(v) = s THEN "down" ELSE Told(v)
  PROVE  P!Notice(s)
  BY DEF P!Notice, P!Announce, P!Watchers, SameHolder, Watched, Told

LEMMA AsWatch ==
  ASSUME NEW c \in Conn, NEW s \in SessionId, Watched(c) = None, Watched(c)' = s,
         Told(c)' = IF Holder(s) = None THEN "down" ELSE "up",
         \A r \in SessionId : SameHolder(r), \A v \in Conn \ {c} : SameViewer(v)
  PROVE  P!Watch(c, s)
  BY DEF P!Watch, SameHolder, SameViewer, Watched, Told

LEMMA AsUnwatch ==
  ASSUME NEW c \in Conn, Watched(c) # None, Watched(c)' = None, Told(c)' = "none",
         \A r \in SessionId : SameHolder(r), \A v \in Conn \ {c} : SameViewer(v)
  PROVE  P!Unwatch(c)
  BY DEF P!Unwatch, SameHolder, SameViewer, Watched, Told

\* What the mapping relies on as long as connections are orderly: who watches
\* a session is registered in the object the map has for it, a live agent
\* holds the slot of that object, and no two sessions share one.
OrderlyInv == IInv /\ Orderly

LEMMA Watchers ==
  ASSUME OrderlyInv
  PROVE  /\ \A v \in Conn : Watching(v) =>
              /\ sid[v] \in SessionId /\ obj[v] \in Conn
              /\ sessions[sid[v]] = obj[v] /\ v \in OpenViewers(obj[v])
         /\ \A o \in Conn : \A v \in OpenViewers(o) : v \in Conn /\ Watching(v) /\ obj[v] = o
<1> USE DEF OrderlyInv, IInv, RInv, TypeInv, TypeOK
<1>1. ASSUME NEW v \in Conn, Watching(v)
      PROVE  /\ sid[v] \in SessionId /\ obj[v] \in Conn
             /\ sessions[sid[v]] = obj[v] /\ v \in OpenViewers(obj[v])
  <2>1. role[v] = "viewer" /\ Open(v) /\ UniqueId(v)
    BY <1>1 DEF Watching, Orderly
  <2>2. sid[v] \in SessionId /\ obj[v] \in Conn /\ viewerId[v] \in Millis
    BY <2>1 DEF Captured
  <2>3. viewers[obj[v]][viewerId[v]] = v /\ sessions[sid[v]] = obj[v]
    BY <2>1 DEF Entered
  <2> QED
    BY <2>1, <2>2, <2>3 DEF OpenViewers, Registered
<1>2. ASSUME NEW o \in Conn, NEW v \in OpenViewers(o)
      PROVE  v \in Conn /\ Watching(v) /\ obj[v] = o
  <2>1. v \in Registered(o) /\ Open(v)
    BY DEF OpenViewers
  <2> QED
    BY <2>1, RegisteredOnce DEF Watching
<1> QED
  BY <1>1, <1>2

LEMMA Holders ==
  ASSUME OrderlyInv
  PROVE  /\ \A a \in Conn : Live(a) /\ role[a] = "agent" =>
              /\ sid[a] \in SessionId /\ obj[a] \in Conn
              /\ sessions[sid[a]] = obj[a] /\ agent[obj[a]] = a
         /\ \A s \in SessionId : sessions[s] # None => sessions[s] \in Conn
         /\ \A s, r \in SessionId : sessions[s] # None /\ sessions[s] = sessions[r] => s = r
         /\ \A s \in SessionId : Holder(s) # None =>
              /\ Holder(s) \in Conn /\ Open(Holder(s)) /\ role[Holder(s)] = "agent"
              /\ sid[Holder(s)] = s
<1> USE DEF OrderlyInv, IInv, RInv, TypeInv, TypeOK
<1>1. ASSUME NEW a \in Conn, Live(a), role[a] = "agent"
      PROVE  /\ sid[a] \in SessionId /\ obj[a] \in Conn
             /\ sessions[sid[a]] = obj[a] /\ agent[obj[a]] = a
  <2>1. Undisturbed(obj[a])
    BY DEF Orderly, Undisturbed
  <2> QED
    BY <1>1, <2>1 DEF Held, Captured
<1>2. \A s, r \in SessionId : sessions[s] # None /\ sessions[s] = sessions[r] => s = r
  BY DEF RegistryConsistent, ObjectsKnown
<1>3. ASSUME NEW s \in SessionId, Holder(s) # None
      PROVE  /\ Holder(s) \in Conn /\ Open(Holder(s)) /\ role[Holder(s)] = "agent"
             /\ sid[Holder(s)] = s
  <2>1. /\ sessions[s] \in Conn /\ Holder(s) = agent[sessions[s]]
        /\ Open(Holder(s)) /\ Holder(s) \in Conn
    BY <1>3 DEF Holder
  <2>2. role[Holder(s)] = "agent" /\ obj[Holder(s)] = sessions[s]
    BY <2>1, ServerAssumption DEF RegistryConsistent, AgentsKnown
  <2>3. sid[Holder(s)] = s
    BY <2>1, <2>2, ServerAssumption DEF RegistryConsistent, ObjectsKnown
  <2> QED
    BY <2>1, <2>2, <2>3
<1> QED
  BY <1>1, <1>2, <1>3

\* A step that keeps the slots, the map and every open connection as they are,
\* and opens none, is nothing to Presence.
LEMMA NothingSeen ==
  ASSUME OrderlyInv, UNCHANGED <<agent, sessions, status>>,
         \A c \in Conn : Open(c)' <=> Open(c),
         \A c \in Conn : Open(c) => role'[c] = role[c] /\ sid'[c] = sid[c]
  PROVE  UNCHANGED P!vars
<1>1. ASSUME NEW s \in SessionId PROVE SameHolder(s)
  <2>1. CASE sessions[s] = None
    BY <2>1 DEF SameHolder, Holder
  <2>2. CASE agent[sessions[s]] = None
    BY <2>2 DEF SameHolder, Holder, Open
  <2>3. CASE sessions[s] # None /\ agent[sessions[s]] # None
    <3>1. agent[sessions[s]] \in Conn
      BY <2>3, Holders DEF OrderlyInv, IInv, RInv, TypeInv, TypeOK
    <3>2. Open(agent[sessions[s]])' <=> Open(agent[sessions[s]])
      BY <3>1 DEF Open
    <3> QED
      BY <3>2 DEF SameHolder, Holder
  <2> QED
    BY <2>1, <2>2, <2>3
<1>2. ASSUME NEW v \in Conn PROVE SameViewer(v)
  BY DEF SameViewer, Watched, Told, Watching
<1> QED
  BY <1>1, <1>2, AsStutter

\* A newcomer that is refused.
LEMMA RefusalUnseen ==
  ASSUME OrderlyInv, NEW c \in Conn,
         \/ ConnectWithoutSession(c)
         \/ \E s \in SessionId : ConnectUnknownPath(c, s) \/ RefuseAgent(c, s)
  PROVE  UNCHANGED P!vars
<1> USE DEF OrderlyInv, IInv, RInv, TypeInv, TypeOK
<1>1. /\ ws[c] = "idle" /\ ws' = [ws EXCEPT ![c] = "CLOSING"]
      /\ UNCHANGED <<agent, status>>
      /\ \A d \in Conn \ {c} : role'[d] = role[d] /\ sid'[d] = sid[d]
  BY DEF ConnectWithoutSession, ConnectUnknownPath, RefuseAgent, Refused, Capture,
         closure, session
<1>2. \A d \in Conn : Open(d)' <=> Open(d)
  BY <1>1 DEF Open
<1>3. c # None /\ ~Open(c)
  BY <1>1, ServerAssumption DEF Open
<1>4. CASE sessions' = sessions
  BY <1>1, <1>2, <1>3, <1>4, NothingSeen
<1>5. ASSUME NEW s \in SessionId, sessions[s] = None, ConnectUnknownPath(c, s)
      PROVE  UNCHANGED P!vars
  <2>1. sessions' = [sessions EXCEPT ![s] = c]
    BY <1>5 DEF ConnectUnknownPath, Capture, SessionFor
  <2>2. agent[c] = None
    BY <1>1, ServerAssumption DEF Fresh, RegistryConsistent, AgentsKnown
  <2>3. ASSUME NEW r \in SessionId PROVE SameHolder(r)
    <3>1. CASE r = s
      BY <1>1, <1>5, <2>1, <2>2, <3>1 DEF SameHolder, Holder, Open
    <3>2. CASE r # s
      <4>1. sessions'[r] = sessions[r] /\ agent' = agent
        BY <1>1, <2>1, <3>2
      <4>2. sessions[r] # None => agent[sessions[r]] # c
        BY <1>1, ServerAssumption DEF RegistryConsistent, AgentsKnown, Live
      <4> QED
        BY <1>1, <4>1, <4>2 DEF SameHolder, Holder, Open
    <3> QED
      BY <3>1, <3>2
  <2>4. ASSUME NEW v \in Conn PROVE SameViewer(v)
    BY <1>1, <1>2, <1>3 DEF SameViewer, Watched, Told, Watching
  <2> QED
    BY <2>3, <2>4, AsStutter
<1>6. (\E s \in SessionId : sessions[s] = None /\ ConnectUnknownPath(c, s)) \/ sessions' = sessions
  BY DEF ConnectWithoutSession, ConnectUnknownPath, RefuseAgent, Capture, SessionFor
<1> QED
  BY <1>4, <1>5, <1>6

\* Who is open after a step that opens c, and what the others captured.
LEMMA AgentEnters ==
  ASSUME OrderlyInv, Orderly', NEW c \in Conn, NEW s \in SessionId, AcceptAgent(c, s)
  PROVE  P!Enter(c, s)
<1> USE DEF OrderlyInv, IInv, RInv, TypeInv, TypeOK
<1> DEFINE o == SessionFor(c, s)
<1>1. /\ ws[c] = "idle" /\ o \in Conn /\ c # None
      /\ o # c => sid[o] = s /\ sessions[s] = o
      /\ o = c => sessions[s] = None
      /\ \A t \in SessionId : sessions[t] # c
  BY FoundObject, ServerAssumption DEF AcceptAgent
<1>2. /\ agent' = [agent EXCEPT ![o] = c] /\ viewers' = viewers
      /\ ws' = [ws EXCEPT ![c] = "OPEN"]
      /\ sessions' = [sessions EXCEPT ![s] = o]
      /\ role' = [role EXCEPT ![c] = "agent"] /\ sid' = [sid EXCEPT ![c] = s]
      /\ status' = [v \in Conn |-> IF v \in OpenViewers(o) THEN "up" ELSE status[v]]
  BY DEF AcceptAgent, Connected, Tell, Capture
<1>3. agent[o] = None
  <2>1. superseded' = {} /\ superseded = {}
    BY DEF Orderly
  <2>2. agent[o] # None => agent[o] \in superseded'
    BY DEF AcceptAgent
  <2> QED
    BY <2>1, <2>2
<1> HIDE DEF o
<1>4. Holder(s) = None /\ Holder(s)' = c
  <2>1. sessions[s] \in {o, None} /\ sessions'[s] = o /\ agent'[o] = c
    BY <1>1, <1>2
  <2>2. o # None /\ ws'[c] = "OPEN"
    BY <1>1, <1>2, ServerAssumption
  <2> QED
    BY <1>1, <1>3, <2>1, <2>2 DEF Holder, Open
<1>5. \A r \in SessionId : Holder(r) # c
  BY <1>1, Holders DEF Open
<1>6. ASSUME NEW r \in SessionId \ {s} PROVE SameHolder(r)
  <2>1. sessions'[r] = sessions[r]
    BY <1>1, <1>2
  <2>2. sessions[r] # None => sessions[r] # o /\ sessions[r] \in Conn
    BY <1>1, Holders
  <2>3. sessions[r] # None => agent'[sessions[r]] = agent[sessions[r]] /\ agent[sessions[r]] # c
    <3>1. \A p \in Conn : agent[p] # c
      BY <1>1 DEF RegistryConsistent, AgentsKnown, Live
    <3> QED
      BY <1>1, <1>2, <2>2, <3>1
  <2> QED
    BY <1>2, <2>1, <2>3 DEF SameHolder, Holder, Open
<1>7. ASSUME NEW v \in Conn
      PROVE  /\ Watched(v)' = Watched(v)
             /\ Told(v)' = IF Watched(v) = s THEN "up" ELSE Told(v)
  <2>1. CASE v = c
    BY <1>1, <1>2, <2>1, ServerAssumption DEF Watched, Told, Watching, Open
  <2>2. CASE v # c
    <3>1. (Watching(v)' <=> Watching(v)) /\ sid'[v] = sid[v]
      BY <1>2, <2>2 DEF Watching, Open
    <3>2. Watching(v) => (v \in OpenViewers(o) <=> sid[v] = s)
      <4>1. ASSUME Watching(v)
            PROVE  /\ sid[v] \in SessionId /\ obj[v] \in Conn /\ obj[v] # None
                   /\ sessions[sid[v]] = obj[v] /\ v \in OpenViewers(obj[v])
        BY <4>1, Watchers, ServerAssumption
      <4>2. v \in OpenViewers(o) => obj[v] = o
        BY <1>1, Watchers
      <4>3. Watching(v) /\ obj[v] = o => sid[v] = s
        BY <1>1, <4>1, Holders
      <4>4. Watching(v) /\ sid[v] = s => obj[v] = o
        BY <1>1, <4>1
      <4> QED
        BY <4>1, <4>2, <4>3, <4>4
    <3>3. s # None
      BY ServerAssumption
    <3> QED
      BY <1>2, <3>1, <3>2, <3>3 DEF Watched, Told
  <2> QED
    BY <2>1, <2>2
<1> QED
  BY <1>4, <1>5, <1>6, <1>7, AsEnter

LEMMA ViewerWatches ==
  ASSUME OrderlyInv, NEW c \in Conn, NEW s \in SessionId, AcceptViewer(c, s)
  PROVE  P!Watch(c, s)
<1> USE DEF OrderlyInv, IInv, RInv, TypeInv, TypeOK
<1> DEFINE o == SessionFor(c, s)
<1>1. /\ ws[c] = "idle" /\ o \in Conn /\ c # None
      /\ o # c => sid[o] = s /\ sessions[s] = o
      /\ o = c => sessions[s] = None
  BY FoundObject, ServerAssumption DEF AcceptViewer
<1>2. /\ agent' = agent /\ ws' = [ws EXCEPT ![c] = "OPEN"]
      /\ sessions' = [sessions EXCEPT ![s] = o]
      /\ role' = [role EXCEPT ![c] = "viewer"] /\ sid' = [sid EXCEPT ![c] = s]
      /\ status' = [v \in Conn |-> IF v \in {c} THEN IF Open(agent[o]) THEN "up" ELSE "down"
                                  ELSE status[v]]
  BY DEF AcceptViewer, Connected, Tell, Capture
<1> HIDE DEF o
<1>3. \A p \in Conn : agent[p] # c /\ (Open(agent[p])' <=> Open(agent[p]))
  <2>1. \A p \in Conn : agent[p] # c
    BY <1>1 DEF RegistryConsistent, AgentsKnown, Live
  <2> QED
    BY <1>2, <2>1 DEF Open
<1>4. agent[c] = None
  BY <1>1, ServerAssumption DEF Fresh, RegistryConsistent, AgentsKnown
<1>5. Open(agent[o]) <=> Holder(s) # None
  BY <1>1, <1>4, ServerAssumption DEF Holder, Open
<1>6. ASSUME NEW r \in SessionId PROVE SameHolder(r)
  <2>1. CASE sessions'[r] = sessions[r]
    <3>1. sessions[r] # None => sessions[r] \in Conn
      OBVIOUS
    <3> QED
      BY <1>2, <1>3, <2>1, <3>1 DEF SameHolder, Holder
  <2>2. CASE sessions'[r] # sessions[r]
    <3>1. r = s /\ sessions[r] = None /\ sessions'[r] = c
      BY <1>1, <1>2, <2>2
    <3> QED
      BY <1>2, <1>4, <3>1 DEF SameHolder, Holder, Open
  <2> QED
    BY <2>1, <2>2
<1>7. Watched(c) = None
  BY <1>1 DEF Watched, Watching, Open
<1>8. Watched(c)' = s /\ Told(c)' = IF Holder(s) = None THEN "down" ELSE "up"
  <2>1. Watching(c)' /\ sid'[c] = s /\ status'[c] = IF Open(agent[o]) THEN "up" ELSE "down"
    BY <1>1, <1>2 DEF Watching, Open
  <2> QED
    BY <1>5, <2>1 DEF Watched, Told
<1>9. ASSUME NEW v \in Conn \ {c} PROVE SameViewer(v)
  <2>1. (Watching(v)' <=> Watching(v)) /\ sid'[v] = sid[v] /\ status'[v] = status[v]
    BY <1>2 DEF Watching, Open
  <2> QED
    BY <2>1 DEF SameViewer, Watched, Told
<1> QED
  BY <1>6, <1>7, <1>8, <1>9, AsWatch

\* readyState leaves OPEN: the end of a connection as its peers see it, be it
\* by a close frame, by the ping timer or after a protocol error.
LEMMA Departure ==
  ASSUME OrderlyInv, NEW c \in Conn, BeginClose(c) \/ AgentError(c) \/ ViewerError(c)
  PROVE  [P!Next]_(P!vars)
<1> USE DEF OrderlyInv, IInv, RInv, TypeInv, TypeOK
<1>1. /\ Open(c) /\ c # None /\ ws' = [ws EXCEPT ![c] = "CLOSING"]
      /\ UNCHANGED <<role, sid, sessions, agent, status>>
  BY DEF BeginClose, AgentError, ViewerError, Open, closure, session
<1>2. ~Open(c)' /\ \A d \in Conn \ {c} : Open(d)' <=> Open(d)
  BY <1>1 DEF Open
<1>3. ASSUME NEW v \in Conn \ {c} PROVE SameViewer(v)
  BY <1>1, <1>2 DEF SameViewer, Watched, Told, Watching
<1>4. ASSUME NEW r \in SessionId, Holder(r) # c PROVE SameHolder(r)
  <2>1. sessions[r] # None => agent[sessions[r]] \in Conn \cup {None}
    OBVIOUS
  <2>2. CASE sessions[r] # None /\ agent[sessions[r]] = c
    BY <1>1, <1>4, <2>2 DEF Holder
  <2>3. CASE sessions[r] = None \/ agent[sessions[r]] = None
    BY <1>1, <2>3 DEF SameHolder, Holder, Open
  <2>4. CASE sessions[r] # None /\ agent[sessions[r]] \in Conn \ {c}
    BY <1>1, <1>2, <2>4 DEF SameHolder, Holder
  <2> QED
    BY <2>1, <2>2, <2>3, <2>4
<1>5. CASE role[c] = "agent"
  <2>1. PICK s \in SessionId : s = sid[c] /\ obj[c] \in Conn
                              /\ sessions[s] = obj[c] /\ agent[obj[c]] = c
    BY <1>1, <1>5, Holders DEF Live, Open
  <2>2. Holder(s) = c
    BY <1>1, <2>1, ServerAssumption DEF Holder
  <2>3. Holder(s)' = None
    BY <1>1, <1>2, <2>1, ServerAssumption DEF Holder
  <2>4. \A r \in SessionId \ {s} : SameHolder(r)
    BY <1>1, <1>4, <2>1, Holders
  <2>5. \A v \in Conn : SameViewer(v)
    <3>1. SameViewer(c)
      BY <1>1, <1>5 DEF SameViewer, Watched, Told, Watching
    <3> QED
      BY <1>3, <3>1
  <2>6. Holder(s) # None
    BY <1>1, <2>2
  <2>7. P!Leave(s)
    BY <2>3, <2>4, <2>5, <2>6, AsLeave
  <2> QED
    BY <2>7 DEF P!Next
<1>6. CASE role[c] # "agent"
  <2>1. \A r \in SessionId : SameHolder(r)
    BY <1>1, <1>4, <1>6, Holders
  <2>2. CASE role[c] = "viewer"
    <3>1. Watched(c) # None
      BY <1>1, <2>2, Watchers, ServerAssumption DEF Watched, Watching
    <3>2. Watched(c)' = None /\ Told(c)' = "none"
      BY <1>2 DEF Watched, Told, Watching
    <3> QED
      BY <1>3, <2>1, <3>1, <3>2, AsUnwatch DEF P!Next
  <2>3. CASE role[c] # "viewer"
    <3>1. SameViewer(c)
      BY <1>1, <2>3 DEF SameViewer, Watched, Told, Watching
    <3> QED
      BY <1>3, <2>1, <3>1, AsStutter
  <2> QED
    BY <2>2, <2>3
<1> QED
  BY <1>5, <1>6

\* The 'close' event of an agent: it left before, and now that is announced.
LEMMA AgentNoticed ==
  ASSUME OrderlyInv, NEW c \in Conn, NEW s \in SessionId, s = sid[c], AgentClose(c)
  PROVE  P!Notice(s)
<1> USE DEF OrderlyInv, IInv, RInv, TypeInv, TypeOK
<1>1. /\ ws[c] = "CLOSING" /\ role[c] = "agent" /\ c # None /\ ~Open(c)
      /\ ws' = [ws EXCEPT ![c] = "CLOSED"]
      /\ UNCHANGED <<role, sid>>
      /\ agent' = [agent EXCEPT ![obj[c]] = None]
      /\ status' = [v \in Conn |-> IF v \in OpenViewers(obj[c]) THEN "down" ELSE status[v]]
      /\ sessions' = CleanupSessionIfEmpty(s, agent', viewers)
  BY ServerAssumption DEF AgentClose, SlotEmptied, Tell, ToldOfClose, closure, Open
<1>2. /\ obj[c] \in Conn /\ obj[c] # None
      /\ sessions[s] = obj[c] /\ agent[obj[c]] = c
  BY <1>1, Holders, ServerAssumption DEF Live
<1>3. /\ \A t \in SessionId \ {s} : sessions'[t] = sessions[t]
      /\ sessions'[s] \in {obj[c], None}
  <2>1. \A t \in SessionId : /\ sessions'[t] \in {sessions[t], None}
                             /\ sessions'[t] # sessions[t] => t = s
    BY <1>1, CleanupEffect
  <2> QED
    BY <1>2, <2>1
<1>4. \A d \in Conn : Open(d)' <=> Open(d)
  BY <1>1 DEF Open
<1>5. Holder(s) = None /\ Holder(s)' = None
  <2>1. Holder(s) = None
    BY <1>1, <1>2 DEF Holder
  <2>2. agent'[obj[c]] = None
    BY <1>1, <1>2
  <2> QED
    BY <1>3, <2>1, <2>2 DEF Holder, Open
<1>6. ASSUME NEW r \in SessionId PROVE SameHolder(r)
  <2>1. CASE r = s
    BY <1>5, <2>1 DEF SameHolder
  <2>2. CASE r # s
    <3>1. sessions[r] # None => sessions[r] # obj[c] /\ sessions[r] \in Conn
      BY <1>2, <2>2, Holders
    <3>2. sessions[r] # None => agent'[sessions[r]] = agent[sessions[r]]
      BY <1>1, <3>1
    <3>3. sessions[r] # None => (Open(agent[sessions[r]])' <=> Open(agent[sessions[r]]))
      <4>1. sessions[r] # None => agent[sessions[r]] \in Conn \cup {None}
        BY <3>1
      <4> QED
        BY <1>3, <1>4, <2>2, <3>2, <4>1 DEF Open
    <3> QED
      BY <1>3, <2>2, <3>2, <3>3 DEF SameHolder, Holder
  <2> QED
    BY <2>1, <2>2
<1>7. ASSUME NEW v \in Conn
      PROVE  /\ Watched(v)' = Watched(v)
             /\ Told(v)' = IF Watched(v) = s THEN "down" ELSE Told(v)
  <2>1. (Watching(v)' <=> Watching(v)) /\ sid'[v] = sid[v]
    BY <1>1, <1>4 DEF Watching
  <2>2. Watching(v) => (v \in OpenViewers(obj[c]) <=> sid[v] = s)
    <3>1. ASSUME Watching(v)
          PROVE  /\ sid[v] \in SessionId /\ obj[v] \in Conn
                 /\ sessions[sid[v]] = obj[v] /\ v \in OpenViewers(obj[v])
      BY <3>1, Watchers
    <3>2. v \in OpenViewers(obj[c]) => obj[v] = obj[c]
      BY <1>2, Watchers
    <3>3. Watching(v) /\ obj[v] = obj[c] => sid[v] = s
      BY <1>2, <3>1, Holders
    <3> QED
      BY <1>2, <3>1, <3>2, <3>3
  <2>3. s # None
    BY <1>2, ServerAssumption
  <2> QED
    BY <1>1, <2>1, <2>2, <2>3 DEF Watched, Told
<1> QED
  BY <1>2, <1>5, <1>6, <1>7, AsNotice

\* The other 'close' events come after the departure and end no session that
\* has an agent.
LEMMA CloseUnseen ==
  ASSUME OrderlyInv, NEW c \in Conn, ViewerClose(c) \/ RefusedClose(c)
  PROVE  UNCHANGED P!vars
<1> USE DEF OrderlyInv, IInv, RInv, TypeInv, TypeOK
<1>1. /\ ws[c] = "CLOSING" /\ ws' = [ws EXCEPT ![c] = "CLOSED"]
      /\ UNCHANGED <<role, sid, agent, status>>
  BY DEF ViewerClose, RefusedClose, closure, session
<1>2. \A d \in Conn : Open(d)' <=> Open(d)
  BY <1>1 DEF Open
<1>3. ASSUME NEW r \in SessionId
      PROVE  sessions'[r] = sessions[r] \/ (sessions'[r] = None /\ agent[sessions[r]] = None)
  <2>1. CASE ViewerClose(c)
    <3>1. sessions' = CleanupSessionIfEmpty(sid[c], agent, viewers')
      BY <2>1 DEF ViewerClose
    <3> QED
      BY <3>1, CleanupEffect
  <2>2. CASE RefusedClose(c)
    BY <2>2 DEF RefusedClose
  <2> QED
    BY <2>1, <2>2
<1>4. ASSUME NEW r \in SessionId PROVE SameHolder(r)
  <2>1. CASE sessions'[r] = sessions[r]
    <3>1. sessions[r] # None => (Open(agent[sessions[r]])' <=> Open(agent[sessions[r]]))
      <4>1. sessions[r] # None => agent[sessions[r]] \in Conn \cup {None}
        OBVIOUS
      <4> QED
        BY <1>1, <1>2, <2>1, <4>1 DEF Open
    <3> QED
      BY <1>1, <2>1, <3>1 DEF SameHolder, Holder
  <2>2. CASE sessions'[r] = None /\ agent[sessions[r]] = None
    BY <2>2 DEF SameHolder, Holder, Open
  <2> QED
    BY <1>3, <2>1, <2>2
<1>5. ASSUME NEW v \in Conn PROVE SameViewer(v)
  BY <1>1, <1>2 DEF SameViewer, Watched, Told, Watching
<1> QED
  BY <1>4, <1>5, AsStutter

LEMMA MessageUnseen ==
  ASSUME OrderlyInv, Tick \/ (\E c \in Conn : Message(c)) \/ UNCHANGED vars
  PROVE  UNCHANGED P!vars
<1>1. UNCHANGED <<ws, role, sid, sessions, agent, status>>
  BY QuietStep
<1>2. \A c \in Conn : Open(c)' <=> Open(c)
  BY <1>1 DEF Open
<1> QED
  BY <1>1, <1>2, NothingSeen

LEMMA PresenceStep ==
  ASSUME OrderlyInv, Orderly', [Next]_vars
  PROVE  [P!Next]_(P!vars)
<1>1. CASE Tick \/ (\E c \in Conn : Message(c)) \/ UNCHANGED vars
  BY <1>1, MessageUnseen
<1>2. ASSUME NEW c \in Conn,
             \/ ConnectWithoutSession(c)
             \/ \E s \in SessionId : ConnectUnknownPath(c, s) \/ RefuseAgent(c, s)
      PROVE  [P!Next]_(P!vars)
  BY <1>2, RefusalUnseen
<1>3. ASSUME NEW c \in Conn, NEW s \in SessionId, AcceptAgent(c, s)
      PROVE  [P!Next]_(P!vars)
  BY <1>3, AgentEnters DEF P!Next
<1>4. ASSUME NEW c \in Conn, NEW s \in SessionId, AcceptViewer(c, s)
      PROVE  [P!Next]_(P!vars)
  BY <1>4, ViewerWatches DEF P!Next
<1>5. ASSUME NEW c \in Conn, BeginClose(c) \/ AgentError(c) \/ ViewerError(c)
      PROVE  [P!Next]_(P!vars)
  BY <1>5, Departure
<1>6. ASSUME NEW c \in Conn, AgentClose(c)
      PROVE  [P!Next]_(P!vars)
  <2>1. PICK s \in SessionId : s = sid[c]
    BY <1>6 DEF AgentClose, OrderlyInv, IInv, RInv, TypeInv, Captured
  <2> QED
    BY <1>6, <2>1, AgentNoticed DEF P!Next
<1>7. ASSUME NEW c \in Conn, ViewerClose(c) \/ RefusedClose(c)
      PROVE  [P!Next]_(P!vars)
  BY <1>7, CloseUnseen
<1> QED
  BY <1>1, <1>2, <1>3, <1>4, <1>5, <1>6, <1>7 DEF Next, Connect, End, CloseEvent

\* As long as connections are orderly, every handler of the server is a step
\* of Presence or none: a session has at most one agent, its arrival is told
\* to everyone who watches, whoever begins to watch is told how things stand,
\* and what a viewer was told changes at no other time (index.js:132-153,
\* 201-252, 283-309).  That a departure is announced some day is TLC's.
THEOREM PresenceKept == OrderlySpec => PresenceSafety
<1>1. OrderlySpec => Spec
  <2>1. [Next /\ Orderly']_vars => [Next]_vars
    OBVIOUS
  <2> QED
    BY <2>1, PTL DEF OrderlySpec, Spec
<1>2. Init => Orderly
  BY ServerAssumption DEF Init, Orderly, UniqueId
<1>3. Orderly /\ [Next /\ Orderly']_vars => Orderly'
  BY DEF Orderly, UniqueId, vars, closure
<1>4. OrderlySpec => []Orderly
  BY <1>2, <1>3, PTL DEF OrderlySpec
<1>5. Init => P!Init
  BY ServerAssumption DEF Init, P!Init, Holder, Watching, Open
<1>6. IInv /\ Orderly /\ Orderly' /\ [Next]_vars => [P!Next]_(P!vars)
  BY PresenceStep DEF OrderlyInv
<1> QED
  BY <1>1, <1>4, <1>5, <1>6, Invariance, PTL DEF PresenceSafety, OrderlySpec, Spec
=============================================================================
