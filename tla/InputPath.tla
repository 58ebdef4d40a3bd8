----------------------------- MODULE InputPath -----------------------------
(***************************************************************************)
(* The way of the user's input from the viewer page to the agent's host:   *)
(* the listeners and sendInput of Web/script.js, the connections and the   *)
(* forwarding of Server/index.js, the message handler of Agent/main.cpp    *)
(* and InputInjector.cpp, with the buttons and keys of the host that are   *)
(* down as a result.                                                       *)
(*                                                                         *)
(* A key is named by its code, and by the symbol the browser gives with it *)
(* when the code is not in browserCodeToVkMap.  "Soft1" stands for the     *)
(* codes that are not: its symbol is "1", and "!" while Shift is held.     *)
(***************************************************************************)
EXTENDS Geometry, Sequences, FiniteSets

CONSTANTS
  Buttons,     \* of the viewer's mouse
  Keys,        \* codes of the viewer's keyboard
  Points,      \* positions of the viewer's pointer over the canvas
  Boxes,       \* boxes the browser may give the canvas
  Picture,     \* size of the frames, those of the virtual screen or of a window
  Primary,     \* size of the host's primary screen, whatever the pictures'
  MaxHeld,     \* bound: buttons and keys held at once
  MaxQueue,    \* bound: messages on their way
  None         \* a position that is not known

ASSUME InputAssumption ==
  /\ Buttons \subseteq {"left", "middle", "right", "X1"}
  /\ Keys \subseteq {"ShiftLeft", "Soft1", "ArrowUp", "Numpad8", "KeyA"}
  /\ \A p \in Points : p.x \in Int /\ p.y \in Int
  /\ \A b \in Boxes : /\ b.left \in Int /\ b.top \in Int
                      /\ b.w \in Nat \ {0} /\ b.h \in Nat \ {0}
  /\ Picture.w \in 1 .. MaxPixels /\ Picture.h \in 1 .. MaxPixels
  /\ Primary.w \in Nat \ {0} /\ Primary.h \in Nat \ {0}
  /\ MaxHeld \in Nat /\ MaxQueue \in Nat

VARIABLES
  point, box,  \* the viewer's pointer and the box of the canvas
  held,        \* buttons pressed over the canvas and keys the user holds
  sized,       \* originalWidth and originalHeight are set
  up,          \* both connections are OPEN
  queue,       \* messages between sendInput and the agent's handler
  hostButtons, \* buttons that are down on the host
  hostKeys,    \* keys that are down on the host
  hostAt,      \* the host's pointer, in the units of SendInput; None at first
  blind,       \* history: buttons and keys whose last event got lost
  astray       \* history: no move has been sent since the pointer or the
               \* box changed or a message was lost

vars == <<point, box, held, sized, up, queue, hostButtons, hostKeys,
          hostAt, blind, astray>>
host == <<hostButtons, hostKeys, hostAt>>

Inputs == Buttons \cup Keys

\* Codes of browserCodeToVkMap, with the scan code of their key and whether
\* they are injected as an extended one.
Mapped == {"ShiftLeft", "ArrowUp", "Numpad8", "KeyA"}
Scan == [ShiftLeft |-> 42, ArrowUp |-> 72, Numpad8 |-> 72, KeyA |-> 30]
NotExtended(code) == FALSE  \* Faulty: the arrows of the keypad are injected.
Extended(code) == code = "ArrowUp"

\* The host's key for a code and a symbol: a scan code, extended or not, or
\* the virtual key of a symbol that has one; wVk and wScan 0 is none.
NoKey == [wVk |-> 0, wScan |-> 0, extended |-> FALSE]
HostKey(code, symbol) ==
  IF code \in Mapped THEN [NoKey EXCEPT !.wScan = Scan[code], !.extended = Extended(code)]
  ELSE IF symbol = "1" THEN [NoKey EXCEPT !.wVk = 49] ELSE NoKey

Symbol(code, holding) ==
  IF code # "Soft1" THEN code ELSE IF "ShiftLeft" \in holding THEN "!" ELSE "1"

HostKeys == {HostKey(k, s) : k \in Keys, s \in {"1", "!"}} \ {NoKey}
Messages == [type : {"mousemove", "mousedown", "mouseup", "click", "contextmenu"},
             button : Buttons \cup {"none"}, aimed : BOOLEAN,
             at : [x : 0 .. Picture.w - 1, y : 0 .. Picture.h - 1]]
            \cup [type : {"keydown", "keyup"}, code : Keys, symbol : Keys \cup {"1", "!"}]

TypeOK ==
  /\ point \in Points /\ box \in Boxes
  /\ held \in SUBSET Inputs
  /\ sized \in BOOLEAN /\ up \in BOOLEAN /\ astray \in BOOLEAN
  /\ \A i \in 1 .. Len(queue) : queue[i] \in Messages
  /\ hostButtons \in SUBSET {"left", "middle", "right"}
  /\ hostKeys \in SUBSET HostKeys
  /\ hostAt = None \/ hostAt \in [x : Reach(Picture.w, Primary.w), y : Reach(Picture.h, Primary.h)]
  /\ blind \in SUBSET Inputs

Init ==
  /\ point \in Points /\ box \in Boxes
  /\ held = {} /\ sized = FALSE /\ up = FALSE
  /\ queue = <<>> /\ hostButtons = {} /\ hostKeys = {} /\ hostAt = None
  /\ blind = {} /\ astray = TRUE

-----------------------------------------------------------------------------
(* The page.                                                               *)

\* sendInput sends messages about the inputs in I, or returns.  An event that
\* the host has no key for is as good as lost.
Understood(m) == m.type \in {"keydown", "keyup"} => HostKey(m.code, m.symbol) # NoKey
SendInput(I, messages) ==
  IF up /\ sized
  THEN /\ Len(queue) + Len(messages) <= MaxQueue
       /\ queue' = queue \o messages
       /\ blind' = IF Understood(messages[1]) THEN blind \ I ELSE blind \cup I
  ELSE queue' = queue /\ blind' = blind \cup I

Mouse(type, b) == [type |-> type, button |-> b, at |-> PixelAt(point, box, Picture),
                   aimed |-> ~astray]
Key(type, k) == [type |-> type, code |-> k, symbol |-> Symbol(k, held)]

\* The 'mousemove' listener.
NotWhilePressed == held \cap Buttons = {}  \* Faulty: a drag sends no moves.
Listening == TRUE
MouseMove(p) ==
  /\ p # point /\ point' = p
  /\ IF Listening
     THEN SendInput({}, <<[Mouse("mousemove", "none") EXCEPT !.at = PixelAt(p, box, Picture)]>>)
     ELSE UNCHANGED <<queue, blind>>
  /\ astray' = ~(up /\ sized)
  /\ UNCHANGED <<box, held, sized, up, host>>

\* The window is resized or the page scrolled: no event is listened for.
Layout(b) ==
  /\ b # box /\ box' = b /\ astray' = TRUE
  /\ UNCHANGED <<point, held, sized, up, queue, host, blind>>

\* The 'mousedown' listener, and on some systems 'contextmenu' at once.
MouseDown(b) ==
  /\ b \notin held /\ Cardinality(held) < MaxHeld
  /\ held' = held \cup {b}
  /\ \/ SendInput({b}, <<Mouse("mousedown", b)>>)
     \/ b = "right" /\ SendInput({b}, <<Mouse("mousedown", b), Mouse("contextmenu", b)>>)
  /\ UNCHANGED <<point, box, sized, up, host, astray>>

\* The 'mouseup' listener, with 'click' after it for the left button and, on
\* the other systems, 'contextmenu' for the right one.
MouseUp(b) ==
  /\ b \in held /\ held' = held \ {b}
  /\ \/ b # "left" /\ SendInput({b}, <<Mouse("mouseup", b)>>)
     \/ b = "left" /\ SendInput({b}, <<Mouse("mouseup", b), Mouse("click", b)>>)
     \/ b = "right" /\ SendInput({b}, <<Mouse("mouseup", b), Mouse("contextmenu", b)>>)
  /\ UNCHANGED <<point, box, sized, up, host, astray>>

\* The listeners are on the canvas and on the document: a button released
\* beside the canvas, or a key while another window has the focus, is lost.
ReleaseUnseen(i) ==
  /\ i \in held /\ held' = held \ {i}
  /\ blind' = blind \cup {i}
  /\ UNCHANGED <<point, box, sized, up, queue, host, astray>>

\* The 'keydown' listener; a key that is held repeats.
KeyDown(k) ==
  /\ k \in held \/ Cardinality(held) < MaxHeld
  /\ held' = held \cup {k}
  /\ SendInput({k}, <<Key("keydown", k)>>)
  /\ UNCHANGED <<point, box, sized, up, host, astray>>

\* The 'keyup' listener.
KeyUp(k) ==
  /\ k \in held /\ held' = held \ {k}
  /\ SendInput({k}, <<Key("keyup", k)>>)
  /\ UNCHANGED <<point, box, sized, up, host, astray>>
-----------------------------------------------------------------------------
(* The connections and the host.                                           *)

Connect ==
  /\ ~up /\ up' = TRUE
  /\ UNCHANGED <<point, box, held, sized, queue, host, blind, astray>>

\* The first frame sets originalWidth and originalHeight, for ever.
FirstFrame ==
  /\ up /\ ~sized /\ sized' = TRUE
  /\ UNCHANGED <<point, box, held, up, queue, host, blind, astray>>

\* One of the connections ends: sendInput returns, or the server has no agent
\* to send to.  What was on its way still arrives, if the end is an orderly
\* one, or only the first n messages do; those of a connection to come follow.
About(m) == IF m.type \in {"keydown", "keyup"} THEN m.code ELSE m.button
Lost(n) == {About(queue[i]) : i \in n + 1 .. Len(queue)} \ {"none"}
Disconnect ==
  /\ up /\ up' = FALSE
  /\ \E n \in 0 .. Len(queue) : /\ queue' = SubSeq(queue, 1, n)
                              /\ blind' = blind \cup Lost(n)
  /\ astray' = TRUE
  /\ UNCHANGED <<point, box, held, sized, host>>

\* SendInput of Windows, on a button that has flags or on a key.
Down(S, i) == S \cup {i}
Up(S, i) == S \ {i}

\* InjectMouseInput.  Only MOUSEEVENTF_MOVE makes Windows look at dx and dy.
UpThenDown(S, b) == Down(Up(S, b), b)  \* Faulty: the two INPUTs are swapped.
DownThenUp(S, b) == Up(Down(S, b), b)
InjectMouseInput(m) ==
  /\ hostAt' = IF m.type = "mousemove" THEN Injected(m.at, Primary) ELSE hostAt
  /\ hostButtons' =
       IF m.type = "mousemove" \/ m.button = "X1" THEN hostButtons
       ELSE CASE m.type = "mousedown" -> Down(hostButtons, m.button)
              [] m.type = "mouseup" -> Up(hostButtons, m.button)
              [] m.type = "click" -> DownThenUp(hostButtons, m.button)
              [] m.type = "contextmenu" -> DownThenUp(hostButtons, "right")
  /\ UNCHANGED hostKeys

\* InjectKeyboardInput.
InjectKeyboardInput(m) ==
  LET key == HostKey(m.code, m.symbol) IN
  /\ hostKeys' = IF key = NoKey THEN hostKeys
                 ELSE IF m.type = "keyup" THEN Up(hostKeys, key) ELSE Down(hostKeys, key)
  /\ UNCHANGED <<hostButtons, hostAt>>

\* The agent's message handler.
Inject ==
  /\ queue # <<>> /\ queue' = Tail(queue)
  /\ LET m == Head(queue) IN IF m.type \in {"keydown", "keyup"}
                              THEN InjectKeyboardInput(m) ELSE InjectMouseInput(m)
  /\ UNCHANGED <<point, box, held, sized, up, blind, astray>>

User == \/ \E p \in Points : MouseMove(p)
        \/ \E b \in Boxes : Layout(b)
        \/ \E b \in Buttons : MouseDown(b) \/ MouseUp(b)
        \/ \E k \in Keys : KeyDown(k) \/ KeyUp(k)
        \/ \E i \in Inputs : ReleaseUnseen(i)

Next == User \/ Connect \/ FirstFrame \/ Disconnect \/ Inject

Spec == Init /\ [][Next]_vars
-----------------------------------------------------------------------------
(* Properties.                                                             *)

Delivered == queue = <<>>

\* Once everything has been injected, no button is down on the host that the
\* user does not hold, and the left and the middle one are down when held,
\* in spite of the presses that click and contextmenu add.  A button whose
\* last event was lost is excepted until its next one arrives, as it is by
\* the code (lines 60-93 of InputInjector.cpp, script.js:411-419).
ButtonsTracked ==
  Delivered => \A b \in Buttons \ blind :
                 /\ b \in hostButtons => b \in held
                 /\ b \in held \cap {"left", "middle"} => b \in hostButtons

\* Once everything has been injected, a key of the host is down exactly when
\* the user holds its counterpart: no two codes share a key of the host, and
\* a key is let go of under the name it was pressed with, unless its last
\* event was lost or had a symbol without a key.
KeysTracked ==
  Delivered => \A k \in Keys \ blind : (HostKey(k, "1") \in hostKeys) <=> (k \in held)

\* Once everything has been injected, the host's pointer is where the viewer
\* points, unless the canvas moved under a resting pointer or a move was lost.
PointerFollows ==
  Delivered /\ ~astray => hostAt = Injected(PixelAt(point, box, Picture), Primary)

\* A press that was aimed, the last move being sent, hits what the viewer
\* pressed on, although the injected press does not position the pointer.
PressesLand ==
  [][Inject /\ Head(queue).type = "mousedown" /\ Head(queue).aimed
       => hostAt = Injected(Head(queue).at, Primary)]_vars
=============================================================================
