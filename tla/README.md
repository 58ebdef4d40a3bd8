# Remote-Share in TLA+

A verification development for `src/Remote-Share`: a relay server
(`Server/index.js`, Node.js with `ws`), a Windows agent that captures a screen
and injects input (`Agent/src/*.cpp`, C++ with websocketpp), and a viewer page
(`Web/script.js`). The libraries under `Agent/libs` are vendored and are only
modelled as far as this code relies on them.

## The system

| part | state | operations | interacts through |
|---|---|---|---|
| session registry and relay, `index.js:15-313, 364-374` | `sessions` (id to session object), per object `agent`, `viewers`, `agentScreen`, `clientScreens`; `connectionState`; the closures of the handlers | `connection`, `message`, `close`, `error` of agents and viewers; `cleanupSessionIfEmpty` | messages with agents and viewers; shares the session objects among all handlers |
| ping timer, `index.js:333-362` | `isAlive` and an interval per connection | interval callback, `pong`, `close` | `ws.terminate()`, which later runs the `close` handlers |
| scale arithmetic, `index.js:318-328` | none | `calculateOptimalScale` | called by both message handlers |
| WebSocket client, `WebSocketClient.cpp` | `m_connected` (atomic), `m_hdl`, `m_thread`, the retry counter | `connect`, `send`, `isConnected`, destructor; `onOpen`, `onClose`, `onMessage`, `onFail` on the IO thread | main thread calls it, IO thread calls back into it |
| agent main loop, `main.cpp` | `selected_hwnd`, elapsed wait | wait 5 s, select, announce the screen, capture and send for ever; message handler on the IO thread | shares `selected_hwnd` with the message handler |
| input injection, `InputInjector.cpp` | keys and buttons down on the host | `InjectMouseInput`, `InjectKeyboardInput` | called by the message handler |
| capture, `CaptureManager.cpp` | GDI objects held during a capture | `CapturePixelsInternal` | pixels to the encoder |
| encoding, `ImageProcessor.cpp` | the compressor handle | init, shutdown, compress, Base64 | frame text to `send` |
| window list, `WindowEnumerator.cpp` | a static list pointer | enumerate, select | before the main loop |
| viewer page, `script.js` | `ws`, sizes, status text, overlay, full-screen flag | buttons, socket callbacks, image callbacks, input listeners | messages with the server |

What is hard in it: two events end a connection (`readyState` changes, later
`close` runs), handlers act on the session object they captured while cleanup
acts on the one the map holds now, agents may replace each other, connections
vanish without a word, the agent shares a handle and a window between two
threads, the page's callbacks outlive the socket they belong to, input crosses
three programs that each translate it, and a capture may fail at every call.
What makes each part correct:

| part | must hold |
|---|---|
| registry and relay | references are live and mutual; nobody who is connected is cut off; messages stay in their session; what a viewer was told is true; empty sessions go; counters add up |
| ping timer | the vanished and only the silent are dropped |
| scale arithmetic | the scaled screen fits the window, and is computed from the latest sizes |
| WebSocket client | no race for the handle; waiting ends; retries do not grow without bound |
| main loop | sizes before frames; the full screen is shown only when it is selected |
| input injection | the host's keys, buttons and pointer are the viewer's |
| capture, encoding | nothing leaks; buffers suffice; the text is standard Base64 |
| viewer page | status, controls, picture, overlay and full-screen flag agree with the sockets and the document |
| the composition | viewers learn that the agent is gone |

The hazards of `PROJECT.json` name the line at which each of these could go wrong.

## Modules

`ShareServer` — the registry and the relay. Node.js runs a handler to its end
before the next event, so **one handler is one action**, whatever it calls:
`AcceptAgent` is `handleAgentConnection` with its announcements,
`AgentClose` is the `close` handler with `cleanupSessionIfEmpty`, and so on.

* A connection is a member of `Conn` and connects at most once; `ws[c]` is its
  `readyState`. `role[c]` says which handlers it has; refused connections have
  none. `sid[c]`, `obj[c]`, `viewerId[c]` are what those handlers captured.
* A session object is named by the connection that created it, so that
  `obj[c]` (captured) and `sessions[s]` (in the map now) may differ, as in the
  code. `agent`, `viewers`, `agentScreen` are the fields of the object.
  `clientScreens` is keyed by socket, so it is `clientScreen[c]` of the viewer.
* `viewerId` is the millisecond of `Date.now()`; `Tick` lets time pass.
* The library `ws` is external, modelled from its use: `BeginClose` (peer's
  close frame, lost socket, `terminate`) sets `CLOSING`, a later `close` event
  runs the handler, and `error` is always followed by `close`. Buffered data that
  `ws` still delivers while it tears a socket down is delivered in the same
  turn of the event loop, so a message never comes after `BeginClose`.
  A refused connection has no `error` listener (`index.js:86-92`): an `error` on
  it would end the process, and is left out.
* `status`, `scale` and `relay` record what viewers were sent last, which is
  what the properties speak of. `superseded` is a history variable: agents
  whose slot was taken before their `close` event.
* `lastActivity`, `createdAt`, IP addresses and logging are left out: nothing
  reads them. The scale is the pair of screens it was computed from;
  `calculateOptimalScale` throws when the viewer's screen is `undefined`, and
  the order of `clientScreens` then decides who was served before (a
  nondeterministic subset in `AgentScreenInfo`).

`Presence` — the abstract promise: a session has at most one agent, arrivals
are announced to all watchers, newcomers are told how things stand, and a
departure is announced unless another agent takes over first.
`ServerPresence` maps the server's state to it and states the refinement.

`Heartbeat` — `setupPingPong` over `ShareServer`: timer, `isAlive`, and peers
that answer, leave or vanish. A timer callback is `Ping`, `GiveUp` or
`StopTimer`. When the connection is closed its variables go back to their
initial value (nothing reads them any more).

`ShareServerClaims` — what a comment in `index.js` says and the code does not do.

`AgentClient` — the agent's two threads. `pc` and `io` are their control
states, and every access to something shared is a step: `isConnected()` is
`LoadConnected` followed, when the flag was set, by `TestExpired`, at each of
the seven places that ask (`IfConnected` and `IfNot` say where main goes on).
The network may open, fail or close the connection at any time, and messages
may come whenever it is open.

* `m_hdl` has no variable for its value: every assignment stores the handle of
  the one connection the client has, so it has expired when `sock` is `gone`.
  Its reads and writes are visible in `pc`, `reading` and `io`.
* `sock` leaves `open` before `onClose` runs, as in websocketpp, so that a send
  in between fails without `m_connected` being cleared.
* `attempts` stops at `MaxDelay`, which is exact: only `min(30, n)` is used.
* `connect()` starts the thread and stores it in `m_thread` in one step:
  `onFail`, which looks at `m_thread` too, first sleeps for a second.
* The message handler's input branch changes nothing here; a picture is either
  there or empty.
* `ReconnectThrows` is the `catch` in `onFail`: the IO thread runs out of work.

`AgentClientClaims` — what the agent's messages promise and the code does not
keep.

`ViewerPage` — the sockets the page ever created, of which the variable `ws`
reaches only the last. A handler is an action; those of a socket may run
whatever has become of it, and a frame's `onload` comes in any order and even
after the socket has closed. `OnBadMessage` is the `catch` of `onmessage`, which
sets the status of an open socket. `ConnectThrows` is the constructor that throws on an
address that makes no URL. `onerror` and the `onclose` after it are one action
(`OnClose(s, TRUE)`): the browser fires both in one task, and what the first
writes nobody sees. Full screen mode is any number of requests, of two kinds, that
the browser grants or rejects in any order, Escape, and an event that comes later.
`canvas` and `sizes` say whose frame set them; history variables name the overlaps in which a property needs an
exception (`overlapped`, `ignored`, `late`, `threw`, `rejected`).

`Geometry` — the arithmetic, over exact fractions: `PixelAt` (page to pixel,
with the bands of a picture that is fitted into its box), `Injected` (pixel to
the 65536 steps across the primary screen, or beyond them when the picture is
larger), `OptimalScale`. JavaScript computes these in
floating point; a result that falls next to a rounding boundary may differ by one
pixel from the model's.

`InputPath` — the input from the listeners of the page over both connections to
`SendInput` of Windows. `SendInput` of the page returns silently without a
connection or sizes. The two connections and the relay are one queue that keeps
the order. When either ends, all, none or a first part of what is under way still
arrives (`Disconnect`): an orderly close delivers it, a break may lose it. What a
later connection carries follows it. The host keeps the
buttons and keys that are down and where its pointer is. Five keys stand for the
kinds there are: a modifier, a key without an entry in the table whose symbol
changes with Shift, an extended key and the plain key with the same scan code,
and a letter. `held` is what the user really holds; `blind` is the history of
those whose last event never arrived. Every press also sends `click` or
`contextmenu`, which inject a press of their own. Both orders that browsers have
for `contextmenu` are there.

`Base64` — `base64_encode_impl` with its accumulator in 32 bits: the left shift
drops the top byte, the right shift keeps the sign, as the compilers the agent is
built with do. `Standard` is the encoding as RFC 4648 defines it.

`FramePipeline` — one round of the capture loop after another: every Windows
call of `CapturePixelsInternal` whose result the code looks at may fail, and each
return gives back what its own list says (`Abandon(released)`); then the
compressor and its buffer, then the encoder of `Base64`, round by round. The
IO thread clears `selected_hwnd` at any time, and the window may be closed at any
time. `Draw` is what ends up on the bitmap: the full screen, the window, or, when
`PrintWindow` fails, the area of the screen at the window's rectangle. Pixels are
counted, not kept.

`RemoteShare` — `AgentClient` and `ShareServer` as instances, joined by the
agent's connections: messages in order, none lost while the connection lasts, and
each end learns of the break on its own. A handshake that reached the server's
machine (`requested`) is read when the server comes to it, also when the attempt
has failed at the agent or its process is over by then. `request` is the session
in the agent's URI; the URI the code builds has none. The agent's messages, and
the messages to it, are bounded by `MaxInFlight`; which of its two messages a
viewer sent shows when the agent reads it. Connections are used in a fixed order,
one viewer does the sending, and `Tick` only tells a viewer from one that is yet
to come: connections are interchangeable, and the agent does not see who sent.
What a viewer sends while no agent is served reaches nobody and is left out here,
as is a viewer that leaves; both are in the runs of `ShareServer`.

`MCShareServer`, `MCHeartbeat`, `MCInputPath`, `MCFramePipeline` — instances for
TLC. `ShareServerProofs`, `ServerToldProofs`, `HeartbeatProofs`,
`AgentClientProofs`, `ViewerPageProofs`, `InputPathProofs`, `FramePipelineProofs`,
`RemoteShareProofs` — the theorems.

## Runs

| run | shows | bounds |
|---|---|---|
| `ServerRegistry` | references in the registry are live and mutual; status, reachability, cleanup, counters | 4 connections, 1 session, 2 milliseconds, no messages that carry screens |
| `ServerRelay` | who receives what; scales are current and fit; types | 3 connections, 2 sessions, 2 screens |
| `ServerPresence` | the server implements `Presence`, liveness included | 3 connections, 2 sessions |
| `Heartbeat` | a vanished peer is dropped at the second timer callback, nobody who answered is; abandoned sessions leave the map; viewers are told of a vanished agent | 2 agents, 1 viewer, 1 session |
| `AgentClient` | no race for `m_hdl`; frames follow the announcement; waiting for the connection ends | 2 windows, 3 polls, pauses up to 3 |
| `ViewerPage` | status, controls, picture, sizes, overlay and flag against the sockets | 2 sockets, 1 image decoding per socket, 2 full screen requests under way |
| `InputPath` | buttons, keys and pointer of the host against the viewer's | 3 buttons, 4 keys, 2 points, 2 boxes, 2 held, 2 messages under way, a picture wider than the primary screen |
| `FramePipeline` | no handle or buffer is kept; layout; selection, with a window that is closed; encoding | 9 sizes, images of up to 7 bytes, 1 window |
| `RemoteShare` | sizes precede frames; viewers learn that the agent ended | 2 attempts of the agent, 2 viewers, 2 milliseconds, 1 session, 1 message each way |
| `Claim...` | a comment or message is refuted by a shortest run | as small as the refutation allows |

Four connections are the smallest number with an agent, its successor and two
viewers with one id; two milliseconds tell equal from different ids; two
sessions tell "same session" from "all". A second session adds nothing to the
registry run since the actions touch one id each, which `ServerRelay` and
`ServerPresence` check with two. `Symmetry` permutes connections and sessions,
which the specification only compares, and is used for safety runs only.
The two screens have sizes that meet both bounds of the scale.
Three polls and pauses let a retry fall before, between and after the polls, and
the longest pause is reached and repeated. A page with two sockets has an old and
a new one, which is all its handlers distinguish. The boxes put bands at the
sides and above, one of them scrolled, and a pointer lies on a band; two held
inputs are a key and its modifier, or a drag with a second button; a queue of two
holds a press or a release with the event the browser adds. A user of `InputPath` uses, at one
time, the keyboard, the mouse with the buttons that are injected, or the button
that is not: their states are disjoint (`OneDevice`), and the theorems do without
this bound. The picture is wider than the primary screen and as high, so that both
cases of `Reach` occur. Two requests for full screen are one of each kind, or two
of a kind, in either order of answers. The sizes
of `FramePipeline` have every remainder by four and empty pictures; images of
four to seven bytes drive set bits through bit 31 of the accumulator. Two attempts
in `RemoteShare` are one that fails with its connection left behind at the server
and one that succeeds or is refused; of two viewers in one millisecond the first
loses its entry, of two in different ones both are told. `CHECK_DEADLOCK FALSE`: the agent's
process ends; a connection to the server connects once, so a bounded system stops
when all have closed and the clock is at its bound; a page has used up its
sockets.

**Fairness.** `WF(CloseEvent)`: `ws` destroys a socket 30 s after it began to
close, so the `close` event comes. `WF(PingInterval)`: `setInterval` fires until
it is cleared. Nothing is assumed of peers, which need not close, answer or
connect. In `AgentClient`, `WF(MainStep)` and `WF(IOStep)`: both threads are
scheduled. The user need not choose, and the network need not connect, fail,
close or deliver; in particular the pauses and the polls are not related in
time, so that every order of them is looked at. In `ViewerPage`, a browser ends a
connection attempt, with its time-out at the latest, and completes a closing
handshake; nothing is assumed of images, messages or the user. `RemoteShare`
adds that the server takes what has arrived and sees the end of a connection
that is over at the agent, by the close frame, by the system when the process is
gone, or by the ping timer of `Heartbeat`. It assumes nothing of the agent or the
viewers; only `ClaimServes`, whose counterexample must not be an agent that has
stopped running, adds that the agent's threads are scheduled (`FairSpec`).

**Two restrictions** appear in the properties because the code needs them: an
agent that takes the slot before the `close` event of its predecessor loses the
slot to that event (`Undisturbed`, `superseded`), and two viewers of a session
in one millisecond share an entry (`UniqueId`). `ShareServerClaims` shows the
first; `ServerPresence` assumes the absence of both (`Orderly`), and
`ViewersLearnOfExit` says nothing of a viewer that lost its entry to another.

**Exceptions for what the code gets wrong.** Some properties name, by a history
variable, the one way in which the code breaks what they say, and show that there
is no other. They do not show those cases correct: `ignored`, `late`, `threw` and
`rejected` in `ViewerPage` (a socket that was still connecting at Disconnect, a
frame decoded after its socket had closed, a constructor that throws, a request
that is denied), sizes left by an earlier socket in `InputOverPicture`, `blind`
and `astray` in `InputPath` (the last event of a button or key that was lost or
has no key, a canvas moved under a resting pointer). `PointerFollows` and
`PressesLand` compare the host's pointer with the code's own formula: they are
about order and loss, not about where Windows then puts the pointer.

## What the runs found

Places where a comment and the code disagree. Those marked with a run are
refuted by it ("findings"); the others are as plain as the line they stand at.

* `index.js:203` (`ClaimAgentSession`) the late `close` of a replaced agent empties the slot of its
  successor, and the cleanup may then delete the session of an open agent.
* `main.cpp:71` (`ClaimServes`) the agent asks for a URI without a path and a
  session, which the server closes at once (`index.js:86-92`): the agent goes on
  to share its screen with nobody, and says so nowhere.
* `WebSocketClient.cpp:137` (`ClaimReconnect`) an established connection that is lost is never
  made again, although three messages announce it.
* `index.js:237` viewer ids are milliseconds and not unique.
* `index.js:221` `error` and `close` both subtract the connection.
* `index.js:95` a connection with an unknown path leaves a session for ever.
* `index.js:186` `screen_info` is forwarded although the comment says "other".
* `index.js:174` one `client_info` without a screen keeps other viewers from
  being rescaled.
* `index.js:86-92` a refused connection gets no `error` listener.
* `index.js:45` is dead: the declaration at line 318 replaces it.
* `WebSocketClient.cpp:161` the "exponential" backoff is linear.
* `main.cpp:147` a `toggle_fullscreen` that comes while the user chooses a
  window is overwritten by the choice.
* `script.js` never sends `client_info`, `close_connection` or
  `toggle_fullscreen`, and ignores `set_scale`: the server and the agent handle
  messages that no page of this repository produces.
* `ImageProcessor.cpp:73` tells the compressor rows of `width * 3` bytes although
  `CaptureManager.cpp:152` pads them: unless the width is a multiple of four, the
  picture is skewed. `BufferLayout` shows that nothing beyond the buffer is read.
* `CaptureManager.cpp:128-133` shows the area of the screen where the window is or
  was when `PrintWindow` fails, with whatever lies there: of a closed window that
  happens once at most (`OnlyWhatIsSelected`), of one that merely refuses to be
  printed in every frame. Nobody looks at the results of `StretchBlt` and `BitBlt`.
* `CaptureManager.cpp:136-163` reads and deletes the bitmap while it is selected
  into a device context, which the documentation of Windows forbids for both.
* `InputInjector.cpp:95` scrolls the other way than `InputInjector.hpp:17` says,
  and converts a negative number to `DWORD`; line 127 takes BracketRight for an
  extended key and MetaLeft for a plain one.
* `InputInjector.cpp:46` divides pixels of the picture by the size of the primary
  screen, although `CaptureManager.cpp:47` captures the virtual screen and line 70
  a window that may reach beyond it: the result leaves the 65536 steps.
* `InputInjector.cpp:52` a press has a position but no `MOUSEEVENTF_MOVE`, so
  Windows ignores it; `PressesLand` holds because a move nearly always came before.

## Proofs

`ShareServerProofs` proves, for any finite set of connections and any sets of
sessions and screens, with `ServerAssumption` as the only assumption:

* `TypeCorrect` — `TypeOK`. It is not inductive alone: a handler indexes the
  registry with what it captured, so `Captured` (a connection with handlers has
  a session, and a viewer an id) goes with it.
* `RegistryCorrect` — `RegistryConsistent`. Strengthened by `Fresh`: nothing
  refers to a connection that has not connected, so a new object is empty.
* `AgentsReached`, `ViewersReached` — strengthened to `Held`, which speaks of
  closing agents too, since their `close` event is what could empty the slot
  of an open one, and to `Entered`, which says where the viewer's entry is.
* `StatusCorrect`, `EmptyRemoved`, `RelayCorrect` from these.
* `CountersCorrect` — `CountersExact`, by the cardinalities of the sets of
  connections each handler adds one to or takes one from.

`IInv` is the conjunction; `Invariance` proves it with one lemma per part and
one step per action (connects and ends are grouped by what they change).

`ServerToldProofs` is about what viewers are told. `ScaleStaysCurrent` and
`ScaleAlwaysFits` have assumptions of their own: every `client_info` has its
screen (otherwise line 174 throws), and for the second that screens have positive
sizes. `PresenceKept` is the refinement of `Presence`, step by step
(`PresenceSafety`, which is `PresenceImplemented` without its fairness): the
mapping is read one session and one viewer at a time, and `AsEnter`, `AsLeave`
and so on say what each abstract action is in that reading. `Watchers` and
`Holders` are where orderly connections are needed: then whoever watches a session
is registered in the very object the map has for it, and a live agent holds its
slot. So `AcceptAgent` is `Enter`, the end of an `OPEN` connection (by a close
frame, the timer or an error) is `Leave` or `Unwatch`, the agent's `close` event
is `Notice`, and a `close` event of a viewer with its cleanup is no step at all.

`HeartbeatProofs`: `TimersAddNothing` shows that `HSpec` implements `Spec` of
`ShareServer`, so that all of the above holds with the timers running.
`VanishedDropped` rests on: a peer that vanished with no pong under way has
`isAlive` cleared by its first missed callback. `OnlySilentDropped`: `isAlive` is
cleared only where a ping is sent.

`AgentClientProofs` proves, from `AgentAssumption`:

* `HandleRaceFree` — `HdlRaceFree`. The argument is `NotBeforeOpen`: until
  `onOpen` stored the flag, main can only poll, give up or be joined, and none
  of these reads the handle; afterwards nothing writes it, for `onFail` cannot
  follow an `onOpen` and `onClose` does not connect again.
* `FramesFollowInfo` — `FramesAnnounced`, which rests on `FlagTells`: a flag that
  was set and is cleared means a connection lost for good.
* `AgentTypeCorrect` — `TypeOK`.

Both fail as soon as someone adds the reconnection that the messages promise:
that is what the mutant `OnCloseReconnecting` shows.

`ViewerPageProofs` proves every safety property of `ViewerPage` for any number
of sockets, images and requests, from `PageAssumption`. Two parts make them
inductive: `NothingBeforeOpen` (a socket that was never open has delivered nothing,
so a new one starts without a picture) and `RequestAgrees` (what the requests under
way say of the flag).

`InputPathProofs` proves, for every box the browser may give the canvas, every
position of the pointer and all sizes, from `InputAssumption` (a picture is at most
32768 pixels wide and high, for Windows has 16 bits for the coordinates of the
virtual screen; the primary screen may be smaller than the picture):

* `InputTypeCorrect` — `TypeOK`: what is injected is an int, as the product in
  `InputInjector.cpp:46` must be, and within the 65536 steps when the primary screen
  is as large as the picture. `PixelInPicture`, `AbsoluteIsInt`, `Reached` and
  `InjectedFits` are about the arithmetic.
* `PointerIsFollowed`, `PressesHit` — from `AimInv`: the last move in the queue,
  or the host's pointer if there is none, is where the viewer points; and a press
  that was aimed has the last move before it at its own position.
* `ButtonsAreTracked`, `KeysAreTracked` — from `TrackInv`, which speaks of what is
  under way: `WillBeDown` is what the host will have of an input when the queue
  has been injected, decided by the last message that touches it, and that is
  what the user holds. An input is left out once its last event was lost
  (`blind`); the right button may be up early, because its `contextmenu` ends with
  a release. `AddedDecides` and `TakenDecides` say how `WillBeDown` changes at
  either end of the queue, `KeptDecides` what becomes of it when its end is lost,
  `HostKeysDiffer` that no two codes share a key.

`FramePipelineProofs`: `EncoderIsStandard`, for every byte string. Its invariant
`SoFar` says how many bits are pending (`valb`), and that they are the low bits
of the last byte whatever sign and top bits the overflow left in `val`.
The rest carries that to the pipeline and proves its other four
invariants, for all sizes; `PitchIsStride` is the arithmetic of the padding.
`HoldingInv` says which handles a capture may have at each step, so that every
return's list is just what it needs; `SelectionInv` that a capture without a window
goes on only with the full screen selected, and that a capture which drew the area
of a closed window has no successor that gets as far as drawing.

`RemoteShareProofs` is about the composition, from `RemoteAssumption` (finitely
many connections, `None` apart from everything else), for any number of attempts,
viewers, sessions and messages under way:

* `ComponentsKept` — `RemoteShare` implements both `AgentClient` and `ShareServer`:
  every step of it is a step of each or leaves it alone. All theorems of the two
  therefore hold of the system, and the next two proofs use them.
* `FramesAreSized` — `FramesHaveSize`. `SizeInv` follows the announcement through
  the connection: while the server serves the agent, every frame under way has a
  `screen_info` ahead of it or the server has the size already (`InOrder`); nothing
  is sent before the connection is open (`Unsent`), and no announcement is left of
  an earlier attempt (`NotAgain`), because only attempts that failed are repeated.
  That frames come after the announcement on the agent's side is
  `AgentClientProofs`' invariant.
* `ExitIsFinal` — once the agent's process and its connections are gone
  (`AgentGone`), no viewer that can be reached is told that it is there. That ends
  only by the server reading a handshake that was sent before (`Unread`); after the
  process has ended none is added to these, and each is read once. Of
  `ViewersLearnOfExit` this leaves to TLC that what is read late closes again.

Every safety property that a run checks is proved. Only model-checked is
liveness, which is out of the prover's reach: the fairness in `Presence`
(`PresenceImplemented`), `AbandonedSessionRemoved`, `VanishedAgentAnnounced`,
`DecidesOrExits`, `OverlayEnds` and `ViewersLearnOfExit`.

## Plan

1. What liveness rests on, as theorems of steps like `ExitIsFinal`: that a
   connection which is over stays over until its `close` event
   (`AbandonedSessionRemoved`, `VanishedAgentAnnounced`), and that the polls of
   the agent only count up (`DecidesOrExits`).
2. `RemoteShare` with the ping timers of `Heartbeat` in place of `Over`.

## Not modelled

* The wheel (`InputInjector.cpp:89-98`): it leaves no state on the host.
* The list of windows (`WindowEnumerator.cpp`): sequential, and its result is a
  choice in the models.
* The HTTP front end and address discovery (`index.js:8-12, 376-443`, start-up
  I/O without state), styling, and the export scripts under `Summary`.
* What Windows does behind the calls: a window handle that is given to another
  window, results of `StretchBlt` and `BitBlt`, and where the pointer goes for
  coordinates beyond the 65536 steps or for a shared window's origin.
* Exceptions that end a process: an `error` on a refused connection of the server,
  memory that runs out in the agent.
* The order between messages of two connections that exist at once.
* The lifetime of static objects at `exit(0)`, and of `input_injector` between
  the destructors of `main`.
* The vendored libraries. They are nearly all of the repository: of its 122,000
  lines of implementation some 2,000 are the program, and the rest is libjpeg-turbo,
  with Java bindings and SIMD code, and websocketpp, as published upstream. The
  program uses one call of the first and five of the second; what it relies on
  (how a connection ends, how `run` and `stop` behave, that `tjCompress2` allocates
  its output) is in `AgentClient` and `FramePipeline`. A model of their insides
  would say nothing about this program, so that the share of mapped lines
  stays small by nature.
