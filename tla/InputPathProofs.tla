-------------------------- MODULE InputPathProofs --------------------------
(***************************************************************************)
(* The way of the input, for every box the canvas may be given, every size *)
(* of the picture and of the host's screen, every set of pointer positions *)
(* and messages on their way without a bound of interest: types, where the *)
(* host's pointer is, and which of its buttons and keys are down.          *)
(***************************************************************************)
EXTENDS InputPath, TLAPS

-----------------------------------------------------------------------------
(* The arithmetic.                                                         *)

LEMMA Sizes ==
  /\ \A p \in Points : p.x \in Int /\ p.y \in Int
  /\ \A b \in Boxes : /\ b.left \in Int /\ b.top \in Int
                      /\ b.w \in Nat \ {0} /\ b.h \in Nat \ {0}
  /\ Picture.w \in Nat \ {0} /\ Picture.w <= MaxPixels
  /\ Picture.h \in Nat \ {0} /\ Picture.h <= MaxPixels
  /\ Primary.w \in Nat \ {0} /\ Primary.h \in Nat \ {0}
<1>1. \A n \in 1 .. MaxPixels : n \in Nat \ {0} /\ n <= MaxPixels
  BY DEF MaxPixels
<1> QED
  BY <1>1, InputAssumption, Zenon

LEMMA TimesIsInt == \A a, b \in Int : a * b \in Int
OBVIOUS

LEMMA RoundedIsInt ==
  ASSUME NEW n \in Int, NEW d \in Nat \ {0}
  PROVE  Rounded(n, d) \in Int
BY SMT DEF Rounded

LEMMA ClampedFits ==
  ASSUME NEW v \in Int, NEW size \in Nat \ {0}
  PROVE  Clamped(v, size) \in 0 .. size - 1
BY SMT DEF Clamped

\* Whatever box the browser gives the canvas and wherever the pointer is, the
\* page names a pixel of the picture (script.js:203-245).
LEMMA PixelInPicture ==
  ASSUME NEW p \in Points, NEW b \in Boxes
  PROVE  PixelAt(p, b, Picture) \in [x : 0 .. Picture.w - 1, y : 0 .. Picture.h - 1]
<1>1. /\ p.x \in Int /\ p.y \in Int /\ b.left \in Int /\ b.top \in Int
      /\ b.w \in Nat \ {0} /\ b.h \in Nat \ {0}
      /\ Picture.w \in Nat \ {0} /\ Picture.h \in Nat \ {0}
  BY Sizes
<1> DEFINE X == p.x - b.left
           Y == p.y - b.top
<1>2. /\ X * Picture.w \in Int /\ Y * Picture.h \in Int
      /\ 2 * X * Picture.h - b.w * Picture.h + b.h * Picture.w \in Int
      /\ 2 * Y * Picture.w - b.h * Picture.w + b.w * Picture.h \in Int
      /\ 2 * b.w \in Nat \ {0} /\ 2 * b.h \in Nat \ {0}
  <2>1. X \in Int /\ Y \in Int
    BY <1>1
  <2> HIDE DEF X, Y
  <2>2. X * Picture.w \in Int /\ Y * Picture.h \in Int
    BY <1>1, <2>1, TimesIsInt
  <2>3. (2 * X) * Picture.h \in Int /\ (2 * Y) * Picture.w \in Int
    BY <1>1, <2>1, TimesIsInt
  <2>4. /\ b.w * Picture.h \in Int /\ b.h * Picture.w \in Int
    BY <1>1, TimesIsInt
  <2>5. 2 * b.w \in Nat \ {0} /\ 2 * b.h \in Nat \ {0}
    BY <1>1
  <2> QED
    BY <2>2, <2>3, <2>4, <2>5
<1> HIDE DEF X, Y
<1> DEFINE px == IF Wide(b, Picture) THEN Rounded(X * Picture.w, b.w)
                 ELSE Rounded(2 * X * Picture.h - b.w * Picture.h + b.h * Picture.w, 2 * b.h)
           py == IF Wide(b, Picture)
                 THEN Rounded(2 * Y * Picture.w - b.h * Picture.w + b.w * Picture.h, 2 * b.w)
                 ELSE Rounded(Y * Picture.h, b.h)
<1>3. px \in Int /\ py \in Int
  BY <1>1, <1>2, RoundedIsInt
<1>4. PixelAt(p, b, Picture) = [x |-> Clamped(px, Picture.w), y |-> Clamped(py, Picture.h)]
  BY Zenon DEF PixelAt, X, Y
<1> HIDE DEF px, py
<1> QED
  BY <1>1, <1>3, <1>4, ClampedFits

LEMMA QuotientIsNat ==
  ASSUME NEW n \in Nat, NEW d \in Nat \ {0}
  PROVE  n \div d \in Nat
BY SMT

LEMMA QuotientBelow ==
  ASSUME NEW n \in Nat, NEW d \in Nat \ {0}, NEW k \in Nat, n < d * k
  PROVE  n \div d < k
BY SMT

LEMMA AbsoluteFits ==
  ASSUME NEW size \in Nat \ {0}, NEW v \in 0 .. size - 1
  PROVE  Absolute(v, size) \in 0 .. LastStep
<1>1. v * LastStep \in Nat /\ v * LastStep < size * (LastStep + 1)
  BY SMT DEF LastStep
<1>2. LastStep \in Nat
  BY DEF LastStep
<1>3. (v * LastStep) \div size \in Nat /\ (v * LastStep) \div size < LastStep + 1
  BY <1>1, <1>2, QuotientIsNat, QuotientBelow
<1> QED
  BY <1>2, <1>3 DEF Absolute

\* A screen of any size makes an int of the pixel of a picture of the virtual
\* screen, the product being one already.
LEMMA AbsoluteIsInt ==
  ASSUME NEW size \in Nat \ {0}, NEW v \in 0 .. MaxPixels - 1
  PROVE  v * LastStep \in 0 .. MaxInt /\ Absolute(v, size) \in 0 .. MaxInt
<1>1. v * LastStep \in Nat /\ v * LastStep < MaxInt + 1
  BY SMT DEF LastStep, MaxPixels, MaxInt
<1>2. MaxInt + 1 \in Nat /\ MaxInt + 1 <= size * (MaxInt + 1)
  BY SMT DEF MaxInt
<1>3. size * (MaxInt + 1) \in Int
  BY <1>2, TimesIsInt
<1>4. v * LastStep < size * (MaxInt + 1)
  BY <1>1, <1>2, <1>3
<1>5. (v * LastStep) \div size \in Nat /\ (v * LastStep) \div size < MaxInt + 1
  BY <1>1, <1>2, <1>4, QuotientIsNat, QuotientBelow
<1>6. MaxInt \in Nat
  BY DEF MaxInt
<1> QED
  BY <1>1, <1>5, <1>6 DEF Absolute

\* A pixel of the picture is injected as an int, and within the 65536 steps
\* where the primary screen is as large as the picture (InputInjector.cpp:35-47).
LEMMA Reached ==
  ASSUME NEW size \in Nat \ {0}, size <= MaxPixels, NEW across \in Nat \ {0},
         NEW v \in 0 .. size - 1
  PROVE  Absolute(v, across) \in Reach(size, across)
<1>1. CASE size <= across
  <2>1. v \in 0 .. across - 1
    BY <1>1
  <2>2. Absolute(v, across) \in 0 .. LastStep
    BY <2>1, AbsoluteFits
  <2>3. Reach(size, across) = 0 .. LastStep
    BY <1>1 DEF Reach
  <2> QED
    BY <2>2, <2>3
<1>2. CASE ~(size <= across)
  <2>1. v \in 0 .. MaxPixels - 1
    <3>1. MaxPixels \in Nat /\ size \in Nat /\ v \in Nat /\ v < size
      BY DEF MaxPixels
    <3> QED
      BY <3>1
  <2>2. Absolute(v, across) \in 0 .. MaxInt
    BY <2>1, AbsoluteIsInt
  <2>3. Reach(size, across) = 0 .. MaxInt
    BY <1>2 DEF Reach
  <2> QED
    BY <2>2, <2>3
<1> QED
  BY <1>1, <1>2

LEMMA InjectedFits ==
  ASSUME NEW q \in [x : 0 .. Picture.w - 1, y : 0 .. Picture.h - 1]
  PROVE  Injected(q, Primary) \in [x : Reach(Picture.w, Primary.w), y : Reach(Picture.h, Primary.h)]
<1>1. q.x \in 0 .. Picture.w - 1 /\ q.y \in 0 .. Picture.h - 1
  OBVIOUS
<1>2. /\ Absolute(q.x, Primary.w) \in Reach(Picture.w, Primary.w)
      /\ Absolute(q.y, Primary.h) \in Reach(Picture.h, Primary.h)
  BY <1>1, Sizes, Reached
<1> QED
  BY <1>2 DEF Injected

-----------------------------------------------------------------------------
(* The queue.                                                              *)

\* The messages are well formed, and a button is pressed by its name.
Queued(m) == m \in Messages /\ (m.type \in {"mousedown", "mouseup", "click"} => m.button \in Buttons)
QueueInv == queue \in Seq(Messages) /\ \A i \in 1 .. Len(queue) : Queued(queue[i])

\* The messages of qu before the i-th leave the host's pointer, now at h, on
\* the pixel q of the picture: the last move among them says so, or there is
\* none and it is there already.
Moves(qu, i) == qu[i].type = "mousemove"
LeftAt(qu, h, i, q) ==
  \/ \E j \in 1 .. i - 1 : /\ Moves(qu, j) /\ qu[j].at = q
                           /\ \A k \in j + 1 .. i - 1 : ~Moves(qu, k)
  \/ (\A j \in 1 .. i - 1 : ~Moves(qu, j)) /\ h = Injected(q, Primary)

\* Presses that were aimed follow the move they were aimed with, and unless
\* the pointer is lost the last move leaves it on q.
AimOf(qu, h, lost, q) ==
  /\ \A i \in 1 .. Len(qu) :
       qu[i].type = "mousedown" /\ qu[i].aimed => LeftAt(qu, h, i, qu[i].at)
  /\ ~lost => LeftAt(qu, h, Len(qu) + 1, q)

AimInv == AimOf(queue, hostAt, astray, PixelAt(point, box, Picture))

TypeInv == TypeOK /\ QueueInv
IInv == TypeInv /\ AimInv

\* Every message that a listener sends is well formed.
LEMMA Sendable ==
  ASSUME TypeInv
  PROVE  /\ \A type \in {"mousedown", "mouseup", "click", "contextmenu"}, b \in Buttons :
                 Queued(Mouse(type, b))
         /\ \A p \in Points : Queued([Mouse("mousemove", "none") EXCEPT !.at = PixelAt(p, box, Picture)])
         /\ \A type \in {"keydown", "keyup"}, k \in Keys : Queued(Key(type, k))
<1>1. \A p \in Points : PixelAt(p, box, Picture) \in [x : 0 .. Picture.w - 1, y : 0 .. Picture.h - 1]
  BY PixelInPicture DEF TypeInv, TypeOK
<1>2. astray \in BOOLEAN /\ point \in Points
  BY DEF TypeInv, TypeOK
<1>3. ASSUME NEW type \in {"mousedown", "mouseup", "click", "contextmenu"}, NEW b \in Buttons
      PROVE  Queued(Mouse(type, b))
  BY <1>1, <1>2 DEF Queued, Mouse, Messages
<1>4. ASSUME NEW p \in Points
      PROVE  Queued([Mouse("mousemove", "none") EXCEPT !.at = PixelAt(p, box, Picture)])
  BY <1>1, <1>2 DEF Queued, Mouse, Messages
<1>5. ASSUME NEW type \in {"keydown", "keyup"}, NEW k \in Keys
      PROVE  Queued(Key(type, k))
  BY DEF Queued, Key, Messages, Symbol
<1> QED
  BY <1>3, <1>4, <1>5

\* Sending one message or two.
LEMMA SendOne ==
  ASSUME TypeInv, NEW m, Queued(m), NEW I \in SUBSET Inputs, SendInput(I, <<m>>)
  PROVE  /\ queue' = Append(queue, m) \/ queue' = queue
         /\ QueueInv' /\ blind' \in SUBSET Inputs
<1>1. queue \in Seq(Messages) /\ \A i \in 1 .. Len(queue) : Queued(queue[i])
  BY DEF TypeInv, QueueInv
<1>2. blind \in SUBSET Inputs
  BY DEF TypeInv, TypeOK
<1>3. m \in Messages
  BY DEF Queued
<1>4. queue \o <<m>> = Append(queue, m)
  <2> HIDE DEF Messages
  <2> QED
    BY <1>1, <1>3
<1>5. queue' = Append(queue, m) \/ queue' = queue
  BY <1>4 DEF SendInput
<1>6. blind' \in SUBSET Inputs
  BY <1>2 DEF SendInput
<1>7. QueueInv'
  <2>1. CASE queue' = queue
    BY <1>1, <2>1 DEF QueueInv
  <2>2. CASE queue' = Append(queue, m)
    <3>1. /\ queue' \in Seq(Messages) /\ Len(queue') = Len(queue) + 1
          /\ \A i \in 1 .. Len(queue') : queue'[i] = IF i = Len(queue) + 1 THEN m ELSE queue[i]
      BY <1>1, <1>3, <2>2
    <3>2. ASSUME NEW i \in 1 .. Len(queue') PROVE Queued(queue'[i])
      BY <1>1, <3>1
    <3> QED
      BY <3>1, <3>2 DEF QueueInv, Queued
  <2> QED
    BY <1>5, <2>1, <2>2
<1> QED
  BY <1>5, <1>6, <1>7

-----------------------------------------------------------------------------
(* Where the pointer is left.                                              *)

\* A message that is added at the end.
LEMMA AddedLeavesAt ==
  ASSUME NEW qu \in Seq(Messages), NEW m \in Messages, NEW h, NEW q
  PROVE  /\ \A i \in 1 .. Len(qu) + 1 : LeftAt(qu, h, i, q) => LeftAt(Append(qu, m), h, i, q)
         /\ m.type # "mousemove" /\ LeftAt(qu, h, Len(qu) + 1, q)
              => LeftAt(Append(qu, m), h, Len(qu) + 2, q)
         /\ m.type = "mousemove" => LeftAt(Append(qu, m), h, Len(qu) + 2, m.at)
<1> DEFINE r == Append(qu, m)
           n == Len(qu)
<1>1. /\ n \in Nat /\ Len(r) = n + 1 /\ r[n + 1] = m
      /\ \A k \in 1 .. n : r[k] = qu[k]
  BY DEF r
<1> HIDE DEF r, n
<1>2. \A k \in 1 .. n : Moves(r, k) <=> Moves(qu, k)
  BY <1>1 DEF Moves
<1>3. ASSUME NEW i \in 1 .. n + 1, LeftAt(qu, h, i, q) PROVE LeftAt(r, h, i, q)
  <2>1. ASSUME NEW j \in 1 .. i - 1, Moves(qu, j), qu[j].at = q,
               \A k \in j + 1 .. i - 1 : ~Moves(qu, k)
        PROVE  Moves(r, j) /\ r[j].at = q /\ \A k \in j + 1 .. i - 1 : ~Moves(r, k)
    <3>1. j \in 1 .. n /\ \A k \in j + 1 .. i - 1 : k \in 1 .. n
      BY <1>1
    <3> QED
      BY <1>1, <1>2, <2>1, <3>1
  <2>2. \A k \in 1 .. i - 1 : k \in 1 .. n
    BY <1>1
  <2> QED
    BY <1>2, <1>3, <2>1, <2>2 DEF LeftAt
<1>4. ASSUME m.type # "mousemove", LeftAt(qu, h, n + 1, q) PROVE LeftAt(r, h, n + 2, q)
  <2>1. LeftAt(r, h, n + 1, q)
    BY <1>1, <1>3, <1>4
  <2>2. ~Moves(r, n + 1)
    BY <1>1, <1>4 DEF Moves
  <2>3. /\ (n + 1) - 1 = n /\ (n + 2) - 1 = n + 1
        /\ \A k \in 1 .. n + 1 : k \in 1 .. n \/ k = n + 1
        /\ \A j \in 1 .. n : j \in 1 .. n + 1
        /\ \A j \in 1 .. n : \A k \in j + 1 .. n + 1 : k \in j + 1 .. n \/ k = n + 1
    BY <1>1
  <2> QED
    BY <2>1, <2>2, <2>3, Zenon DEF LeftAt
<1>5. ASSUME m.type = "mousemove" PROVE LeftAt(r, h, n + 2, m.at)
  <2>1. Moves(r, n + 1) /\ r[n + 1].at = m.at
    BY <1>1, <1>5 DEF Moves
  <2>2. (n + 2) - 1 = n + 1 /\ n + 1 \in 1 .. n + 1 /\ (n + 1) + 1 .. n + 1 = {}
    BY <1>1
  <2> QED
    BY <2>1, <2>2, Zenon DEF LeftAt
<1> QED
  BY <1>3, <1>4, <1>5 DEF r, n

\* A message that is taken from the front.
LEMMA TakenLeavesAt ==
  ASSUME NEW qu \in Seq(Messages), qu # <<>>, NEW h, NEW q,
         NEW i \in 2 .. Len(qu) + 1, LeftAt(qu, h, i, q)
  PROVE  LeftAt(Tail(qu), IF Moves(qu, 1) THEN Injected(qu[1].at, Primary) ELSE h, i - 1, q)
<1> DEFINE r == Tail(qu)
           n == Len(qu)
           g == IF Moves(qu, 1) THEN Injected(qu[1].at, Primary) ELSE h
<1>1. n \in Nat \ {0} /\ \A k \in 1 .. n - 1 : r[k] = qu[k + 1]
  BY DEF r
<1> HIDE DEF r, n
<1>2. i \in Int /\ i >= 2 /\ i <= n + 1
  BY DEF n
<1>3. \A k \in 1 .. (i - 1) - 1 : k + 1 \in 2 .. i - 1 /\ (Moves(r, k) <=> Moves(qu, k + 1))
  BY <1>1, <1>2 DEF Moves
<1>4. CASE \E j \in 1 .. i - 1 : /\ Moves(qu, j) /\ qu[j].at = q
                                 /\ \A k \in j + 1 .. i - 1 : ~Moves(qu, k)
  <2>1. PICK j \in 1 .. i - 1 : /\ Moves(qu, j) /\ qu[j].at = q
                                /\ \A k \in j + 1 .. i - 1 : ~Moves(qu, k)
    BY <1>4
  <2>2. CASE j = 1
    <3>1. \A k \in 1 .. (i - 1) - 1 : ~Moves(r, k)
      BY <1>2, <1>3, <2>1, <2>2
    <3>2. g = Injected(q, Primary)
      BY <2>1, <2>2
    <3> QED
      BY <3>1, <3>2 DEF LeftAt, r
  <2>3. CASE j # 1
    <3>1. j - 1 \in 1 .. (i - 1) - 1 /\ j - 1 \in 1 .. n - 1 /\ (j - 1) + 1 = j
      BY <1>1, <1>2, <2>3
    <3>2. Moves(r, j - 1) /\ r[j - 1].at = q
      BY <1>1, <1>3, <2>1, <3>1
    <3>3. \A k \in (j - 1) + 1 .. (i - 1) - 1 : ~Moves(r, k)
      BY <1>2, <1>3, <2>1
    <3> QED
      BY <3>1, <3>2, <3>3 DEF LeftAt, r
  <2> QED
    BY <2>2, <2>3
<1>5. CASE (\A j \in 1 .. i - 1 : ~Moves(qu, j)) /\ h = Injected(q, Primary)
  <2>1. \A k \in 1 .. (i - 1) - 1 : ~Moves(r, k)
    BY <1>2, <1>3, <1>5
  <2>2. g = h
    BY <1>2, <1>5
  <2> QED
    BY <1>5, <2>1, <2>2 DEF LeftAt, r
<1> QED
  BY <1>4, <1>5 DEF LeftAt

\* Sending: a move, a press that is aimed if the pointer is not lost, or
\* anything else.
LEMMA AddedAims ==
  ASSUME NEW qu \in Seq(Messages), NEW m \in Messages, NEW h, NEW lost, NEW q,
         AimOf(qu, h, lost, q)
  PROVE  /\ m.type = "mousemove" => AimOf(Append(qu, m), h, FALSE, m.at)
         /\ /\ m.type # "mousemove"
            /\ m.type = "mousedown" /\ m.aimed => ~lost /\ m.at = q
            => AimOf(Append(qu, m), h, lost, q)
<1> DEFINE r == Append(qu, m)
           n == Len(qu)
<1>1. /\ n \in Nat /\ Len(r) = n + 1 /\ r[n + 1] = m
      /\ \A k \in 1 .. n : r[k] = qu[k]
  BY DEF r
<1>2. \A p : \A i \in 1 .. n + 1 : LeftAt(qu, h, i, p) => LeftAt(r, h, i, p)
  BY AddedLeavesAt
<1>3. /\ m.type # "mousemove" /\ LeftAt(qu, h, n + 1, q) => LeftAt(r, h, n + 2, q)
      /\ m.type = "mousemove" => LeftAt(r, h, n + 2, m.at)
  BY AddedLeavesAt
<1> HIDE DEF r, n
<1>4. \A i \in 1 .. n : r[i].type = "mousedown" /\ r[i].aimed => LeftAt(r, h, i, r[i].at)
  BY <1>1, <1>2 DEF AimOf, n
<1>5. ~lost => LeftAt(qu, h, n + 1, q)
  BY DEF AimOf, n
<1>6. (m.type = "mousedown" /\ m.aimed => ~lost /\ m.at = q)
        => (r[n + 1].type = "mousedown" /\ r[n + 1].aimed => LeftAt(r, h, n + 1, r[n + 1].at))
  BY <1>1, <1>2, <1>5
<1>7. Len(r) + 1 = n + 2 /\ \A i \in 1 .. Len(r) : i \in 1 .. n \/ i = n + 1
  BY <1>1
<1>8. m.type = "mousemove" => m.type # "mousedown"
  OBVIOUS
<1> QED
  BY <1>1, <1>3, <1>4, <1>5, <1>6, <1>7, <1>8, Zenon DEF AimOf, r

\* Injecting: the next press that was aimed finds the pointer in place.
LEMMA TakenAims ==
  ASSUME NEW qu \in Seq(Messages), qu # <<>>, NEW h, NEW lost, NEW q, AimOf(qu, h, lost, q)
  PROVE  AimOf(Tail(qu), IF Moves(qu, 1) THEN Injected(qu[1].at, Primary) ELSE h, lost, q)
<1> DEFINE r == Tail(qu)
           n == Len(qu)
           g == IF Moves(qu, 1) THEN Injected(qu[1].at, Primary) ELSE h
<1>1. n \in Nat \ {0} /\ Len(r) = n - 1 /\ \A k \in 1 .. n - 1 : r[k] = qu[k + 1]
  BY DEF r
<1>2. \A p : \A i \in 2 .. n + 1 : LeftAt(qu, h, i, p) => LeftAt(r, g, i - 1, p)
  BY TakenLeavesAt
<1> HIDE DEF r, n, g
<1>3. ASSUME NEW i \in 1 .. Len(r), r[i].type = "mousedown", r[i].aimed
      PROVE  LeftAt(r, g, i, r[i].at)
  <2>1. i + 1 \in 1 .. n /\ i + 1 \in 2 .. n + 1 /\ r[i] = qu[i + 1] /\ (i + 1) - 1 = i
    BY <1>1
  <2>2. LeftAt(qu, h, i + 1, qu[i + 1].at)
    BY <1>3, <2>1 DEF AimOf, n
  <2> QED
    BY <1>2, <2>1, <2>2
<1>4. ~lost => LeftAt(r, g, Len(r) + 1, q)
  <2>1. n + 1 \in 2 .. n + 1 /\ (n + 1) - 1 = Len(r) + 1
    BY <1>1
  <2> QED
    BY <1>2, <2>1 DEF AimOf, n
<1> QED
  BY <1>3, <1>4 DEF AimOf, r, g

-----------------------------------------------------------------------------
(* The actions.                                                            *)

LEMMA AimOfPress ==
  \A b : LET m == Mouse("mousedown", b) IN
         m.aimed = ~astray /\ m.at = PixelAt(point, box, Picture)
BY DEF Mouse

\* The listeners of the mouse and of the keyboard that send one message that
\* is no move, and those that send two.
LEMMA SendKeepsAim ==
  ASSUME IInv, NEW m, Queued(m), m.type # "mousemove", NEW I \in SUBSET Inputs,
         m.type = "mousedown" => m = Mouse("mousedown", m.button),
         SendInput(I, <<m>>)
  PROVE  QueueInv' /\ blind' \in SUBSET Inputs
         /\ AimOf(queue', hostAt, astray, PixelAt(point, box, Picture))
<1>1. queue \in Seq(Messages) /\ m \in Messages
  BY DEF IInv, TypeInv, QueueInv, Queued
<1>2. /\ queue' = Append(queue, m) \/ queue' = queue
      /\ QueueInv' /\ blind' \in SUBSET Inputs
  BY SendOne DEF IInv
<1>3. m.type = "mousedown" /\ m.aimed => ~astray /\ m.at = PixelAt(point, box, Picture)
  BY AimOfPress
<1>4. AimOf(Append(queue, m), hostAt, astray, PixelAt(point, box, Picture))
  <2> DEFINE q == PixelAt(point, box, Picture)
  <2>1. AimOf(queue, hostAt, astray, q) /\ (m.type = "mousedown" /\ m.aimed => ~astray /\ m.at = q)
    BY <1>3 DEF IInv, AimInv
  <2> HIDE DEF q
  <2>2. AimOf(Append(queue, m), hostAt, astray, q)
    BY <1>1, <2>1, AddedAims
  <2> QED
    BY <2>2 DEF q
<1> QED
  BY <1>2, <1>4 DEF IInv, AimInv

LEMMA SendTwoKeepsAim ==
  ASSUME IInv, NEW m, Queued(m), m.type # "mousemove", NEW I \in SUBSET Inputs,
         m.type = "mousedown" => m = Mouse("mousedown", m.button),
         NEW l, Queued(l), l.type \notin {"mousemove", "mousedown"},
         SendInput(I, <<m, l>>)
  PROVE  QueueInv' /\ blind' \in SUBSET Inputs
         /\ AimOf(queue', hostAt, astray, PixelAt(point, box, Picture))
<1>1. /\ queue \in Seq(Messages) /\ \A i \in 1 .. Len(queue) : Queued(queue[i])
      /\ m \in Messages /\ l \in Messages /\ blind \in SUBSET Inputs
  BY DEF IInv, TypeInv, TypeOK, QueueInv, Queued
<1>2. queue \o <<m, l>> = Append(Append(queue, m), l)
  <2> HIDE DEF Messages
  <2> QED
    BY <1>1
<1>3. queue' = queue \/ queue' = Append(Append(queue, m), l)
  BY <1>2 DEF SendInput
<1>4. blind' \in SUBSET Inputs
  BY <1>1 DEF SendInput
<1>5. m.type = "mousedown" /\ m.aimed => ~astray /\ m.at = PixelAt(point, box, Picture)
  BY AimOfPress
<1>6. AimOf(Append(queue, m), hostAt, astray, PixelAt(point, box, Picture))
  <2> DEFINE q == PixelAt(point, box, Picture)
  <2>1. AimOf(queue, hostAt, astray, q) /\ (m.type = "mousedown" /\ m.aimed => ~astray /\ m.at = q)
    BY <1>5 DEF IInv, AimInv
  <2> HIDE DEF q
  <2>2. AimOf(Append(queue, m), hostAt, astray, q)
    BY <1>1, <2>1, AddedAims
  <2> QED
    BY <2>2 DEF q
<1>7. Append(queue, m) \in Seq(Messages)
  BY <1>1
<1>8. AimOf(Append(Append(queue, m), l), hostAt, astray, PixelAt(point, box, Picture))
  BY <1>1, <1>6, <1>7, AddedAims
<1>9. QueueInv'
  <2>1. CASE queue' = queue
    BY <1>1, <2>1 DEF QueueInv
  <2>2. CASE queue' = Append(Append(queue, m), l)
    <3>1. /\ queue' \in Seq(Messages) /\ Len(queue') = Len(queue) + 2
          /\ \A i \in 1 .. Len(queue') :
               queue'[i] = IF i = Len(queue) + 2 THEN l
                           ELSE IF i = Len(queue) + 1 THEN m ELSE queue[i]
      BY <1>1, <2>2
    <3>2. ASSUME NEW i \in 1 .. Len(queue') PROVE Queued(queue'[i])
      BY <1>1, <3>1
    <3> QED
      BY <3>1, <3>2 DEF QueueInv, Queued
  <2> QED
    BY <1>3, <2>1, <2>2
<1> QED
  BY <1>3, <1>4, <1>8, <1>9 DEF IInv, AimInv

\* What the user does.
LEMMA UserStep ==
  ASSUME IInv, User
  PROVE  IInv'
<1>1. /\ point \in Points /\ box \in Boxes /\ held \in SUBSET Inputs /\ blind \in SUBSET Inputs
      /\ sized \in BOOLEAN /\ up \in BOOLEAN /\ astray \in BOOLEAN
      /\ queue \in Seq(Messages) /\ hostButtons \in SUBSET {"left", "middle", "right"}
      /\ hostKeys \in SUBSET HostKeys
      /\ hostAt = None \/ hostAt \in [x : Reach(Picture.w, Primary.w), y : Reach(Picture.h, Primary.h)]
  BY DEF IInv, TypeInv, TypeOK, QueueInv
<1>2. UNCHANGED host
  BY DEF User, MouseMove, Layout, MouseDown, MouseUp, KeyDown, KeyUp, ReleaseUnseen
<1>3. ASSUME QueueInv',
             /\ point' \in Points /\ box' \in Boxes /\ held' \in SUBSET Inputs
             /\ blind' \in SUBSET Inputs /\ astray' \in BOOLEAN /\ UNCHANGED <<sized, up>>
      PROVE  TypeInv'
  <2>1. \A i \in 1 .. Len(queue') : queue'[i] \in Messages
    BY <1>3 DEF QueueInv, Queued
  <2> QED
    BY <1>1, <1>2, <1>3, <2>1 DEF TypeInv, TypeOK, host
<1>4. ASSUME UNCHANGED <<point, box, astray, sized, up>>, held' \in SUBSET Inputs,
             QueueInv' /\ blind' \in SUBSET Inputs
             /\ AimOf(queue', hostAt, astray, PixelAt(point, box, Picture))
      PROVE  IInv'
  BY <1>1, <1>2, <1>3, <1>4 DEF IInv, AimInv, host
<1>5. ASSUME NEW p \in Points, MouseMove(p) PROVE IInv'
  <2> DEFINE m == [Mouse("mousemove", "none") EXCEPT !.at = PixelAt(p, box, Picture)]
  <2>1. /\ point' = p /\ UNCHANGED <<box, held, sized, up>>
        /\ SendInput({}, <<m>>) /\ astray' = ~(up /\ sized)
    BY <1>5 DEF MouseMove, Listening
  <2>2. Queued(m) /\ m.type = "mousemove" /\ m.at = PixelAt(p, box, Picture)
    BY Sendable DEF IInv, Mouse
  <2> HIDE DEF m
  <2>3. QueueInv' /\ blind' \in SUBSET Inputs
    BY <2>1, <2>2, SendOne DEF IInv
  <2>4. TypeInv'
    BY <1>1, <1>3, <2>1, <2>3
  <2>5. CASE up /\ sized
    <3>1. queue' = Append(queue, m)
      <4>1. queue' = queue \o <<m>> /\ m \in Messages
        BY <2>1, <2>2, <2>5 DEF SendInput, Queued
      <4> HIDE DEF Messages
      <4> QED
        BY <1>1, <4>1
    <3>2. AimOf(queue', hostAt, FALSE, PixelAt(p, box, Picture))
      BY <1>1, <2>2, <3>1, AddedAims DEF IInv, AimInv, Queued
    <3> QED
      BY <1>2, <2>1, <2>4, <2>5, <3>2 DEF IInv, AimInv, host
  <2>6. CASE ~(up /\ sized)
    <3>1. queue' = queue /\ astray'
      BY <2>1, <2>6 DEF SendInput
    <3> QED
      BY <1>2, <2>4, <3>1 DEF IInv, AimInv, AimOf, host
  <2> QED
    BY <2>5, <2>6
<1>6. ASSUME NEW b \in Boxes, Layout(b) PROVE IInv'
  <2>1. box' = b /\ astray' = TRUE /\ UNCHANGED <<point, held, sized, up, queue, host, blind>>
    BY <1>6 DEF Layout
  <2>2. QueueInv'
    BY <2>1 DEF IInv, TypeInv, QueueInv
  <2>3. TypeInv'
    BY <1>1, <1>3, <2>1, <2>2
  <2> QED
    BY <2>1, <2>3 DEF IInv, AimInv, AimOf, host
<1>7. ASSUME NEW b \in Buttons, MouseDown(b) PROVE IInv'
  <2>1. /\ held' \in SUBSET Inputs /\ {b} \in SUBSET Inputs
        /\ UNCHANGED <<point, box, sized, up, host, astray>>
    BY <1>1, <1>7 DEF MouseDown, Inputs
  <2> DEFINE m == Mouse("mousedown", b)
             l == Mouse("contextmenu", b)
  <2>2. SendInput({b}, <<m>>) \/ SendInput({b}, <<m, l>>)
    BY <1>7 DEF MouseDown
  <2>3. Queued(m) /\ Queued(l)
    BY Sendable DEF IInv
  <2>4. /\ m.type = "mousedown" /\ m = Mouse("mousedown", m.button)
        /\ l.type \notin {"mousemove", "mousedown"}
    BY DEF Mouse
  <2> HIDE DEF m, l
  <2> QED
    BY <1>4, <2>1, <2>2, <2>3, <2>4, SendKeepsAim, SendTwoKeepsAim
<1>8. ASSUME NEW b \in Buttons, MouseUp(b) PROVE IInv'
  <2>1. /\ held' \in SUBSET Inputs /\ {b} \in SUBSET Inputs
        /\ UNCHANGED <<point, box, sized, up, host, astray>>
    BY <1>1, <1>8 DEF MouseUp, Inputs
  <2> DEFINE m == Mouse("mouseup", b)
             k == Mouse("click", b)
             l == Mouse("contextmenu", b)
  <2>2. SendInput({b}, <<m>>) \/ SendInput({b}, <<m, k>>) \/ SendInput({b}, <<m, l>>)
    BY <1>8 DEF MouseUp
  <2>3. Queued(m) /\ Queued(k) /\ Queued(l)
    BY Sendable DEF IInv
  <2>4. /\ m.type \notin {"mousemove", "mousedown"} /\ k.type \notin {"mousemove", "mousedown"}
        /\ l.type \notin {"mousemove", "mousedown"}
    BY DEF Mouse
  <2> HIDE DEF m, k, l
  <2> QED
    BY <1>4, <2>1, <2>2, <2>3, <2>4, SendKeepsAim, SendTwoKeepsAim
<1>9. ASSUME NEW k \in Keys, KeyDown(k) \/ KeyUp(k) PROVE IInv'
  <2>1. /\ held' \in SUBSET Inputs /\ {k} \in SUBSET Inputs
        /\ UNCHANGED <<point, box, sized, up, host, astray>>
    BY <1>1, <1>9 DEF KeyDown, KeyUp, Inputs
  <2>2. ASSUME NEW type \in {"keydown", "keyup"}, SendInput({k}, <<Key(type, k)>>) PROVE IInv'
    <3> DEFINE m == Key(type, k)
    <3>1. Queued(m) /\ m.type \notin {"mousemove", "mousedown"}
      BY Sendable DEF IInv, Key
    <3> HIDE DEF m
    <3> QED
      BY <1>4, <2>1, <2>2, <3>1, SendKeepsAim DEF m
  <2> QED
    BY <1>9, <2>2 DEF KeyDown, KeyUp
<1>10. ASSUME NEW i \in Inputs, ReleaseUnseen(i) PROVE IInv'
  <2>1. /\ held' \in SUBSET Inputs /\ blind' \in SUBSET Inputs
        /\ UNCHANGED <<point, box, sized, up, queue, host, astray>>
    BY <1>1, <1>10 DEF ReleaseUnseen
  <2>2. QueueInv'
    BY <2>1 DEF IInv, TypeInv, QueueInv
  <2> QED
    BY <1>4, <2>1, <2>2 DEF IInv, AimInv
<1> QED
  BY <1>5, <1>6, <1>7, <1>8, <1>9, <1>10 DEF User

\* The agent's handler: the message is injected.
LEMMA InjectStep ==
  ASSUME IInv, Inject
  PROVE  IInv'
<1> DEFINE m == Head(queue)
<1>1. /\ queue # <<>> /\ queue' = Tail(queue)
      /\ UNCHANGED <<point, box, held, sized, up, blind, astray>>
      /\ IF m.type \in {"keydown", "keyup"} THEN InjectKeyboardInput(m) ELSE InjectMouseInput(m)
  BY DEF Inject
<1>2. queue \in Seq(Messages) /\ \A i \in 1 .. Len(queue) : Queued(queue[i])
  BY DEF IInv, TypeInv, QueueInv
<1>3. m = queue[1] /\ 1 \in 1 .. Len(queue) /\ Queued(m) /\ m \in Messages
  BY <1>1, <1>2 DEF Queued
<1>4. QueueInv'
  <2>1. /\ Tail(queue) \in Seq(Messages)
        /\ \A i \in 1 .. Len(Tail(queue)) : i + 1 \in 1 .. Len(queue) /\ Tail(queue)[i] = queue[i + 1]
    BY <1>1, <1>2
  <2>2. ASSUME NEW i \in 1 .. Len(queue') PROVE Queued(queue'[i])
    BY <1>1, <1>2, <2>1
  <2> QED
    BY <1>1, <2>1, <2>2 DEF QueueInv, Queued
<1>5. hostAt' = IF Moves(queue, 1) THEN Injected(queue[1].at, Primary) ELSE hostAt
  BY <1>1, <1>3 DEF InjectKeyboardInput, InjectMouseInput, Moves
<1>6. AimInv'
  <2>1. AimOf(queue', hostAt', astray, PixelAt(point, box, Picture))
    BY <1>1, <1>2, <1>5, TakenAims DEF IInv, AimInv
  <2> QED
    BY <1>1, <2>1 DEF AimInv
<1>7. hostAt' = None \/ hostAt' \in [x : Reach(Picture.w, Primary.w), y : Reach(Picture.h, Primary.h)]
  <2>1. Moves(queue, 1) => queue[1].at \in [x : 0 .. Picture.w - 1, y : 0 .. Picture.h - 1]
    BY <1>3 DEF Moves, Messages
  <2> QED
    BY <1>5, <2>1, InjectedFits DEF IInv, TypeInv, TypeOK
<1>8. hostButtons' \in SUBSET {"left", "middle", "right"}
  <2>1. hostButtons \in SUBSET {"left", "middle", "right"}
    BY DEF IInv, TypeInv, TypeOK
  <2>2. CASE m.type \in {"keydown", "keyup"}
    BY <1>1, <2>1, <2>2 DEF InjectKeyboardInput
  <2>3. CASE m.type \notin {"keydown", "keyup"}
    <3>1. m.type \in {"mousemove", "mousedown", "mouseup", "click", "contextmenu"}
      BY <1>3, <2>3 DEF Messages
    <3>2. m.type \in {"mousedown", "mouseup", "click"} => m.button \in {"left", "middle", "right", "X1"}
      BY <1>3, InputAssumption DEF Queued
    <3>3. CASE m.type = "mousemove" \/ m.button = "X1"
      BY <1>1, <2>1, <2>3, <3>3 DEF InjectMouseInput
    <3>4. CASE ~(m.type = "mousemove" \/ m.button = "X1")
      <4>1. /\ m.type = "mousedown" => hostButtons' = Down(hostButtons, m.button)
            /\ m.type = "mouseup" => hostButtons' = Up(hostButtons, m.button)
            /\ m.type = "click" => hostButtons' = DownThenUp(hostButtons, m.button)
            /\ m.type = "contextmenu" => hostButtons' = DownThenUp(hostButtons, "right")
        BY <1>1, <2>3, <3>4 DEF InjectMouseInput
      <4> HIDE DEF m
      <4> QED
        BY <2>1, <3>1, <3>2, <3>4, <4>1 DEF DownThenUp, Down, Up
    <3> QED
      BY <3>3, <3>4
  <2> QED
    BY <2>2, <2>3
<1>9. hostKeys' \in SUBSET HostKeys
  <2>1. hostKeys \in SUBSET HostKeys
    BY DEF IInv, TypeInv, TypeOK
  <2>2. CASE m.type \in {"keydown", "keyup"}
    <3> DEFINE key == HostKey(m.code, m.symbol)
    <3>1. m.code \in Keys
      BY <1>3, <2>2 DEF Messages
    <3>2. key # NoKey => key \in HostKeys
      <4>1. key = HostKey(m.code, "1") \/ key = NoKey
        BY DEF HostKey
      <4> QED
        BY <3>1, <4>1 DEF HostKeys
    <3>3. hostKeys' = IF key = NoKey THEN hostKeys
                      ELSE IF m.type = "keyup" THEN Up(hostKeys, key) ELSE Down(hostKeys, key)
      BY <1>1, <2>2 DEF InjectKeyboardInput
    <3> HIDE DEF m, key
    <3> QED
      BY <2>1, <2>2, <3>2, <3>3 DEF Up, Down
  <2>3. CASE m.type \notin {"keydown", "keyup"}
    BY <1>1, <2>1, <2>3 DEF InjectMouseInput
  <2> QED
    BY <2>2, <2>3
<1>10. \A i \in 1 .. Len(queue') : queue'[i] \in Messages
  BY <1>4 DEF QueueInv, Queued
<1>11. TypeOK'
  BY <1>1, <1>7, <1>8, <1>9, <1>10 DEF IInv, TypeInv, TypeOK
<1> QED
  BY <1>4, <1>6, <1>11 DEF IInv, TypeInv

\* The connections come and go.
LEMMA ConnectionStep ==
  ASSUME IInv, Connect \/ FirstFrame \/ Disconnect
  PROVE  IInv'
<1>1. CASE Connect \/ FirstFrame
  <2>1. /\ UNCHANGED <<point, box, held, queue, host, blind, astray>>
        /\ up' \in BOOLEAN /\ sized' \in BOOLEAN
    BY <1>1 DEF Connect, FirstFrame, IInv, TypeInv, TypeOK
  <2> QED
    BY <2>1 DEF IInv, TypeInv, TypeOK, QueueInv, AimInv, host
<1>2. CASE Disconnect
  <2>1. /\ UNCHANGED <<point, box, held, sized, host>> /\ up' = FALSE /\ astray' = TRUE
    BY <1>2 DEF Disconnect
  <2>8. PICK n \in 0 .. Len(queue) : queue' = SubSeq(queue, 1, n) /\ blind' = blind \cup Lost(n)
    BY <1>2 DEF Disconnect
  <2>9. queue \in Seq(Messages) /\ \A i \in 1 .. Len(queue) : Queued(queue[i])
    BY DEF IInv, TypeInv, QueueInv
  <2>2. \A i \in 1 .. Len(queue) : About(queue[i]) \in Inputs \cup {"none"}
    <3>1. \A l \in Messages : About(l) \in Inputs \cup {"none"}
      BY DEF Messages, About, Inputs
    <3> QED
      BY <3>1 DEF IInv, TypeInv, TypeOK
  <2>3. blind' \in SUBSET Inputs
    <3>1. \A i \in n + 1 .. Len(queue) : i \in 1 .. Len(queue)
      BY <2>8, <2>9
    <3>2. Lost(n) \subseteq Inputs
      BY <2>2, <3>1 DEF Lost
    <3> QED
      BY <2>8, <3>2 DEF IInv, TypeInv, TypeOK
  <2>4. /\ queue' \in Seq(Messages) /\ Len(queue') = n
        /\ \A i \in 1 .. n : i \in 1 .. Len(queue) /\ queue'[i] = queue[i]
    BY <2>8, <2>9
  <2>5. TypeOK'
    <3>1. /\ point' \in Points /\ box' \in Boxes /\ held' \in SUBSET Inputs
          /\ sized' \in BOOLEAN /\ up' \in BOOLEAN /\ astray' \in BOOLEAN
      BY <2>1 DEF IInv, TypeInv, TypeOK
    <3>2. /\ hostButtons' \in SUBSET {"left", "middle", "right"}
          /\ hostKeys' \in SUBSET HostKeys
          /\ hostAt' = None \/ hostAt' \in [x : Reach(Picture.w, Primary.w), y : Reach(Picture.h, Primary.h)]
      BY <2>1 DEF IInv, TypeInv, TypeOK, host
    <3>3. \A i \in 1 .. Len(queue') : queue'[i] \in Messages
      BY <2>4, <2>9 DEF Queued
    <3> QED
      BY <2>3, <3>1, <3>2, <3>3 DEF TypeOK
  <2>6. QueueInv'
    BY <2>4, <2>9 DEF QueueInv, Queued
  <2>7. AimInv'
    <3>1. ASSUME NEW i \in 1 .. n, queue'[i].type = "mousedown" /\ queue'[i].aimed
          PROVE  LeftAt(queue', hostAt, i, queue'[i].at)
      <4>1. i \in 1 .. Len(queue) /\ queue'[i] = queue[i]
        BY <2>4
      <4>2. LeftAt(queue, hostAt, i, queue[i].at)
        BY <3>1, <4>1 DEF IInv, AimInv, AimOf
      <4>3. \A j \in 1 .. i - 1 : j \in 1 .. n /\ \A k \in j + 1 .. i - 1 : k \in 1 .. n
        BY <2>8, <2>9
      <4>4. \A j \in 1 .. i - 1 : queue'[j] = queue[j] /\ (Moves(queue', j) <=> Moves(queue, j))
        BY <2>4, <4>3 DEF Moves
      <4>5. \A j \in 1 .. i - 1 : \A k \in j + 1 .. i - 1 : Moves(queue', k) <=> Moves(queue, k)
        BY <2>4, <4>3 DEF Moves
      <4> QED
        BY <4>1, <4>2, <4>4, <4>5 DEF LeftAt
    <3> QED
      BY <2>1, <2>4, <3>1 DEF AimInv, AimOf, host
  <2> QED
    BY <2>5, <2>6, <2>7 DEF IInv, TypeInv
<1> QED
  BY <1>1, <1>2

LEMMA InputInvariance == Spec => []IInv
<1>1. Init => IInv
  <2> SUFFICES ASSUME Init PROVE IInv
    OBVIOUS
  <2>1. queue = <<>> /\ Len(queue) = 0 /\ queue \in Seq(Messages)
    BY DEF Init
  <2>2. TypeOK
    <3>1. \A i \in 1 .. Len(queue) : queue[i] \in Messages
      BY <2>1
    <3> QED
      BY <3>1 DEF Init, TypeOK
  <2> QED
    BY <2>1, <2>2 DEF Init, IInv, TypeInv, QueueInv, AimInv, AimOf
<1>2. IInv /\ [Next]_vars => IInv'
  <2> SUFFICES ASSUME IInv, [Next]_vars PROVE IInv'
    OBVIOUS
  <2>1. CASE UNCHANGED vars
    BY <2>1 DEF vars, IInv, TypeInv, TypeOK, QueueInv, AimInv
  <2> QED
    BY <2>1, UserStep, InjectStep, ConnectionStep DEF Next
<1> QED
  BY <1>1, <1>2, PTL DEF Spec

\* Every message names a pixel of the picture, every pixel is injected within
\* the 65536 steps of the screen, and nothing but buttons and keys that the
\* host has is pressed, whatever the boxes, the sizes and the order of events
\* (script.js:202-254, InputInjector.cpp:31-190).
THEOREM InputTypeCorrect == Spec => []TypeOK
<1>1. IInv => TypeOK
  BY DEF IInv, TypeInv
<1> QED
  BY <1>1, InputInvariance, PTL

\* Once everything is injected, the host's pointer is where the viewer points
\* (script.js:349-353 and 202-254, InputInjector.cpp:35-58).
THEOREM PointerIsFollowed == Spec => []PointerFollows
<1>1. IInv => PointerFollows
  <2> SUFFICES ASSUME IInv, queue = <<>>, ~astray
               PROVE  hostAt = Injected(PixelAt(point, box, Picture), Primary)
    BY DEF PointerFollows, Delivered
  <2>1. Len(queue) + 1 = 1 /\ 1 .. 1 - 1 = {}
    OBVIOUS
  <2>2. LeftAt(queue, hostAt, 1, PixelAt(point, box, Picture))
    BY <2>1 DEF IInv, AimInv, AimOf
  <2> QED
    BY <2>1, <2>2, Zenon DEF LeftAt
<1> QED
  BY <1>1, InputInvariance, PTL

\* A press hits what the viewer pressed on, though only moves position the
\* host's pointer (InputInjector.cpp:52-83): by the order of the messages.
THEOREM PressesHit == Spec => PressesLand
<1> DEFINE Hits == Inject /\ Head(queue).type = "mousedown" /\ Head(queue).aimed
                     => hostAt = Injected(Head(queue).at, Primary)
<1>1. IInv => Hits
  <2> SUFFICES ASSUME IInv, queue # <<>>, queue[1].type = "mousedown", queue[1].aimed
               PROVE  hostAt = Injected(queue[1].at, Primary)
    <3>1. IInv /\ queue # <<>> => Head(queue) = queue[1]
      BY DEF IInv, TypeInv, QueueInv
    <3> QED
      BY <3>1 DEF Inject
  <2>1. 1 \in 1 .. Len(queue) /\ 1 .. 1 - 1 = {}
    BY DEF IInv, TypeInv, QueueInv
  <2>2. LeftAt(queue, hostAt, 1, queue[1].at)
    BY <2>1 DEF IInv, AimInv, AimOf
  <2> QED
    BY <2>1, <2>2, Zenon DEF LeftAt
<1>2. IInv /\ [Next]_vars => [Hits]_vars
  BY <1>1
<1> QED
  BY <1>2, InputInvariance, PTL DEF PressesLand, Spec

-----------------------------------------------------------------------------
(* Which buttons and keys are down.                                        *)

\* A message that decides whether input i is down on the host, and whether it
\* leaves it down: click and contextmenu end with a release.
IsKey(m) == m.type \in {"keydown", "keyup"}
Touches(m, i) == IF IsKey(m) THEN m.code = i /\ Understood(m)
                 ELSE m.type # "mousemove" /\ m.button = i
Presses(m) == m.type \in {"mousedown", "keydown"}

IsDown(i, buttons, keys) == IF i \in Buttons THEN i \in buttons ELSE HostKey(i, "1") \in keys

\* Input i, now down if d, will be down when the messages of qu are injected:
\* the last of them that touches it presses it, or none does and it is.
WillBeDown(qu, d, i) ==
  \/ \E j \in 1 .. Len(qu) : /\ Touches(qu[j], i) /\ Presses(qu[j])
                             /\ \A k \in j + 1 .. Len(qu) : ~Touches(qu[k], i)
  \/ (\A j \in 1 .. Len(qu) : ~Touches(qu[j], i)) /\ d

\* What is on its way will leave the host with what the user holds; a press
\* of the right button may be let go of by the contextmenu after it.
Followed(i, w) == (w => i \in held) /\ (i \in held /\ i # "right" => w)
Tracked == Inputs \ (blind \cup {"X1"})
DownLater(i) == WillBeDown(queue, IsDown(i, hostButtons, hostKeys), i)
MenuInv == \A j \in 1 .. Len(queue) : queue[j].type = "contextmenu" => queue[j].button = "right"
TrackInv == MenuInv /\ \A i \in Tracked : Followed(i, DownLater(i))

\* No two codes share a key of the host, and a symbol without a key is the
\* only way to miss the key of a code.
LEMMA HostKeysDiffer ==
  /\ \A k \in Keys : HostKey(k, "1") # NoKey
  /\ \A k, l \in Keys : k # l => HostKey(k, "1") # HostKey(l, "1")
  /\ \A k \in Keys : \A s : HostKey(k, s) # NoKey => HostKey(k, s) = HostKey(k, "1")
<1>1. Keys \subseteq {"ShiftLeft", "Soft1", "ArrowUp", "Numpad8", "KeyA"}
  BY InputAssumption, Zenon
<1> DEFINE Of(s, e) == [NoKey EXCEPT !.wScan = s, !.extended = e]
<1>2. /\ NoKey.wVk = 0 /\ NoKey.wScan = 0
      /\ \A v : [NoKey EXCEPT !.wVk = v].wVk = v
      /\ \A s, e : Of(s, e).wScan = s /\ Of(s, e).extended = e /\ Of(s, e).wVk = 0
  BY DEF NoKey
<1>3. \A k \in Mapped : \A s : HostKey(k, s) = Of(Scan[k], Extended(k))
  BY DEF HostKey
<1> HIDE DEF Of
<1>4. \A s : HostKey("Soft1", s) = IF s = "1" THEN [NoKey EXCEPT !.wVk = 49] ELSE NoKey
  BY DEF HostKey, Mapped
<1>5. /\ Scan["ShiftLeft"] = 42 /\ Scan["ArrowUp"] = 72 /\ Scan["Numpad8"] = 72 /\ Scan["KeyA"] = 30
      /\ Extended("ArrowUp") /\ ~Extended("ShiftLeft") /\ ~Extended("Numpad8") /\ ~Extended("KeyA")
  BY DEF Scan, Extended
<1>6. \A k \in Mapped : \A s : /\ HostKey(k, s).wVk = 0 /\ HostKey(k, s).wScan = Scan[k]
                               /\ HostKey(k, s).extended = Extended(k)
  BY <1>2, <1>3
<1>7. \A k \in Mapped : Scan[k] \in {42, 72, 30}
  BY <1>5 DEF Mapped
<1>8. \A k, l \in Mapped : Scan[k] = Scan[l] => Extended(k) # Extended(l) \/ k = l
  BY <1>5 DEF Mapped
<1>9. \A k \in Mapped : \A s : HostKey(k, s) # NoKey
  BY <1>2, <1>6, <1>7
<1>10. \A k, l \in Mapped : k # l => HostKey(k, "1") # HostKey(l, "1")
  <2> SUFFICES ASSUME NEW k \in Mapped, NEW l \in Mapped, HostKey(k, "1") = HostKey(l, "1")
               PROVE  k = l
    OBVIOUS
  <2>1. Scan[k] = Scan[l]
    BY <1>6
  <2>2. Extended(k) = Extended(l)
    BY <1>6
  <2> QED
    BY <1>8, <2>1, <2>2
<1>11. HostKey("Soft1", "1").wVk = 49
  BY <1>2, <1>4
<1>12. \A k \in Keys : k \in Mapped \/ k = "Soft1"
  BY <1>1 DEF Mapped
<1>13. \A k \in Mapped : \A s : HostKey(k, s) = HostKey(k, "1")
  BY <1>3
<1>14. \A s : HostKey("Soft1", s) # NoKey => HostKey("Soft1", s) = HostKey("Soft1", "1")
  BY <1>4
<1>15. /\ HostKey("Soft1", "1") # NoKey
       /\ \A k \in Mapped : HostKey(k, "1") # HostKey("Soft1", "1")
  BY <1>2, <1>6, <1>11
<1> QED
  BY <1>9, <1>10, <1>12, <1>13, <1>14, <1>15, Zenon

LEMMA InputsDiffer ==
  /\ \A i \in Buttons : i \notin Keys
  /\ "none" \notin Inputs /\ "X1" \notin Keys /\ "right" \notin Keys
BY InputAssumption DEF Inputs

\* A message that is added at the end decides, or changes nothing.
LEMMA AddedDecides ==
  ASSUME NEW qu \in Seq(Messages), NEW m \in Messages, NEW d \in BOOLEAN, NEW i
  PROVE  WillBeDown(Append(qu, m), d, i)
           <=> IF Touches(m, i) THEN Presses(m) ELSE WillBeDown(qu, d, i)
<1> DEFINE r == Append(qu, m)
           n == Len(qu)
<1>1. /\ n \in Nat /\ Len(r) = n + 1 /\ r[n + 1] = m
      /\ \A k \in 1 .. n : r[k] = qu[k]
  BY DEF r
<1> HIDE DEF r, n
<1>2. \A k \in 1 .. n + 1 : k \in 1 .. n \/ k = n + 1
  BY <1>1
<1>3. n + 1 \in 1 .. n + 1 /\ \A k \in 1 .. n : k \in 1 .. n + 1
  BY <1>1
<1>4. /\ \A k \in (n + 1) + 1 .. n + 1 : FALSE
      /\ \A j \in 1 .. n : /\ n + 1 \in j + 1 .. n + 1
                           /\ \A k \in j + 1 .. n + 1 : k \in j + 1 .. n \/ k = n + 1
                           /\ \A k \in j + 1 .. n : k \in j + 1 .. n + 1 /\ k \in 1 .. n
  BY <1>1
<1>5. CASE Touches(m, i)
  <2>1. Presses(m) => WillBeDown(r, d, i)
    BY <1>1, <1>3, <1>4, <1>5, Zenon DEF WillBeDown
  <2>2. WillBeDown(r, d, i) => Presses(m)
    BY <1>1, <1>2, <1>3, <1>4, <1>5, Zenon DEF WillBeDown
  <2> QED
    BY <1>5, <2>1, <2>2 DEF r
<1>6. CASE ~Touches(m, i)
  <2>1. \A k \in 1 .. n : Touches(r[k], i) <=> Touches(qu[k], i)
    BY <1>1
  <2>2. WillBeDown(qu, d, i) => WillBeDown(r, d, i)
    <3>1. ASSUME NEW j \in 1 .. n, Touches(qu[j], i), Presses(qu[j]),
                 \A k \in j + 1 .. n : ~Touches(qu[k], i)
          PROVE  /\ j \in 1 .. n + 1 /\ Touches(r[j], i) /\ Presses(r[j])
                 /\ \A k \in j + 1 .. n + 1 : ~Touches(r[k], i)
      BY <1>1, <1>3, <1>4, <1>6, <2>1, <3>1
    <3>2. (\A j \in 1 .. n : ~Touches(qu[j], i)) => \A j \in 1 .. n + 1 : ~Touches(r[j], i)
      BY <1>1, <1>2, <1>6
    <3> QED
      BY <1>1, <3>1, <3>2, Zenon DEF WillBeDown, n
  <2>3. WillBeDown(r, d, i) => WillBeDown(qu, d, i)
    <3>1. ASSUME NEW j \in 1 .. n + 1, Touches(r[j], i), Presses(r[j]),
                 \A k \in j + 1 .. n + 1 : ~Touches(r[k], i)
          PROVE  /\ j \in 1 .. n /\ Touches(qu[j], i) /\ Presses(qu[j])
                 /\ \A k \in j + 1 .. n : ~Touches(qu[k], i)
      <4>1. j \in 1 .. n
        BY <1>1, <1>2, <1>6, <3>1
      <4> QED
        BY <1>1, <1>4, <2>1, <3>1, <4>1
    <3>2. (\A j \in 1 .. n + 1 : ~Touches(r[j], i)) => \A j \in 1 .. n : ~Touches(qu[j], i)
      BY <1>3, <2>1
    <3> QED
      BY <1>1, <3>1, <3>2, Zenon DEF WillBeDown, n
  <2> QED
    BY <1>6, <2>2, <2>3 DEF r
<1> QED
  BY <1>5, <1>6

\* A message that is taken from the front and injected.
LEMMA TakenDecides ==
  ASSUME NEW qu \in Seq(Messages), qu # <<>>, NEW d \in BOOLEAN, NEW i
  PROVE  WillBeDown(Tail(qu), IF Touches(qu[1], i) THEN Presses(qu[1]) ELSE d, i)
           <=> WillBeDown(qu, d, i)
<1> DEFINE r == Tail(qu)
           n == Len(qu)
           e == IF Touches(qu[1], i) THEN Presses(qu[1]) ELSE d
<1>1. n \in Nat \ {0} /\ Len(r) = n - 1 /\ \A k \in 1 .. n - 1 : r[k] = qu[k + 1]
  BY DEF r
<1> HIDE DEF r, n
<1>2. /\ \A k \in 1 .. n - 1 : k + 1 \in 1 .. n
      /\ \A k \in 1 .. n : k = 1 \/ (k - 1 \in 1 .. n - 1 /\ (k - 1) + 1 = k)
      /\ 1 \in 1 .. n
  BY <1>1
<1>3. \A k \in 1 .. n - 1 : Touches(r[k], i) <=> Touches(qu[k + 1], i)
  BY <1>1
<1>4. ASSUME NEW j \in 1 .. n - 1
      PROVE  (\A k \in j + 1 .. n - 1 : ~Touches(r[k], i))
               <=> \A k \in (j + 1) + 1 .. n : ~Touches(qu[k], i)
  <2>1. \A k \in j + 1 .. n - 1 : k \in 1 .. n - 1 /\ k + 1 \in (j + 1) + 1 .. n
    BY <1>1
  <2>2. \A k \in (j + 1) + 1 .. n : k - 1 \in j + 1 .. n - 1 /\ k - 1 \in 1 .. n - 1 /\ (k - 1) + 1 = k
    BY <1>1
  <2> QED
    BY <1>3, <2>1, <2>2
<1>5. (\A k \in 1 .. n - 1 : ~Touches(r[k], i)) <=> \A k \in 1 + 1 .. n : ~Touches(qu[k], i)
  <2>1. \A k \in 1 .. n - 1 : k + 1 \in 1 + 1 .. n
    BY <1>1
  <2>2. \A k \in 1 + 1 .. n : k - 1 \in 1 .. n - 1 /\ (k - 1) + 1 = k
    BY <1>1
  <2> QED
    BY <1>3, <2>1, <2>2
<1>6. ASSUME WillBeDown(r, e, i) PROVE WillBeDown(qu, d, i)
  <2>1. CASE \E j \in 1 .. n - 1 : /\ Touches(r[j], i) /\ Presses(r[j])
                                   /\ \A k \in j + 1 .. n - 1 : ~Touches(r[k], i)
    <3>1. PICK j \in 1 .. n - 1 : /\ Touches(r[j], i) /\ Presses(r[j])
                                  /\ \A k \in j + 1 .. n - 1 : ~Touches(r[k], i)
      BY <2>1
    <3>2. /\ j + 1 \in 1 .. n /\ Touches(qu[j + 1], i) /\ Presses(qu[j + 1])
          /\ \A k \in (j + 1) + 1 .. n : ~Touches(qu[k], i)
      BY <1>1, <1>2, <1>3, <1>4, <3>1
    <3> QED
      BY <3>2 DEF WillBeDown, n
  <2>2. CASE (\A j \in 1 .. n - 1 : ~Touches(r[j], i)) /\ e
    <3>1. \A k \in 1 + 1 .. n : ~Touches(qu[k], i)
      BY <1>5, <2>2
    <3>2. CASE Touches(qu[1], i)
      BY <1>2, <2>2, <3>1, <3>2, Zenon DEF WillBeDown, n
    <3>3. CASE ~Touches(qu[1], i)
      <4>1. \A k \in 1 .. n : k = 1 \/ k \in 1 + 1 .. n
        BY <1>1
      <4> QED
        BY <2>2, <3>1, <3>3, <4>1, Zenon DEF WillBeDown, n
    <3> QED
      BY <3>2, <3>3
  <2> QED
    BY <1>1, <1>6, <2>1, <2>2 DEF WillBeDown
<1>7. ASSUME WillBeDown(qu, d, i) PROVE WillBeDown(r, e, i)
  <2>1. CASE \E j \in 1 .. n : /\ Touches(qu[j], i) /\ Presses(qu[j])
                               /\ \A k \in j + 1 .. n : ~Touches(qu[k], i)
    <3>1. PICK j \in 1 .. n : /\ Touches(qu[j], i) /\ Presses(qu[j])
                              /\ \A k \in j + 1 .. n : ~Touches(qu[k], i)
      BY <2>1
    <3>2. CASE j = 1
      <4>1. (\A k \in 1 .. n - 1 : ~Touches(r[k], i)) /\ e
        BY <1>5, <3>1, <3>2
      <4> QED
        BY <1>1, <4>1 DEF WillBeDown
    <3>3. CASE j # 1
      <4>1. j - 1 \in 1 .. n - 1 /\ (j - 1) + 1 = j
        BY <1>2, <3>3
      <4>2. Touches(r[j - 1], i) /\ Presses(r[j - 1])
        BY <1>1, <3>1, <4>1
      <4>3. \A k \in (j - 1) + 1 .. n - 1 : ~Touches(r[k], i)
        BY <1>4, <3>1, <4>1
      <4> QED
        BY <1>1, <4>1, <4>2, <4>3 DEF WillBeDown
    <3> QED
      BY <3>2, <3>3
  <2>2. CASE (\A j \in 1 .. n : ~Touches(qu[j], i)) /\ d
    <3>1. (\A k \in 1 .. n - 1 : ~Touches(r[k], i)) /\ e
      BY <1>2, <1>3, <2>2
    <3> QED
      BY <1>1, <3>1 DEF WillBeDown
  <2> QED
    BY <1>7, <2>1, <2>2 DEF WillBeDown, n
<1> QED
  BY <1>6, <1>7 DEF r

\* A message that is no move of the mouse touches the input it is about only.
LEMMA TouchesItsOwn ==
  ASSUME NEW i \in Inputs
  PROVE  /\ \A type, b : ~IsKey(Mouse(type, b)) /\ type # "mousemove"
               => (Touches(Mouse(type, b), i) <=> i = b)
         /\ \A type \in {"keydown", "keyup"} : \A k :
              Touches(Key(type, k), i) <=> i = k /\ Understood(Key(type, k))
         /\ \A m : ~IsKey(m) => Understood(m)
BY DEF Touches, IsKey, Mouse, Key, Understood

\* Sending one message or two about the inputs in I: afterwards one of them
\* is lost to sight, or what is on its way ends with that message; for every
\* other input nothing changes.
LEMMA SentDecides ==
  ASSUME TypeInv, NEW I, NEW m, Queued(m), NEW l, Queued(l),
         \/ SendInput(I, <<m>>) /\ l = m
         \/ SendInput(I, <<m, l>>) /\ \A j \in Inputs : Touches(m, j) => j \in I,
         NEW i \in Inputs, i \notin blind', NEW d \in BOOLEAN,
         Touches(l, i) <=> i \in I /\ Understood(m)
  PROVE  IF i \in I THEN WillBeDown(queue', d, i) <=> Presses(l)
         ELSE i \notin blind /\ (WillBeDown(queue', d, i) <=> WillBeDown(queue, d, i))
<1>1. queue \in Seq(Messages) /\ m \in Messages /\ l \in Messages
  BY DEF TypeInv, QueueInv, Queued
<1>2. CASE ~(up /\ sized)
  <2>1. queue' = queue /\ blind' = blind \cup I
    BY <1>2 DEF SendInput
  <2> QED
    BY <2>1
<1>3. CASE up /\ sized
  <2>1. blind' = IF Understood(m) THEN blind \ I ELSE blind \cup I
    BY <1>3 DEF SendInput
  <2>2. /\ i \in I => Touches(l, i)
        /\ i \notin I => ~Touches(l, i) /\ i \notin blind
    BY <2>1
  <2>3. CASE SendInput(I, <<m>>) /\ l = m
    <3>1. queue' = Append(queue, l)
      <4>1. queue' = queue \o <<l>>
        BY <1>3, <2>3 DEF SendInput
      <4> HIDE DEF Messages
      <4> QED
        BY <1>1, <4>1
    <3>2. WillBeDown(queue', d, i)
            <=> IF Touches(l, i) THEN Presses(l) ELSE WillBeDown(queue, d, i)
      BY <1>1, <3>1, AddedDecides
    <3> QED
      BY <2>2, <3>2
  <2>4. CASE SendInput(I, <<m, l>>) /\ \A j \in Inputs : Touches(m, j) => j \in I
    <3>1. queue' = Append(Append(queue, m), l) /\ Append(queue, m) \in Seq(Messages)
      <4>1. queue' = queue \o <<m, l>>
        BY <1>3, <2>4 DEF SendInput
      <4> HIDE DEF Messages
      <4> QED
        BY <1>1, <4>1
    <3>2. WillBeDown(queue', d, i)
            <=> IF Touches(l, i) THEN Presses(l) ELSE WillBeDown(Append(queue, m), d, i)
      <4> DEFINE r == Append(queue, m)
      <4>1. r \in Seq(Messages) /\ queue' = Append(r, l)
        BY <3>1
      <4> HIDE DEF r
      <4>2. WillBeDown(queue', d, i)
              <=> IF Touches(l, i) THEN Presses(l) ELSE WillBeDown(r, d, i)
        BY <1>1, <4>1, AddedDecides
      <4> QED
        BY <4>2 DEF r
    <3>3. WillBeDown(Append(queue, m), d, i)
            <=> IF Touches(m, i) THEN Presses(m) ELSE WillBeDown(queue, d, i)
      BY <1>1, AddedDecides
    <3>4. i \notin I => ~Touches(m, i)
      BY <2>4
    <3> QED
      BY <2>2, <3>2, <3>3, <3>4
  <2> QED
    BY <2>3, <2>4
<1> QED
  BY <1>2, <1>3

\* Sending changes no other part of TrackInv but MenuInv.
LEMMA SentMenus ==
  ASSUME TypeInv, MenuInv, NEW I, NEW m, Queued(m), NEW l, Queued(l),
         SendInput(I, <<m>>) \/ SendInput(I, <<m, l>>),
         m.type = "contextmenu" => m.button = "right",
         l.type = "contextmenu" => l.button = "right"
  PROVE  MenuInv'
<1>1. queue \in Seq(Messages) /\ m \in Messages /\ l \in Messages
  BY DEF TypeInv, QueueInv, Queued
<1>2. queue' = queue \/ queue' = Append(queue, m) \/ queue' = Append(Append(queue, m), l)
  <2>1. queue' = queue \/ queue' = queue \o <<m>> \/ queue' = queue \o <<m, l>>
    BY DEF SendInput
  <2> HIDE DEF Messages
  <2>2. queue \o <<m>> = Append(queue, m) /\ queue \o <<m, l>> = Append(Append(queue, m), l)
    BY <1>1
  <2> QED
    BY <2>1, <2>2
<1> DEFINE Fine(x) == x.type = "contextmenu" => x.button = "right"
<1>3. Fine(m) /\ Fine(l) /\ \A k \in 1 .. Len(queue) : Fine(queue[k])
  BY DEF MenuInv
<1> HIDE DEF Fine
<1>4. CASE queue' = queue
  BY <1>3, <1>4 DEF MenuInv, Fine
<1>5. CASE queue' = Append(queue, m)
  <2>1. /\ Len(queue') = Len(queue) + 1
        /\ \A k \in 1 .. Len(queue') : queue'[k] = IF k = Len(queue) + 1 THEN m ELSE queue[k]
    BY <1>1, <1>5
  <2>2. ASSUME NEW k \in 1 .. Len(queue') PROVE Fine(queue'[k])
    BY <1>1, <1>3, <2>1
  <2> QED
    BY <2>2 DEF MenuInv, Fine
<1>6. CASE queue' = Append(Append(queue, m), l)
  <2>1. /\ Len(queue') = Len(queue) + 2
        /\ \A k \in 1 .. Len(queue') :
             queue'[k] = IF k = Len(queue) + 2 THEN l
                         ELSE IF k = Len(queue) + 1 THEN m ELSE queue[k]
    BY <1>1, <1>6
  <2>2. ASSUME NEW k \in 1 .. Len(queue') PROVE Fine(queue'[k])
    BY <1>1, <1>3, <2>1
  <2> QED
    BY <2>2 DEF MenuInv, Fine
<1> QED
  BY <1>2, <1>4, <1>5, <1>6

\* Injecting a message does to the host what the message decides.
LEMMA InjectDecides ==
  ASSUME IInv, MenuInv, Inject, NEW i \in Inputs, i # "X1"
  PROVE  IsDown(i, hostButtons', hostKeys')
           <=> IF Touches(queue[1], i) THEN Presses(queue[1])
               ELSE IsDown(i, hostButtons, hostKeys)
<1> DEFINE m == queue[1]
<1>1. /\ queue # <<>> /\ queue \in Seq(Messages) /\ Head(queue) = m
      /\ 1 \in 1 .. Len(queue) /\ Queued(m) /\ m \in Messages
      /\ IF IsKey(m) THEN InjectKeyboardInput(m) ELSE InjectMouseInput(m)
  BY DEF Inject, IInv, TypeInv, QueueInv, Queued, IsKey
<1>2. m.type = "contextmenu" => m.button = "right"
  BY <1>1 DEF MenuInv
<1> HIDE DEF m
<1>3. CASE IsKey(m)
  <2> DEFINE key == HostKey(m.code, m.symbol)
  <2>1. m.code \in Keys /\ (m.type = "keydown" \/ m.type = "keyup")
    BY <1>1, <1>3 DEF Messages, IsKey
  <2>2. /\ hostButtons' = hostButtons
        /\ hostKeys' = IF key = NoKey THEN hostKeys
                       ELSE IF m.type = "keyup" THEN Up(hostKeys, key) ELSE Down(hostKeys, key)
    BY <1>1, <1>3 DEF InjectKeyboardInput
  <2>3. Touches(m, i) <=> m.code = i /\ key # NoKey
    BY <1>3, <2>1 DEF Touches, Understood, IsKey
  <2>4. Presses(m) <=> m.type # "keyup"
    BY <2>1 DEF Presses
  <2>5. key # NoKey => key = HostKey(m.code, "1")
    BY <2>1, HostKeysDiffer
  <2>6. CASE i \in Buttons
    BY <2>1, <2>2, <2>3, <2>6, InputsDiffer DEF IsDown, m
  <2>7. CASE i \notin Buttons
    <3>1. i \in Keys
      BY <2>7 DEF Inputs
    <3>2. m.code # i => HostKey(m.code, "1") # HostKey(i, "1")
      BY <2>1, <3>1, HostKeysDiffer
    <3>3. HostKey(i, "1") \in hostKeys'
            <=> IF m.code = i /\ key # NoKey THEN m.type # "keyup"
                ELSE HostKey(i, "1") \in hostKeys
      <4> HIDE DEF key
      <4> QED
        BY <2>2, <2>5, <3>2 DEF Up, Down
    <3> QED
      BY <2>3, <2>4, <2>7, <3>3 DEF IsDown, m
  <2> QED
    BY <2>6, <2>7
<1>4. CASE ~IsKey(m)
  <2>1. m.type \in {"mousemove", "mousedown", "mouseup", "click", "contextmenu"}
    BY <1>1, <1>4 DEF Messages, IsKey
  <2>2. /\ hostKeys' = hostKeys
        /\ m.type = "mousemove" \/ m.button = "X1" => hostButtons' = hostButtons
        /\ ~(m.type = "mousemove" \/ m.button = "X1") =>
             /\ m.type = "mousedown" => hostButtons' = Down(hostButtons, m.button)
             /\ m.type = "mouseup" => hostButtons' = Up(hostButtons, m.button)
             /\ m.type = "click" => hostButtons' = DownThenUp(hostButtons, m.button)
             /\ m.type = "contextmenu" => hostButtons' = DownThenUp(hostButtons, "right")
    BY <1>1, <1>4 DEF InjectMouseInput
  <2>3. Touches(m, i) <=> m.type # "mousemove" /\ m.button = i
    BY <1>4 DEF Touches
  <2>4. Presses(m) <=> m.type = "mousedown"
    BY <2>1 DEF Presses
  <2>5. i \in hostButtons' <=> IF Touches(m, i) THEN Presses(m) ELSE i \in hostButtons
    BY <1>2, <2>1, <2>2, <2>3, <2>4 DEF Up, Down, DownThenUp
  <2>6. CASE i \in Buttons
    BY <2>5, <2>6 DEF IsDown, m
  <2>7. CASE i \notin Buttons
    <3>1. m.type # "mousemove" => m.button \in Buttons
      <4>1. m.button \in Buttons \cup {"none"}
        BY <1>1, <1>4 DEF Messages, IsKey
      <4> QED
        BY <1>1, <1>2, <2>1, <4>1 DEF Queued
    <3> QED
      BY <2>2, <2>3, <2>7, <3>1 DEF IsDown, m
  <2> QED
    BY <2>6, <2>7
<1> QED
  BY <1>3, <1>4 DEF m

LEMMA DownIsBoolean == \A i, buttons, keys : IsDown(i, buttons, keys) \in BOOLEAN
<1> SUFFICES ASSUME NEW i, NEW buttons, NEW keys PROVE IsDown(i, buttons, keys) \in BOOLEAN
  OBVIOUS
<1>1. CASE i \in Buttons
  <2>1. IsDown(i, buttons, keys) = (i \in buttons)
    BY <1>1 DEF IsDown
  <2> QED
    BY <2>1
<1>2. CASE i \notin Buttons
  <2>1. IsDown(i, buttons, keys) = (HostKey(i, "1") \in keys)
    BY <1>2 DEF IsDown
  <2> QED
    BY <2>1
<1> QED
  BY <1>1, <1>2

\* A listener that sends what became of the inputs in I keeps track of them.
LEMMA SentTracks ==
  ASSUME IInv, TrackInv, UNCHANGED host, NEW I, NEW m, Queued(m), NEW l, Queued(l),
         \/ SendInput(I, <<m>>) /\ l = m
         \/ SendInput(I, <<m, l>>) /\ \A j \in Inputs : Touches(m, j) => j \in I,
         m.type = "contextmenu" => m.button = "right",
         l.type = "contextmenu" => l.button = "right",
         \A i \in Inputs : Touches(l, i) <=> i \in I /\ Understood(m),
         \A i \in Inputs :
           /\ i \in I /\ Presses(l) => i \in held'
           /\ i \in I /\ i \in held' /\ i # "right" => Presses(l)
           /\ i \notin I => (i \in held' <=> i \in held)
  PROVE  TrackInv'
<1>1. MenuInv'
  BY SentMenus DEF IInv, TrackInv
<1>2. ASSUME NEW i \in Inputs, i \notin blind', i # "X1"
      PROVE  Followed(i, DownLater(i))'
  <2> DEFINE d == IsDown(i, hostButtons, hostKeys)
  <2>1. d \in BOOLEAN /\ d' = d
    BY DownIsBoolean DEF IsDown, host
  <2> HIDE DEF d
  <2>2. IF i \in I THEN WillBeDown(queue', d, i) <=> Presses(l)
        ELSE i \notin blind /\ (WillBeDown(queue', d, i) <=> WillBeDown(queue, d, i))
    BY <1>2, <2>1, SentDecides DEF IInv
  <2>3. DownLater(i)' <=> WillBeDown(queue', d, i)
    BY <2>1 DEF DownLater, d
  <2>4. i \notin blind => Followed(i, WillBeDown(queue, d, i))
    BY <1>2 DEF TrackInv, Tracked, DownLater, d
  <2>5. CASE i \in I
    <3>1. /\ Presses(l) => i \in held'
          /\ i \in held' /\ i # "right" => Presses(l)
      BY <2>5
    <3> QED
      BY <2>2, <2>3, <2>5, <3>1 DEF Followed
  <2>6. CASE i \notin I
    <3>1. i \in held' <=> i \in held
      BY <2>6
    <3> QED
      BY <2>2, <2>3, <2>4, <2>6, <3>1, Zenon DEF Followed
  <2> QED
    BY <2>5, <2>6
<1> QED
  BY <1>1, <1>2 DEF TrackInv, Tracked

LEMMA UserTracks ==
  ASSUME IInv, TrackInv, User
  PROVE  TrackInv'
<1>1. UNCHANGED host
  BY DEF User, MouseMove, Layout, MouseDown, MouseUp, KeyDown, KeyUp, ReleaseUnseen
<1>2. ASSUME NEW p \in Points, MouseMove(p) PROVE TrackInv'
  <2> DEFINE m == [Mouse("mousemove", "none") EXCEPT !.at = PixelAt(p, box, Picture)]
             N == {}
  <2>1. SendInput(N, <<m>>) /\ held' = held
    BY <1>2 DEF MouseMove, Listening
  <2>2. Queued(m) /\ m.type = "mousemove"
    BY Sendable DEF IInv, Mouse
  <2> HIDE DEF m
  <2>3. \A i \in Inputs : Touches(m, i) <=> i \in N /\ Understood(m)
    BY <2>2 DEF Touches, IsKey
  <2>4. \A i \in Inputs : /\ i \in N /\ Presses(m) => i \in held'
                          /\ i \in N /\ i \in held' /\ i # "right" => Presses(m)
                          /\ i \notin N => (i \in held' <=> i \in held)
    BY <2>1
  <2> HIDE DEF N
  <2>5. m.type = "contextmenu" => m.button = "right"
    BY <2>2
  <2> QED
    BY <1>1, <2>1, <2>2, <2>3, <2>4, <2>5, SentTracks
<1>3. ASSUME NEW b \in Boxes, Layout(b) PROVE TrackInv'
  BY <1>1, <1>3 DEF Layout, TrackInv, MenuInv, Tracked, Followed, DownLater, host
<1>4. ASSUME NEW b \in Buttons, NEW type \in {"mousedown", "mouseup"},
             NEW last \in {type, "click", "contextmenu"},
             \/ SendInput({b}, <<Mouse(type, b)>>) /\ last = type
             \/ SendInput({b}, <<Mouse(type, b), Mouse(last, b)>>),
             last = "contextmenu" => b = "right",
             held' = IF type = "mousedown" THEN held \cup {b} ELSE held \ {b},
             type = "mousedown" => last \in {type, "contextmenu"}
      PROVE  TrackInv'
  <2> DEFINE m == Mouse(type, b)
             l == Mouse(last, b)
  <2>1. /\ Queued(m) /\ Queued(l) /\ ((SendInput({b}, <<m>>) /\ l = m) \/ SendInput({b}, <<m, l>>))
    BY <1>4, Sendable DEF IInv
  <2>2. /\ m.type = type /\ l.type = last /\ l.button = b
        /\ ~IsKey(m) /\ ~IsKey(l) /\ Understood(m)
    BY DEF Mouse, IsKey, Understood
  <2>3. \A i \in Inputs : (Touches(m, i) <=> i = b) /\ (Touches(l, i) <=> i = b)
    BY <2>2, TouchesItsOwn
  <2>4. Presses(l) <=> last = "mousedown"
    BY <2>2 DEF Presses
  <2> HIDE DEF m, l
  <2>5. \A i \in Inputs :
          /\ i \in {b} /\ Presses(l) => i \in held'
          /\ i \in {b} /\ i \in held' /\ i # "right" => Presses(l)
          /\ i \notin {b} => (i \in held' <=> i \in held)
    BY <1>4, <2>4
  <2> QED
    BY <1>1, <1>4, <2>1, <2>2, <2>3, <2>5, SentTracks
<1>5. ASSUME NEW b \in Buttons, MouseDown(b) PROVE TrackInv'
  <2>1. /\ held' = held \cup {b}
        /\ \/ SendInput({b}, <<Mouse("mousedown", b)>>)
           \/ b = "right" /\ SendInput({b}, <<Mouse("mousedown", b), Mouse("contextmenu", b)>>)
    BY <1>5 DEF MouseDown
  <2> QED
    BY <1>4, <2>1
<1>6. ASSUME NEW b \in Buttons, MouseUp(b) PROVE TrackInv'
  <2>1. /\ held' = held \ {b}
        /\ \/ SendInput({b}, <<Mouse("mouseup", b)>>)
           \/ SendInput({b}, <<Mouse("mouseup", b), Mouse("click", b)>>)
           \/ b = "right" /\ SendInput({b}, <<Mouse("mouseup", b), Mouse("contextmenu", b)>>)
    BY <1>6 DEF MouseUp
  <2> QED
    BY <1>4, <2>1
<1>7. ASSUME NEW k \in Keys, KeyDown(k) \/ KeyUp(k) PROVE TrackInv'
  <2>1. ASSUME NEW type \in {"keydown", "keyup"}, SendInput({k}, <<Key(type, k)>>),
               held' = IF type = "keydown" THEN held \cup {k} ELSE held \ {k}
        PROVE  TrackInv'
    <3> DEFINE m == Key(type, k)
    <3>1. Queued(m) /\ m.type = type
      BY Sendable DEF IInv, Key
    <3>2. \A i \in Inputs : Touches(m, i) <=> i = k /\ Understood(m)
      BY TouchesItsOwn
    <3> HIDE DEF m
    <3>3. Presses(m) <=> type = "keydown"
      BY <3>1 DEF Presses
    <3>4. \A i \in Inputs :
            /\ i \in {k} /\ Presses(m) => i \in held'
            /\ i \in {k} /\ i \in held' /\ i # "right" => Presses(m)
            /\ i \notin {k} => (i \in held' <=> i \in held)
      BY <2>1, <3>3
    <3>5. SendInput({k}, <<m>>)
      BY <2>1 DEF m
    <3> QED
      BY <1>1, <3>1, <3>2, <3>4, <3>5, SentTracks
  <2> QED
    BY <1>7, <2>1 DEF KeyDown, KeyUp
<1>8. ASSUME NEW j \in Inputs, ReleaseUnseen(j) PROVE TrackInv'
  <2>1. held' = held \ {j} /\ blind' = blind \cup {j} /\ queue' = queue
    BY <1>8 DEF ReleaseUnseen
  <2>2. MenuInv'
    BY <2>1 DEF TrackInv, MenuInv
  <2>3. ASSUME NEW i \in Tracked' PROVE Followed(i, DownLater(i))'
    <3>1. i \in Tracked /\ i # j
      BY <2>1, <2>3 DEF Tracked
    <3>2. DownLater(i)' <=> DownLater(i)
      BY <1>1, <2>1 DEF DownLater, IsDown, host
    <3> QED
      BY <2>1, <3>1, <3>2 DEF TrackInv, Followed
  <2> QED
    BY <2>2, <2>3 DEF TrackInv
<1> QED
  BY <1>2, <1>3, <1>5, <1>6, <1>7, <1>8 DEF User

LEMMA InjectTracks ==
  ASSUME IInv, TrackInv, Inject
  PROVE  TrackInv'
<1>1. /\ queue # <<>> /\ queue' = Tail(queue) /\ UNCHANGED <<held, blind>>
      /\ queue \in Seq(Messages)
  BY DEF Inject, IInv, TypeInv, QueueInv
<1>2. MenuInv'
  <2>1. \A j \in 1 .. Len(queue') : j + 1 \in 1 .. Len(queue) /\ queue'[j] = queue[j + 1]
    BY <1>1
  <2> QED
    BY <2>1 DEF TrackInv, MenuInv
<1>3. ASSUME NEW i \in Tracked' PROVE Followed(i, DownLater(i))'
  <2>1. i \in Tracked /\ i \in Inputs /\ i # "X1"
    BY <1>1, <1>3 DEF Tracked
  <2> DEFINE d == IsDown(i, hostButtons, hostKeys)
             e == IF Touches(queue[1], i) THEN Presses(queue[1]) ELSE d
  <2>2. d \in BOOLEAN
    BY DownIsBoolean
  <2>3. IsDown(i, hostButtons', hostKeys') <=> e
    BY <2>1, InjectDecides DEF TrackInv
  <2> HIDE DEF d
  <2>4. WillBeDown(Tail(queue), e, i) <=> WillBeDown(queue, d, i)
    BY <1>1, <2>2, TakenDecides
  <2> HIDE DEF e
  <2>5. DownLater(i)' <=> WillBeDown(queue, d, i)
    BY <1>1, <2>3, <2>4 DEF DownLater, WillBeDown
  <2>6. DownLater(i) <=> WillBeDown(queue, d, i)
    BY DEF DownLater, d
  <2> QED
    BY <1>1, <2>1, <2>5, <2>6 DEF TrackInv, Followed
<1> QED
  BY <1>2, <1>3 DEF TrackInv

\* What is lost at the end decides nothing about an input it does not touch.
LEMMA KeptDecides ==
  ASSUME NEW qu, NEW r, NEW d, NEW i, Len(qu) \in Nat, NEW n \in 0 .. Len(qu), Len(r) = n,
         \A j \in 1 .. n : r[j] = qu[j],
         \A j \in n + 1 .. Len(qu) : ~Touches(qu[j], i)
  PROVE  WillBeDown(r, d, i) <=> WillBeDown(qu, d, i)
<1>1. \A j \in 1 .. Len(qu) : j \in 1 .. n \/ j \in n + 1 .. Len(qu)
  OBVIOUS
<1>2. \A j \in 1 .. n : j \in 1 .. Len(qu) /\ (Touches(r[j], i) <=> Touches(qu[j], i))
                       /\ (Presses(r[j]) <=> Presses(qu[j]))
  OBVIOUS
<1>3. \A j \in 1 .. n : /\ \A k \in j + 1 .. Len(qu) : k \in j + 1 .. n \/ k \in n + 1 .. Len(qu)
                       /\ \A k \in j + 1 .. n : k \in 1 .. n /\ k \in j + 1 .. Len(qu)
  OBVIOUS
<1>4. \A j \in 1 .. n : (\A k \in j + 1 .. n : ~Touches(r[k], i))
                         <=> (\A k \in j + 1 .. Len(qu) : ~Touches(qu[k], i))
  BY <1>2, <1>3
<1>5. (\A j \in 1 .. n : ~Touches(r[j], i)) <=> (\A j \in 1 .. Len(qu) : ~Touches(qu[j], i))
  BY <1>1, <1>2
<1>6. (\E j \in 1 .. n : /\ Touches(r[j], i) /\ Presses(r[j])
                        /\ \A k \in j + 1 .. n : ~Touches(r[k], i))
        <=> (\E j \in 1 .. Len(qu) : /\ Touches(qu[j], i) /\ Presses(qu[j])
                                   /\ \A k \in j + 1 .. Len(qu) : ~Touches(qu[k], i))
  BY <1>1, <1>2, <1>4
<1> QED
  BY <1>5, <1>6 DEF WillBeDown

LEMMA ConnectionTracks ==
  ASSUME IInv, TrackInv, Connect \/ FirstFrame \/ Disconnect
  PROVE  TrackInv'
<1>1. CASE Connect \/ FirstFrame
  BY <1>1 DEF Connect, FirstFrame, TrackInv, MenuInv, Tracked, Followed, DownLater, host
<1>2. CASE Disconnect
  <2>1. held' = held /\ UNCHANGED host
    BY <1>2 DEF Disconnect
  <2>5. PICK n \in 0 .. Len(queue) : queue' = SubSeq(queue, 1, n) /\ blind' = blind \cup Lost(n)
    BY <1>2 DEF Disconnect
  <2>6. queue \in Seq(Messages) /\ Len(queue) \in Nat
    BY DEF IInv, TypeInv, QueueInv
  <2>2. /\ Len(queue') = n
        /\ \A j \in 1 .. n : j \in 1 .. Len(queue) /\ queue'[j] = queue[j]
    BY <2>5, <2>6
  <2>3. MenuInv'
    BY <2>2 DEF TrackInv, MenuInv
  <2>4. ASSUME NEW i \in Tracked' PROVE Followed(i, DownLater(i))'
    <3>1. i \in Tracked /\ i # "none" /\ \A j \in n + 1 .. Len(queue) : About(queue[j]) # i
      BY <2>5, <2>4, InputsDiffer DEF Tracked, Lost
    <3>2. \A j \in n + 1 .. Len(queue) : ~Touches(queue[j], i)
      BY <3>1 DEF Touches, About, IsKey
    <3>3. hostButtons' = hostButtons /\ hostKeys' = hostKeys
      BY <2>1 DEF host
    <3>4. \A d : WillBeDown(queue', d, i) <=> WillBeDown(queue, d, i)
      BY <2>2, <2>6, <3>2, KeptDecides
    <3>5. DownLater(i)' <=> DownLater(i)
      BY <3>3, <3>4 DEF DownLater
    <3> QED
      BY <2>1, <3>1, <3>5 DEF TrackInv, Followed
  <2> QED
    BY <2>3, <2>4 DEF TrackInv
<1> QED
  BY <1>1, <1>2

LEMMA TrackInvariance == Spec => []TrackInv
<1>1. Init => TrackInv
  <2> SUFFICES ASSUME Init PROVE TrackInv
    OBVIOUS
  <2>1. queue = <<>> /\ Len(queue) = 0 /\ held = {} /\ hostButtons = {} /\ hostKeys = {}
    BY DEF Init
  <2> QED
    BY <2>1 DEF TrackInv, MenuInv, Followed, DownLater, WillBeDown, IsDown
<1>2. IInv /\ TrackInv /\ [Next]_vars => TrackInv'
  <2> SUFFICES ASSUME IInv, TrackInv, [Next]_vars PROVE TrackInv'
    OBVIOUS
  <2>1. CASE UNCHANGED vars
    BY <2>1 DEF vars, TrackInv, MenuInv, Tracked, Followed, DownLater
  <2> QED
    BY <2>1, UserTracks, InjectTracks, ConnectionTracks DEF Next
<1> QED
  BY <1>1, <1>2, InputInvariance, PTL DEF Spec

\* When nothing is on its way, what is down is what will be down.
LEMMA DownNow ==
  ASSUME queue = <<>>, NEW i
  PROVE  DownLater(i) <=> IsDown(i, hostButtons, hostKeys)
<1>1. Len(queue) = 0
  OBVIOUS
<1> QED
  BY <1>1 DEF DownLater, WillBeDown

\* Once everything is injected no button is down on the host that the user
\* does not hold, nor the left or the middle one up that is held, whatever
\* was lost on the way of the others (script.js:411-419 and 430-453,
\* InputInjector.cpp:60-93).
THEOREM ButtonsAreTracked == Spec => []ButtonsTracked
<1>1. IInv /\ TrackInv => ButtonsTracked
  <2> SUFFICES ASSUME IInv, TrackInv, queue = <<>>, NEW b \in Buttons \ blind
               PROVE  /\ b \in hostButtons => b \in held
                      /\ b \in held \cap {"left", "middle"} => b \in hostButtons
    BY DEF ButtonsTracked, Delivered
  <2>1. CASE b = "X1"
    BY <2>1 DEF IInv, TypeInv, TypeOK
  <2>2. CASE b # "X1"
    <3>1. Followed(b, DownLater(b))
      BY <2>2 DEF TrackInv, Tracked, Inputs
    <3>2. DownLater(b) <=> b \in hostButtons
      BY DownNow DEF IsDown
    <3> QED
      BY <3>1, <3>2 DEF Followed
  <2> QED
    BY <2>1, <2>2
<1> QED
  BY <1>1, InputInvariance, TrackInvariance, PTL

\* Once everything is injected a key is down on the host exactly if the user
\* holds it, for every choice of keys and however their events interleave
\* (script.js:467-495, InputInjector.cpp:107-190).
THEOREM KeysAreTracked == Spec => []KeysTracked
<1>1. TrackInv => KeysTracked
  <2> SUFFICES ASSUME TrackInv, queue = <<>>, NEW k \in Keys \ blind
               PROVE  (HostKey(k, "1") \in hostKeys) <=> (k \in held)
    BY DEF KeysTracked, Delivered
  <2>1. k \notin Buttons /\ k # "X1" /\ k # "right"
    BY InputsDiffer
  <2>2. Followed(k, DownLater(k))
    BY <2>1 DEF TrackInv, Tracked, Inputs
  <2>3. DownLater(k) <=> HostKey(k, "1") \in hostKeys
    BY <2>1, DownNow DEF IsDown
  <2> QED
    BY <2>1, <2>2, <2>3 DEF Followed
<1> QED
  BY <1>1, TrackInvariance, PTL
=============================================================================
