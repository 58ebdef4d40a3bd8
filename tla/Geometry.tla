------------------------------ MODULE Geometry ------------------------------
(***************************************************************************)
(* The coordinate arithmetic of the system, over exact fractions where the *)
(* code has floating-point numbers: the pixel of the shared screen a mouse *)
(* event of the viewer page means, the coordinate the agent injects for    *)
(* it, and the scale the server computes for a viewer's window.            *)
(***************************************************************************)
EXTENDS Integers

\* Math.round(n / d), d > 0.
Rounded(n, d) == (2 * n + d) \div (2 * d)

\* Math.max(0, Math.min(v, size - 1)).
Unclamped(v, size) == v  \* Faulty: the value is sent as it is.
Clamped(v, size) == IF v < 0 THEN 0 ELSE IF v > size - 1 THEN size - 1 ELSE v

\* The picture is wider than the box it is fitted into: bands above and below.
Wide(box, picture) == picture.w * box.h > box.w * picture.h

\* sendInput: the pixel of the picture, as wide as originalWidth and as high
\* as originalHeight, under the point p of the page, the picture being fitted
\* into the box the browser gave the canvas.
PixelAt(p, box, picture) ==
  LET x == p.x - box.left
      y == p.y - box.top
      wide == Wide(box, picture)
      px == IF wide THEN Rounded(x * picture.w, box.w)
            ELSE Rounded(2 * x * picture.h - box.w * picture.h + box.h * picture.w, 2 * box.h)
      py == IF wide THEN Rounded(2 * y * picture.w - box.h * picture.w + box.w * picture.h, 2 * box.w)
            ELSE Rounded(y * picture.h, box.h)
  IN [x |-> Clamped(px, picture.w), y |-> Clamped(py, picture.h)]

\* InjectMouseInput: a pixel in the 65536 steps across the primary screen, or
\* beyond them if the picture is larger than that.  Windows has 16 bits for
\* the coordinates of the virtual screen, so that the product fits an int.
LastStep == 65535
MaxPixels == 32768
MaxInt == 2147483647
Absolute(v, size) == (v * LastStep) \div size
Injected(p, screen) == [x |-> Absolute(p.x, screen.w), y |-> Absolute(p.y, screen.h)]
Reach(size, across) == 0 .. IF size <= across THEN LastStep ELSE MaxInt

\* calculateOptimalScale, the declaration at line 318, which replaces the one
\* at line 45 for the whole file, as a fraction: of the two quotients the
\* smaller, and that within 0.1 and 2.
Less(a, b) == a.n * b.d < b.n * a.d
AtMost(a, b) == a.n * b.d <= b.n * a.d
LargerInstead(a, b) == IF Less(a, b) THEN b ELSE a  \* Faulty: Math.max.
Smaller(a, b) == IF Less(b, a) THEN b ELSE a
Larger(a, b) == IF Less(a, b) THEN b ELSE a
Tenth == [n |-> 1, d |-> 10]
Twice == [n |-> 2, d |-> 1]
Quotient(window, size) == [n |-> 9 * window, d |-> 10 * size]
OptimalScale(agent, viewer) ==
  Larger(Tenth, Smaller(Smaller(Quotient(viewer.w, agent.w), Quotient(viewer.h, agent.h)), Twice))

\* The screen of the agent, scaled, takes at most 90% of the window in both
\* directions, unless a tenth of it is already too large.
FitsWindow(s, agent, viewer) ==
  \/ s = Tenth
  \/ AtMost(s, Quotient(viewer.w, agent.w)) /\ AtMost(s, Quotient(viewer.h, agent.h))
=============================================================================
