----------------------------- MODULE Geometry -----------------------------
(***************************************************************************)
(* The logical display space (src/linux/input-router/src/geometry.rs): two *)
(* adjacent screens, the edge they share, the cursor on one of them, and   *)
(* its place on the remote screen in the bridge's coordinates.             *)
(*                                                                         *)
(* x is in whole pixels.  y is in fractions of a pixel as fine as mapping  *)
(* between the two heights makes them: a pixel of a screen is as many units *)
(* high as the other screen has pixels, so that both screens are           *)
(* Height["local"] * Height["remote"] high and the mapping keeps y.  The   *)
(* arithmetic is exact where the code's is that of f64.                    *)
(***************************************************************************)
EXTENDS Integers

CONSTANTS Width, Height,  \* of the screens, in pixels
          CanonicalMax    \* 65535 in the code

Targets == {"local", "remote"}
ASSUME GeometryAssumption ==
    /\ Width \in [Targets -> Nat \ {0}] /\ Height \in [Targets -> Nat \ {0}]
    /\ Width["local"] > 1 /\ Height["local"] > 1   \* the cursor starts in the middle
    /\ CanonicalMax \in Nat \ {0}

Other(t) == IF t = "local" THEN "remote" ELSE "local"
Clamp(v, lo, hi) == IF v < lo THEN lo ELSE IF v > hi THEN hi ELSE v
Pixel(t) == Height[Other(t)]
Bottom(t) == (Height[t] - 1) * Pixel(t)

Edges == {"right", "left"}
Spaces == [edge : Edges, target : Targets, x : Int, y : Int]

\* The shared edge is on the right of one screen and on the left of the other.
OnRight(edge, t) == (edge = "right") = (t = "local")
Seat(edge, t) == IF OnRight(edge, t) THEN Width[t] - 1 ELSE 0

\* Mutant: the pixels of the one taken for those of the other
MapRows(to, y) == Clamp((y \div Pixel(Other(to))) * Pixel(to), 0, Bottom(to))
MapY(to, y) == Clamp(y, 0, Bottom(to))

Crosses(s, nx) == IF OnRight(s.edge, s.target) THEN nx > Width[s.target] - 1 ELSE nx < 0

\* apply_delta, by dx and dy pixels; a crossing is a change of target.
ApplyDelta(s, dx, dy) ==
    LET y == Clamp(s.y + dy * Pixel(s.target), 0, Bottom(s.target))
        to == Other(s.target)
    IN IF Crosses(s, s.x + dx)
       THEN [s EXCEPT !.target = to, !.x = Seat(s.edge, to), !.y = MapY(to, y)]
       ELSE [s EXCEPT !.x = Clamp(s.x + dx, 0, Width[s.target] - 1), !.y = y]

EnterRemote(s, localY) ==
    [s EXCEPT !.target = "remote", !.x = Seat(s.edge, "remote"),
              !.y = MapY("remote", Clamp(localY, 0, Height["local"] - 1) * Pixel("local"))]

ForceLocal(s) ==
    IF s.target = "remote"
    THEN [s EXCEPT !.target = "local", !.x = Seat(s.edge, "local"), !.y = MapY("local", s.y)]
    ELSE s

\* Mutant: rounded down
ScaleDown(v, max) == IF max = 0 THEN 0 ELSE Clamp((v * CanonicalMax) \div max, 0, CanonicalMax)
\* v of 0 .. max in 0 .. CanonicalMax, rounded.  On a screen one pixel wide it is 0/0, a
\* NaN that the cast to u16 makes 0.
Scale(v, max) ==
    IF max = 0 THEN 0 ELSE Clamp((2 * v * CanonicalMax + max) \div (2 * max), 0, CanonicalMax)
Canonical(s) == <<Scale(s.x, Width["remote"] - 1), Scale(s.y, Bottom("remote"))>>
===========================================================================
