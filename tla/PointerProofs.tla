--------------------------- MODULE PointerProofs ---------------------------
(***************************************************************************)
(* Machine-checked facts about the display space and the pointer path, for *)
(* every size of the two screens, every range of coordinates and every     *)
(* sequence of motion, scrolling and clicks.                               *)
(***************************************************************************)
EXTENDS Pointer, TLAPS

-----------------------------------------------------------------------------
(* Arithmetic. *)

LEMMA Quotient ==
    ASSUME NEW n \in Int, NEW d \in Nat \ {0}
    PROVE  n \div d \in Int /\ d * (n \div d) <= n /\ n < d * (n \div d) + d
  BY SMT

LEMMA QuotientIs ==
    ASSUME NEW n \in Int, NEW d \in Nat \ {0}, NEW q \in Int, d * q <= n, n < d * q + d
    PROVE  n \div d = q
  BY SMT

LEMMA Product ==
    ASSUME NEW m \in Nat, NEW n \in Nat
    PROVE  m * n \in Nat
  BY SMT

LEMMA ClampRange ==
    ASSUME NEW v \in Int, NEW hi \in Nat
    PROVE  Clamp(v, 0, hi) \in 0 .. hi
  BY DEF Clamp

LEMMA Sizes ==
    ASSUME NEW t \in Targets
    PROVE  /\ Width[t] \in Nat \ {0} /\ Height[t] \in Nat \ {0} /\ Other(t) \in Targets
           /\ Pixel(t) \in Nat \ {0} /\ Bottom(t) \in Nat /\ Width[t] - 1 \in Nat
  <1>1. Width[t] \in Nat \ {0} /\ Height[t] \in Nat \ {0} /\ Other(t) \in Targets
    BY GeometryAssumption DEF Targets, Other
  <1>2. Pixel(t) \in Nat \ {0}
    BY <1>1, GeometryAssumption DEF Pixel
  <1>3. Height[t] - 1 \in Nat
    BY <1>1
  <1>4. Bottom(t) \in Nat
    <2>1. Pixel(t) \in Nat BY <1>2
    <2> QED BY <1>3, <2>1, Product DEF Bottom
  <1>5. Width[t] - 1 \in Nat
    BY <1>1
  <1> QED BY <1>1, <1>2, <1>4, <1>5

LEMMA Expand ==
    ASSUME NEW m \in Nat, NEW n \in Nat
    PROVE  (m - 1) * n - (n - 1) * m = m - n
  BY SMT

\* Both screens are equally high: their bottom rows differ by what their pixels do.
LEMMA SameHeight ==
    Bottom("remote") - Bottom("local") = Height["remote"] - Height["local"]
  <1>1. Height["remote"] \in Nat /\ Height["local"] \in Nat
    BY GeometryAssumption DEF Targets
  <1>2. Pixel("remote") = Height["local"] /\ Pixel("local") = Height["remote"]
    BY DEF Pixel, Other
  <1>3. Bottom("remote") = (Height["remote"] - 1) * Height["local"]
        /\ Bottom("local") = (Height["local"] - 1) * Height["remote"]
    BY <1>2 DEF Bottom
  <1> QED BY <1>1, <1>3, Expand

LEMMA TruncRest ==
    ASSUME NEW n \in Int, NEW d \in Nat \ {0}
    PROVE  Trunc(n, d) \in Int /\ Abs(n - Trunc(n, d) * d) < d
  <1>1. CASE n < 0
    <2>1. -n \in Int BY <1>1
    <2>2. Trunc(n, d) = -((-n) \div d) BY <1>1 DEF Trunc
    <2>3. /\ (-n) \div d \in Int /\ d * ((-n) \div d) <= -n
          /\ -n < d * ((-n) \div d) + d
      BY <2>1, Quotient
    <2> HIDE DEF Trunc
    <2> QED BY <2>2, <2>3 DEF Abs
  <1>2. CASE ~(n < 0)
    <2>1. Trunc(n, d) = n \div d BY <1>2 DEF Trunc
    <2>2. n \div d \in Int /\ d * (n \div d) <= n /\ n < d * (n \div d) + d
      BY Quotient
    <2> QED BY <2>1, <2>2 DEF Abs
  <1> QED BY <1>1, <1>2

-----------------------------------------------------------------------------
(* The coordinates of the bridge. *)

\* Scaling rounds to the nearest step and never leaves 0 .. CanonicalMax: the clamp of the
\* code is never the one to decide.
LEMMA ScaleNearest ==
    ASSUME NEW max \in Nat, NEW v \in 0 .. max
    PROVE  Scale(v, max) \in Range /\ Nearest(Scale(v, max), v, max)
  <1>0. CanonicalMax \in Nat \ {0} BY GeometryAssumption
  <1>1. CASE max = 0
    <2>1. Scale(v, max) = 0 /\ v = 0 BY <1>1 DEF Scale
    <2> QED BY <1>0, <1>1, <2>1 DEF Range, Nearest, Abs
  <1>2. CASE max # 0
    <2> DEFINE n == 2 * v * CanonicalMax + max
               q == n \div (2 * max)
    <2>1. n \in Int /\ 2 * max \in Nat \ {0} BY <1>0, <1>2
    <2>2. q \in Int /\ (2 * max) * q <= n /\ n < (2 * max) * q + 2 * max
      BY <2>1, Quotient
    <2> HIDE DEF q
    <2>3. 0 <= v * CanonicalMax /\ v * CanonicalMax <= max * CanonicalMax
      BY <1>0
    <2>4. -1 < q
      <3> SUFFICES ASSUME q <= -1 PROVE FALSE BY <2>2
      <3>1. max * q <= max * (-1) BY <2>2
      <3> QED BY <1>0, <1>2, <2>2, <2>3, <3>1
    <2>5. q <= CanonicalMax
      <3> SUFFICES ASSUME q >= CanonicalMax + 1 PROVE FALSE BY <1>0, <2>2
      <3>1. max * q >= max * (CanonicalMax + 1) BY <1>0, <2>2
      <3> QED BY <1>0, <1>2, <2>2, <2>3, <3>1
    <2>6. Scale(v, max) = q
      BY <1>0, <1>2, <2>2, <2>4, <2>5 DEF Scale, Clamp, q
    <2>7. 2 * Abs(q * max - v * CanonicalMax) <= max
      BY <1>0, <2>2 DEF Abs
    <2> QED BY <1>0, <2>2, <2>4, <2>5, <2>6, <2>7 DEF Range, Nearest
  <1> QED BY <1>1, <1>2

\* A step of the bridge's coordinates is smaller than a column, so rounding back finds it.
LEMMA LandedExact ==
    ASSUME NEW max \in Nat, max < CanonicalMax, NEW v \in 0 .. max,
           NEW c \in Int, Nearest(c, v, max)
    PROVE  Landed(c, max) = v
  <1>0. CanonicalMax \in Nat \ {0} BY GeometryAssumption
  <1>1. CASE max = 0 BY <1>1 DEF Landed
  <1>2. CASE max # 0
    <2> DEFINE n == 2 * c * max + CanonicalMax
    <2>1. n \in Int /\ 2 * CanonicalMax \in Nat \ {0} BY <1>0
    <2>2. (2 * CanonicalMax) * v <= n /\ n < (2 * CanonicalMax) * v + 2 * CanonicalMax
      BY <1>0 DEF Nearest, Abs
    <2>3. n \div (2 * CanonicalMax) = v BY <2>1, <2>2, QuotientIs
    <2> QED BY <1>2, <2>3 DEF Landed
  <1> QED BY <1>1, <1>2

LEMMA CanonicalType ==
    ASSUME NEW s \in Spaces, s.target = "remote", OnScreen(s)
    PROVE  Canonical(s) \in Range \X Range
  <1>1. "remote" \in Targets BY DEF Targets
  <1>2. s.x \in 0 .. Width["remote"] - 1 /\ s.y \in 0 .. Bottom("remote")
    BY DEF OnScreen
  <1>3. Scale(s.x, Width["remote"] - 1) \in Range /\ Scale(s.y, Bottom("remote")) \in Range
    BY <1>1, <1>2, Sizes, ScaleNearest
  <1> QED BY <1>3 DEF Canonical

-----------------------------------------------------------------------------
(* The display space: whatever moves the cursor leaves it on a screen. *)

LEMMA SeatRange ==
    ASSUME NEW e \in Edges, NEW t \in Targets
    PROVE  Seat(e, t) \in 0 .. Width[t] - 1
  BY Sizes DEF Seat

LEMMA ApplyDeltaOnScreen ==
    ASSUME NEW s \in Spaces, OnScreen(s), NEW dx \in Int, NEW dy \in Int
    PROVE  /\ ApplyDelta(s, dx, dy) \in Spaces /\ OnScreen(ApplyDelta(s, dx, dy))
           /\ ApplyDelta(s, dx, dy).edge = s.edge
  <1> DEFINE y == Clamp(s.y + dy * Pixel(s.target), 0, Bottom(s.target))
             to == Other(s.target)
             x == Clamp(s.x + dx, 0, Width[s.target] - 1)
  <1>1. s.target \in Targets /\ to \in Targets /\ s.edge \in Edges /\ s.x \in Int /\ s.y \in Int
    BY DEF Spaces, Targets, Other
  <1>2. y \in 0 .. Bottom(s.target)
    <2>1. s.y + dy * Pixel(s.target) \in Int /\ Bottom(s.target) \in Nat BY <1>1, Sizes
    <2> QED BY <2>1, ClampRange
  <1>3. x \in 0 .. Width[s.target] - 1
    <2>1. s.x + dx \in Int /\ Width[s.target] - 1 \in Nat BY <1>1, Sizes
    <2> QED BY <2>1, ClampRange
  <1>4. MapY(to, y) \in 0 .. Bottom(to)
    <2>1. y \in Int /\ Bottom(to) \in Nat BY <1>1, <1>2, Sizes
    <2> HIDE DEF y, to
    <2> QED BY <2>1, ClampRange DEF MapY
  <1>5. Seat(s.edge, to) \in 0 .. Width[to] - 1
    BY <1>1, SeatRange
  <1>6. CASE Crosses(s, s.x + dx)
    <2>1. ApplyDelta(s, dx, dy) = [s EXCEPT !.target = to, !.x = Seat(s.edge, to), !.y = MapY(to, y)]
      BY <1>6 DEF ApplyDelta
    <2> HIDE DEF to, y, x
    <2>2. Seat(s.edge, to) \in Int /\ MapY(to, y) \in Int
      <3>1. Width[to] - 1 \in Nat /\ Bottom(to) \in Nat BY <1>1, Sizes
      <3> QED BY <1>4, <1>5, <3>1
    <2> QED BY <1>1, <1>4, <1>5, <2>1, <2>2 DEF Spaces, OnScreen
  <1>7. CASE ~Crosses(s, s.x + dx)
    <2>1. ApplyDelta(s, dx, dy) = [s EXCEPT !.x = x, !.y = y]
      BY <1>7 DEF ApplyDelta
    <2> HIDE DEF x, y, to
    <2>2. x \in Int /\ y \in Int
      <3>1. Width[s.target] - 1 \in Nat /\ Bottom(s.target) \in Nat BY <1>1, Sizes
      <3> QED BY <1>2, <1>3, <3>1
    <2> QED BY <1>1, <1>2, <1>3, <2>1, <2>2 DEF Spaces, OnScreen
  <1> QED BY <1>6, <1>7

LEMMA EnterRemoteOnScreen ==
    ASSUME NEW s \in Spaces, NEW localY \in Int
    PROVE  /\ EnterRemote(s, localY) \in Spaces /\ OnScreen(EnterRemote(s, localY))
           /\ EnterRemote(s, localY).target = "remote"
  <1> DEFINE row == Clamp(localY, 0, Height["local"] - 1)
             y == MapY("remote", row * Pixel("local"))
  <1>1. "local" \in Targets /\ "remote" \in Targets BY DEF Targets
  <1>2. row * Pixel("local") \in Int
    <2>1. Height["local"] - 1 \in Nat /\ Pixel("local") \in Int BY <1>1, Sizes
    <2>2. row \in 0 .. Height["local"] - 1 BY <2>1, ClampRange
    <2> HIDE DEF row
    <2> QED BY <2>1, <2>2
  <1>3. y \in 0 .. Bottom("remote")
    <2>1. Bottom("remote") \in Nat BY <1>1, Sizes
    <2> HIDE DEF row
    <2> QED BY <1>2, <2>1, ClampRange DEF MapY
  <1>4. Seat(s.edge, "remote") \in 0 .. Width["remote"] - 1
    BY <1>1, SeatRange DEF Spaces
  <1>5. Width["remote"] - 1 \in Nat /\ Bottom("remote") \in Nat
    BY <1>1, Sizes
  <1>6. EnterRemote(s, localY) = [s EXCEPT !.target = "remote", !.x = Seat(s.edge, "remote"), !.y = y]
    BY DEF EnterRemote
  <1> HIDE DEF y
  <1>7. Seat(s.edge, "remote") \in Int /\ y \in Int
    BY <1>3, <1>4, <1>5
  <1> QED BY <1>1, <1>3, <1>4, <1>6, <1>7 DEF Spaces, OnScreen

LEMMA ForceLocalOnScreen ==
    ASSUME NEW s \in Spaces, OnScreen(s)
    PROVE  /\ ForceLocal(s) \in Spaces /\ OnScreen(ForceLocal(s))
           /\ ForceLocal(s).target = "local"
  <1>1. CASE s.target = "remote"
    <2>1. "local" \in Targets BY DEF Targets
    <2>2. Width["local"] - 1 \in Nat /\ Bottom("local") \in Nat
      BY <2>1, Sizes
    <2>3. MapY("local", s.y) \in 0 .. Bottom("local")
      BY <2>2, ClampRange DEF MapY, Spaces
    <2>4. Seat(s.edge, "local") \in 0 .. Width["local"] - 1
      BY <2>1, SeatRange DEF Spaces
    <2>5. ForceLocal(s) = [s EXCEPT !.target = "local", !.x = Seat(s.edge, "local"), !.y = MapY("local", s.y)]
      BY <1>1 DEF ForceLocal
    <2>6. Seat(s.edge, "local") \in Int /\ MapY("local", s.y) \in Int
      BY <2>2, <2>3, <2>4
    <2> QED BY <2>1, <2>3, <2>4, <2>5, <2>6 DEF Spaces, OnScreen
  <1>2. CASE s.target # "remote"
    BY <1>2 DEF ForceLocal, Spaces, Targets
  <1> QED BY <1>1, <1>2

-----------------------------------------------------------------------------
(* The invariant. *)

LEMMA SomePos ==
    ASSUME NEW p \in Range \X Range
    PROVE  p # NoPos
  BY DEF NoPos

Inv == TypeOK /\ CaptureMatchesSpace /\ NewestKept /\ WheelKept

LEMMA Half ==
    ASSUME NEW m \in Nat, NEW n \in Nat \ {0}, m > 1
    PROVE  (m * n) \div 2 \in 0 .. (m - 1) * n
  BY SMT

LEMMA InitInv == Init => Inv
  <1> SUFFICES ASSUME Init PROVE Inv
    OBVIOUS
  <1>1. "local" \in Targets BY DEF Targets
  <1>2. PICK e \in Edges : space = [edge |-> e, target |-> "local", x |-> Width["local"] \div 2,
                                    y |-> (Height["local"] * Pixel("local")) \div 2]
    BY DEF Init
  <1>3. /\ Width["local"] \in Nat /\ Height["local"] \in Nat /\ Pixel("local") \in Nat \ {0}
        /\ Width["local"] > 1 /\ Height["local"] > 1 /\ PerDetent \in Nat \ {0}
    BY <1>1, Sizes, GeometryAssumption, PointerAssumption
  <1>4. space.x \in 0 .. Width["local"] - 1
    BY <1>2, <1>3
  <1>5. space.y \in 0 .. Bottom("local")
    BY <1>2, <1>3, Half DEF Bottom
  <1>6. space \in Spaces /\ OnScreen(space)
    <2>1. space.x \in Int /\ space.y \in Int
      BY <1>3, <1>4, <1>5 DEF Bottom
    <2> QED BY <1>1, <1>2, <1>4, <1>5, <2>1 DEF Spaces, OnScreen
  <1>7. TypeOK
    <2>1. acc \in Places /\ pendingPos = NoPos /\ told = NoPos BY DEF Init, Places
    <2>2. active \in BOOLEAN /\ cutOff \in BOOLEAN BY Zenon DEF Init
    <2> QED BY <1>6, <2>1, <2>2 DEF Init, TypeOK
  <1>8. CaptureMatchesSpace /\ NewestKept
    BY <1>2 DEF Init, CaptureMatchesSpace, NewestKept
  <1>9. WheelKept
    BY <1>3 DEF Init, WheelKept, Abs
  <1> QED BY <1>7, <1>8, <1>9 DEF Inv

\* A capture begins.
LEMMA ActivatedInv ==
    ASSUME Inv, NEW localY \in Int, Activated(localY)
    PROVE  Inv'
  <1> USE DEF Inv, TypeOK
  <1>1. space' \in Spaces /\ OnScreen(space)' /\ space'.target = "remote"
    BY EnterRemoteOnScreen DEF Activated, OnScreen
  <1>2. Canonical(space') \in Range \X Range
    BY <1>1, CanonicalType DEF OnScreen
  <1>3. TypeOK'
    <2>1. acc' \in Places /\ pendingPos' = NoPos /\ told' = Canonical(space')
      BY DEF Activated, Places
    <2>2. active' \in BOOLEAN /\ cutOff' \in BOOLEAN BY Zenon DEF Activated
    <2>3. /\ accScroll' = 0 /\ pendingWheel' = 0 /\ scrolled' = 0 /\ turned' = 0
      BY DEF Activated
    <2> QED BY <1>1, <1>2, <2>1, <2>2, <2>3
  <1>4. CaptureMatchesSpace' /\ NewestKept'
    BY <1>1 DEF Activated, CaptureMatchesSpace, NewestKept, Canonical
  <1>5. WheelKept'
    BY PointerAssumption DEF Activated, WheelKept, Abs
  <1> QED BY <1>3, <1>4, <1>5

\* A capture ends, by a crossing or by go_local.
LEMMA GoLocalInv ==
    ASSUME Inv, NEW s \in Spaces, OnScreen(s), GoLocal(s),
           Silent, UNCHANGED ghosts, acc' \in Places
    PROVE  Inv'
  <1> USE DEF Inv, TypeOK
  <1>1. space' \in Spaces /\ OnScreen(space)' /\ space'.target = "local"
    BY ForceLocalOnScreen DEF GoLocal, OnScreen
  <1>2. TypeOK'
    <2>1. active' \in BOOLEAN BY Zenon DEF GoLocal
    <2> QED BY <1>1, <2>1 DEF GoLocal, Silent, ghosts
  <1>3. CaptureMatchesSpace' /\ NewestKept'
    BY <1>1 DEF GoLocal, CaptureMatchesSpace, NewestKept
  <1>4. WheelKept'
    BY DEF GoLocal, WheelKept, Abs
  <1> QED BY <1>2, <1>3, <1>4

LEMMA FrameInv ==
    ASSUME Inv, Frame
    PROVE  Inv'
  <1> USE DEF Inv, TypeOK
  <1> DEFINE s == ApplyDelta(space, acc[1], acc[2])
  <1>1. s \in Spaces /\ OnScreen(s)
    BY ApplyDeltaOnScreen DEF Places
  <1>2. acc' \in Places /\ Silent /\ UNCHANGED ghosts
    BY DEF Frame, Places
  <1>3. CASE s.target = "local"
    <2>1. GoLocal(s) BY <1>3 DEF Frame
    <2> HIDE DEF s
    <2> QED BY <1>1, <1>2, <2>1, GoLocalInv
  <1>4. CASE s.target # "local"
    <2>1. space' = s /\ pendingPos' = Canonical(s) /\ UNCHANGED <<active, pendingWheel, accScroll>>
      BY <1>4 DEF Frame
    <2> HIDE DEF s
    <2>2. s.target = "remote" BY <1>1, <1>4 DEF Spaces, Targets
    <2>3. Canonical(s) \in Range \X Range BY <1>1, <2>2, CanonicalType
    <2>4. active BY DEF Frame
    <2>5. TypeOK'
      BY <1>1, <1>2, <2>1, <2>3 DEF Silent, ghosts, OnScreen
    <2>6. CaptureMatchesSpace'
      BY <2>1, <2>2, <2>4 DEF CaptureMatchesSpace
    <2>7. NewestKept'
      BY <2>1, <2>3, SomePos DEF NewestKept, Canonical
    <2>8. WheelKept'
      BY <1>2, <2>1 DEF WheelKept, Abs, ghosts
    <2> QED BY <2>5, <2>6, <2>7, <2>8
  <1> QED BY <1>3, <1>4

LEMMA EndsInv ==
    ASSUME Inv, Ends
    PROVE  Inv'
  <1>1. /\ space \in Spaces /\ OnScreen(space) /\ GoLocal(space)
        /\ Silent /\ UNCHANGED ghosts /\ acc' \in Places
    BY DEF Inv, TypeOK, Ends
  <1> QED BY <1>1, GoLocalInv

LEMMA ClickInv ==
    ASSUME Inv, Click
    PROVE  Inv'
  <1> USE DEF Inv, TypeOK, Click
  <1>1. TypeOK'
    BY DEF ghosts, OnScreen
  <1>2. CaptureMatchesSpace'
    BY DEF CaptureMatchesSpace
  <1>3. NewestKept'
    BY DEF NewestKept, Canonical
  <1>4. WheelKept'
    BY DEF WheelKept, Abs, ghosts
  <1> QED BY <1>1, <1>2, <1>3, <1>4

LEMMA MotionInv ==
    ASSUME Inv, NEW dx \in Int, NEW dy \in Int, Motion(dx, dy)
    PROVE  Inv'
  <1> USE DEF Inv, TypeOK, Motion, Silent
  <1>1. TypeOK'
    BY DEF ghosts, OnScreen, Places
  <1>2. CaptureMatchesSpace' /\ NewestKept'
    BY DEF CaptureMatchesSpace, NewestKept, Canonical
  <1>3. WheelKept'
    BY DEF WheelKept, Abs, ghosts
  <1> QED BY <1>1, <1>2, <1>3

LEMMA ScrollDeltaInv ==
    ASSUME Inv, NEW dy \in Int, ScrollDelta(dy)
    PROVE  Inv'
  <1> USE DEF Inv, TypeOK, Silent
  <1> DEFINE total == accScroll + dy
             clicks == Trunc(total, PerDetent)
  <1>0. PerDetent \in Nat \ {0} BY PointerAssumption
  <1>1. clicks \in Int /\ Abs(total - clicks * PerDetent) < PerDetent
    <2>1. total \in Int OBVIOUS
    <2> HIDE DEF total
    <2> QED BY <1>0, <2>1, TruncRest
  <1>2. /\ accScroll' = total - clicks * PerDetent /\ pendingWheel' = pendingWheel - clicks
        /\ scrolled' = scrolled + dy
        /\ UNCHANGED <<space, active, acc, pendingPos, turned, cutOff, told>>
    BY DEF ScrollDelta
  <1> HIDE DEF clicks
  <1>3. TypeOK'
    BY <1>0, <1>1, <1>2 DEF OnScreen
  <1>4. CaptureMatchesSpace' /\ NewestKept'
    BY <1>2 DEF CaptureMatchesSpace, NewestKept, Canonical
  <1>5. Abs(accScroll') < PerDetent
    BY <1>1, <1>2
  <1>6. ASSUME active', ~cutOff' PROVE scrolled' = accScroll' - PerDetent * (pendingWheel' + turned')
    <2>1. scrolled = accScroll - PerDetent * (pendingWheel + turned)
      BY <1>2, <1>6 DEF WheelKept
    <2> QED BY <1>0, <1>1, <1>2, <2>1
  <1>7. WheelKept' BY <1>5, <1>6 DEF WheelKept, Abs
  <1> QED BY <1>3, <1>4, <1>7

LEMMA ScrollDiscreteInv ==
    ASSUME Inv, NEW y \in Int, ScrollDiscrete(y)
    PROVE  Inv'
  <1> USE DEF Inv, TypeOK, Silent
  <1>0. PerDetent \in Nat \ {0} /\ Fine \in Nat \ {0} BY PointerAssumption
  <1>1. Detents(y) \in Int
    BY <1>0, TruncRest DEF Detents
  <1>2. /\ pendingWheel' = pendingWheel - Detents(y)
        /\ scrolled' = scrolled + Detents(y) * PerDetent
        /\ UNCHANGED <<space, active, acc, accScroll, pendingPos, turned, cutOff, told>>
    BY DEF ScrollDiscrete
  <1>3. TypeOK'
    BY <1>0, <1>1, <1>2 DEF OnScreen
  <1>4. CaptureMatchesSpace' /\ NewestKept'
    BY <1>2 DEF CaptureMatchesSpace, NewestKept, Canonical
  <1>5. ASSUME active', ~cutOff' PROVE scrolled' = accScroll' - PerDetent * (pendingWheel' + turned')
    <2>1. scrolled = accScroll - PerDetent * (pendingWheel + turned)
      BY <1>2, <1>5 DEF WheelKept
    <2> QED BY <1>0, <1>1, <1>2, <2>1
  <1>6. WheelKept' BY <1>2, <1>5 DEF WheelKept, Abs
  <1> QED BY <1>3, <1>4, <1>6

LEMMA FlushInv ==
    ASSUME Inv, Flush
    PROVE  Inv'
  <1> USE DEF Inv, TypeOK, Flush
  <1>0. PerDetent \in Nat \ {0} /\ MaxWheel \in Nat BY PointerAssumption
  <1>1. Report \in Int
    BY <1>0 DEF Report, Clamp
  <1>2. TypeOK'
    BY <1>1 DEF OnScreen
  <1>3. CaptureMatchesSpace' /\ NewestKept'
    BY DEF CaptureMatchesSpace, NewestKept, Canonical
  <1>4. ASSUME active', ~cutOff' PROVE scrolled' = accScroll' - PerDetent * (pendingWheel' + turned')
    <2>1. scrolled = accScroll - PerDetent * (pendingWheel + turned)
      BY <1>4 DEF WheelKept
    <2>2. turned' = turned + pendingWheel /\ pendingWheel' = 0 /\ UNCHANGED <<scrolled, accScroll>>
      BY <1>4
    <2>3. /\ accScroll \in Int /\ pendingWheel \in Int /\ turned \in Int
          /\ pendingWheel' + turned' = pendingWheel + turned
      BY <2>2
    <2> HIDE DEF Flush, TypeOK, Inv
    <2> QED BY <2>1, <2>2, <2>3
  <1>5. WheelKept' BY <1>4 DEF WheelKept, Abs
  <1> QED BY <1>2, <1>3, <1>5

LEMMA StutterInv == Inv /\ UNCHANGED vars => Inv'
  BY DEF Inv, TypeOK, CaptureMatchesSpace, NewestKept, WheelKept, OnScreen, Canonical, Abs,
         vars, coalesced, ghosts

LEMMA NextInv == Inv /\ [Next]_vars => Inv'
  <1> SUFFICES ASSUME Inv, [Next]_vars PROVE Inv'
    OBVIOUS
  <1>1. ASSUME NEW y \in LocalYs, Activated(y) PROVE Inv'
    BY <1>1, ActivatedInv, PointerAssumption
  <1>2. ASSUME NEW d \in Deltas, Motion(d, 0) \/ Motion(0, d) PROVE Inv'
    BY <1>2, MotionInv, PointerAssumption
  <1>3. ASSUME NEW d \in Scrolls, ScrollDelta(d) PROVE Inv'
    BY <1>3, ScrollDeltaInv, PointerAssumption
  <1>4. ASSUME NEW y \in Clicks, ScrollDiscrete(y) PROVE Inv'
    BY <1>4, ScrollDiscreteInv, PointerAssumption
  <1> QED BY <1>1, <1>2, <1>3, <1>4, ClickInv, FrameInv, EndsInv, FlushInv, StutterInv DEF Next

LEMMA Invariant == Spec => []Inv
  BY InitInv, NextInv, PTL DEF Spec

-----------------------------------------------------------------------------
(* What follows. *)

\* The cursor never leaves the screen it is on, and no coordinate the 16 bits of the protocol.
THEOREM TypeCorrect == Spec => []TypeOK
  <1>1. Inv => TypeOK BY DEF Inv
  <1> QED BY <1>1, Invariant, PTL

\* The router holds a capture exactly while the model's cursor is on the remote screen.
THEOREM CaptureHonest == Spec => []CaptureMatchesSpace
  <1>1. Inv => CaptureMatchesSpace BY DEF Inv
  <1> QED BY <1>1, Invariant, PTL

\* However motion is coalesced, the position that waits or went out last is the newest.
THEOREM NoPositionLost == Spec => []NewestKept
  <1>1. Inv => NewestKept BY DEF Inv
  <1> QED BY <1>1, Invariant, PTL

\* However scrolling is cut into events, what is delivered adds up, save for a report cut off.
THEOREM ScrollingAddsUp == Spec => []WheelKept
  <1>1. Inv => WheelKept BY DEF Inv
  <1> QED BY <1>1, Invariant, PTL

\* On a remote screen no wider than the 65535 steps of the protocol, every column is reached,
\* and any place to within half a step.
THEOREM LandsExactly == Width["remote"] <= CanonicalMax => (Spec => []Landing)
  <1> SUFFICES ASSUME Width["remote"] <= CanonicalMax PROVE Spec => []Landing
    OBVIOUS
  <1>1. Inv => Landing
    <2> SUFFICES ASSUME Inv, active PROVE /\ Nearest(Canonical(space)[1], space.x, Width["remote"] - 1)
                                          /\ Nearest(Canonical(space)[2], space.y, Bottom("remote"))
                                          /\ Landed(Canonical(space)[1], Width["remote"] - 1) = space.x
      BY DEF Landing
    <2> DEFINE wide == Width["remote"] - 1
               cx == Scale(space.x, wide)
               cy == Scale(space.y, Bottom("remote"))
    <2>1. "remote" \in Targets BY DEF Targets
    <2>2. space.target = "remote" BY DEF Inv, CaptureMatchesSpace
    <2>3. space.x \in 0 .. wide /\ space.y \in 0 .. Bottom("remote")
      BY <2>2 DEF Inv, TypeOK, OnScreen
    <2>4. wide \in Nat /\ wide < CanonicalMax /\ Bottom("remote") \in Nat
      BY <2>1, Sizes, GeometryAssumption
    <2>5. Canonical(space) = <<cx, cy>> BY DEF Canonical
    <2> HIDE DEF wide
    <2>6. cx \in Range /\ Nearest(cx, space.x, wide) /\ Nearest(cy, space.y, Bottom("remote"))
      BY <2>3, <2>4, ScaleNearest
    <2>7. Landed(cx, wide) = space.x
      <3>1. cx \in Int BY <2>6, GeometryAssumption DEF Range
      <3> HIDE DEF cx
      <3> QED BY <2>3, <2>4, <2>6, <3>1, LandedExact
    <2> QED BY <2>5, <2>6, <2>7 DEF wide
  <1> QED BY <1>1, Invariant, PTL

LEMMA Joined ==
    ASSUME NEW a, NEW b
    PROVE  /\ DOMAIN (<<a>> \o <<b>>) = 1 .. 2
           /\ (<<a>> \o <<b>>)[1] = a /\ (<<a>> \o <<b>>)[2] = b
  OBVIOUS

Clicked == \A i \in DOMAIN out' : out'[i].t # "pos" => At(i) = Canonical(space)

\* A button or a wheel report finds the cursor where it is: the coalesced position precedes it.
THEOREM ClicksLand == Spec => ActsAtNewest
  <1>1. Inv /\ [Next]_vars => [Clicked]_vars
    <2> SUFFICES ASSUME Inv, Next PROVE Clicked
      OBVIOUS
    <2>1. CASE out' = << >>
      BY <2>1 DEF Clicked
    <2>2. ASSUME NEW p, out' = <<Pos(p)>> PROVE Clicked
      BY <2>2 DEF Clicked, Pos
    <2>3. ASSUME NEW k, active, pendingPos = NoPos, out' = <<Act(k)>> PROVE Clicked
      BY <2>3 DEF Clicked, Act, At, Inv, NewestKept
    <2>4. ASSUME NEW k, active, pendingPos # NoPos,
                 DOMAIN out' = 1 .. 2, out'[1] = Pos(pendingPos), out'[2] = Act(k)
          PROVE  Clicked
      BY <2>4 DEF Clicked, Act, Pos, At, Inv, NewestKept
    <2>5. ASSUME NEW y \in LocalYs, Activated(y) PROVE Clicked
      BY <2>2, <2>5 DEF Activated
    <2>6. CASE Click
      BY <2>3, <2>4, <2>6 DEF Click
    <2>7. CASE Flush
      <3>1. CASE pendingPos = NoPos
        BY <2>3, <2>7, <3>1 DEF Flush, Positions, Wheel
      <3>2. CASE pendingPos # NoPos /\ pendingWheel = 0
        BY <2>2, <2>7, <3>2 DEF Flush, Positions, Wheel
      <3>3. CASE pendingPos # NoPos /\ pendingWheel # 0
        <4>1. out' = <<Pos(pendingPos)>> \o <<Act("wheel")>>
          BY <2>7, <3>3 DEF Flush, Positions, Wheel
        <4>2. DOMAIN out' = 1 .. 2 /\ out'[1] = Pos(pendingPos) /\ out'[2] = Act("wheel")
          BY <4>1, Joined
        <4> QED BY <2>4, <2>7, <3>3, <4>2 DEF Flush
      <3> QED BY <3>1, <3>2, <3>3
    <2>8. ASSUME NEW d \in Deltas, Motion(d, 0) \/ Motion(0, d) PROVE Clicked
      BY <2>1, <2>8 DEF Motion, Silent
    <2>9. ASSUME NEW d \in Scrolls, ScrollDelta(d) PROVE Clicked
      BY <2>1, <2>9 DEF ScrollDelta, Silent
    <2>10. ASSUME NEW y \in Clicks, ScrollDiscrete(y) PROVE Clicked
      BY <2>1, <2>10 DEF ScrollDiscrete, Silent
    <2>11. CASE Frame \/ Ends
      BY <2>1, <2>11 DEF Frame, Ends, Silent
    <2> QED BY <2>5, <2>6, <2>7, <2>8, <2>9, <2>10, <2>11 DEF Next
  <1> QED BY <1>1, Invariant, PTL DEF Spec, ActsAtNewest, Clicked

Leaves == active /\ ~active' => /\ space'.x = Seat(space.edge, "local")
                               /\ Abs(space'.y - Moved) < Pixel("local")

\* Clamping a height to the other screen moves it by less than a pixel of that screen.
LEMMA MapNear ==
    ASSUME NEW y \in 0 .. Bottom("remote")
    PROVE  Abs(MapY("local", y) - y) < Pixel("local")
  <1>1. "local" \in Targets /\ "remote" \in Targets BY DEF Targets
  <1>2. /\ Height["remote"] \in Nat \ {0} /\ Height["local"] \in Nat \ {0}
        /\ Bottom("local") \in Nat /\ Bottom("remote") \in Nat
    BY <1>1, Sizes
  <1>3. Pixel("local") = Height["remote"] BY DEF Pixel, Other
  <1>4. Bottom("remote") - Bottom("local") < Height["remote"]
    BY <1>2, SameHeight
  <1> QED BY <1>2, <1>3, <1>4 DEF MapY, Clamp, Abs

\* Whatever ends a capture, the cursor is back on the shared edge at the height it had.
THEOREM LeavesLevel == Spec => Level
  <1>1. Inv /\ [Next]_vars => [Leaves]_vars
    <2> SUFFICES ASSUME Inv, Next, active, ~active' PROVE Leaves
      BY DEF Leaves
    <2>1. /\ space \in Spaces /\ OnScreen(space) /\ space.target = "remote" /\ acc \in Int \X Int
          /\ "remote" \in Targets /\ "local" \in Targets /\ Other("remote") = "local"
      BY DEF Inv, TypeOK, CaptureMatchesSpace, Places, Targets, Other
    <2>2. /\ Pixel("remote") \in Int /\ Bottom("remote") \in Nat /\ space.y \in 0 .. Bottom("remote")
          /\ space.edge \in Edges
      BY <2>1, Sizes DEF OnScreen, Spaces
    <2>3. CASE Frame
      <3> DEFINE y == Clamp(space.y + acc[2] * Pixel("remote"), 0, Bottom("remote"))
                 s == ApplyDelta(space, acc[1], acc[2])
      <3>1. s.target = "local" /\ acc' = <<0, 0>> /\ space' = ForceLocal(s)
        BY <2>3 DEF Frame, GoLocal
      <3>2. s = [space EXCEPT !.target = "local", !.x = Seat(space.edge, "local"), !.y = MapY("local", y)]
        BY <2>1, <3>1 DEF ApplyDelta, Spaces
      <3>3. space' = s BY <3>1 DEF ForceLocal
      <3> HIDE DEF s
      <3>4. space'.x = Seat(space.edge, "local") /\ space'.y = MapY("local", y)
        BY <2>1, <3>2, <3>3 DEF Spaces
      <3>5. y \in 0 .. Bottom("remote")
        <4>1. space.y + acc[2] * Pixel("remote") \in Int BY <2>1, <2>2
        <4> QED BY <2>2, <4>1, ClampRange
      <3>6. Moved = y
        BY <2>1, <3>1 DEF Moved
      <3> HIDE DEF y
      <3> QED BY <3>4, <3>5, <3>6, MapNear DEF Leaves
    <2>4. CASE Ends
      <3>1. acc' = acc /\ space' = ForceLocal(space)
        BY <2>4 DEF Ends, GoLocal
      <3>2. Moved = space.y
        <4>1. acc[2] \in Int /\ acc[2] - acc'[2] = 0 BY <2>1, <3>1
        <4>2. space.y + 0 * Pixel("remote") = space.y BY <2>2
        <4> QED BY <2>2, <4>1, <4>2 DEF Moved, Clamp
      <3>3. space'.x = Seat(space.edge, "local") /\ space'.y = MapY("local", space.y)
        BY <2>1, <3>1 DEF ForceLocal, Spaces
      <3> QED BY <2>2, <3>2, <3>3, MapNear DEF Leaves
    <2>5. ~(\E y \in LocalYs : Activated(y)) /\ ~Click /\ ~Flush
      BY DEF Activated, Click, Flush
    <2>6. ~(\E d \in Deltas : Motion(d, 0) \/ Motion(0, d))
      BY DEF Motion
    <2>7. ~(\E d \in Scrolls : ScrollDelta(d)) /\ ~(\E y \in Clicks : ScrollDiscrete(y))
      BY DEF ScrollDelta, ScrollDiscrete
    <2> QED BY <2>3, <2>4, <2>5, <2>6, <2>7 DEF Next
  <1> QED BY <1>1, Invariant, PTL DEF Spec, Level, Leaves
===========================================================================
