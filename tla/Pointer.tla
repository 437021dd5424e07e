------------------------------ MODULE Pointer ------------------------------
(***************************************************************************)
(* The router's pointer path (router.rs): captured motion moves the cursor *)
(* of module Geometry, and positions and wheel detents are coalesced until *)
(* the throttle lets them out to the bridge.  The rest of the router's     *)
(* loop is module Router's, where every frame of this module is a write    *)
(* with no content; here every write succeeds.                             *)
(***************************************************************************)
EXTENDS Geometry, Sequences

CONSTANTS Deltas,     \* relative motion, pixels, of one event, along either axis
          LocalYs,    \* where the compositor may report an activation
          Scrolls,    \* continuous scrolling of one event
          Clicks,     \* discrete scrolling of one event
          PerDetent,  \* continuous units of a detent: 15 in the code
          Fine,       \* what a compositor may count a detent in: 120 in the code
          MaxWheel,   \* most detents of a report: 127 in the code
          MaxAcc,     \* most motion between two frames (bound)
          MaxTurned   \* most scrolling in an activation (bound)

ASSUME PointerAssumption ==
    /\ Deltas \subseteq Int /\ LocalYs \subseteq Int /\ Scrolls \subseteq Int /\ Clicks \subseteq Int
    /\ PerDetent \in Nat \ {0} /\ Fine \in Nat \ {0} /\ MaxWheel \in Nat
    /\ MaxAcc \in Nat /\ MaxTurned \in Nat

VARIABLES space, active,
          acc,        \* acc_dx, acc_dy
          accScroll,
          pendingPos, pendingWheel,
          out,        \* ghost: the frames written in the last step
          told,       \* ghost: the position the bridge was told last
          scrolled,   \* ghost: what was scrolled in this activation, continuous units
          turned,     \* ghost: the detents delivered in it
          cutOff      \* ghost: a report in it could not hold them all
coalesced == <<acc, accScroll, pendingPos, pendingWheel>>
ghosts == <<scrolled, turned, cutOff>>
vars == <<space, active, coalesced, out, told, ghosts>>

NoPos == << >>
Pos(p) == [t |-> "pos", at |-> p]
Act(kind) == [t |-> kind]

Init == /\ \E e \in Edges : space = [edge |-> e, target |-> "local",
                                     x |-> Width["local"] \div 2,
                                     y |-> (Height["local"] * Pixel("local")) \div 2]
        /\ active = FALSE /\ acc = <<0, 0>> /\ accScroll = 0
        /\ pendingPos = NoPos /\ pendingWheel = 0
        /\ out = << >> /\ told = NoPos /\ scrolled = 0 /\ turned = 0 /\ cutOff = FALSE
-----------------------------------------------------------------------------
Silent == out' = << >> /\ UNCHANGED told

\* A capture begins: positions and wheel of the one before are forgotten.
Activated(localY) ==
    /\ active' = TRUE /\ space' = EnterRemote(space, localY)
    /\ acc' = <<0, 0>> /\ accScroll' = 0 /\ pendingPos' = NoPos /\ pendingWheel' = 0
    /\ told' = Canonical(space') /\ out' = <<Pos(told')>>
    /\ scrolled' = 0 /\ turned' = 0 /\ cutOff' = FALSE

\* Mutant: a click waits for nothing
ClickAtOnce == /\ active /\ out' = <<Act("button")>>
               /\ UNCHANGED <<space, active, coalesced, told, ghosts>>
\* A button: the coalesced position goes out first.
Click == /\ active
         /\ IF pendingPos = NoPos THEN UNCHANGED told /\ out' = <<Act("button")>>
            ELSE told' = pendingPos /\ out' = <<Pos(pendingPos), Act("button")>>
         /\ pendingPos' = NoPos
         /\ UNCHANGED <<space, active, acc, accScroll, pendingWheel, ghosts>>

Within(v) == v \in -MaxAcc .. MaxAcc
Motion(dx, dy) == /\ active /\ Within(acc[1] + dx) /\ Within(acc[2] + dy)
                  /\ acc' = <<acc[1] + dx, acc[2] + dy>>
                  /\ Silent /\ UNCHANGED <<space, active, accScroll, pendingPos, pendingWheel, ghosts>>

\* go_local, and the top of the loop, which drops what is coalesced when nothing is captured
GoLocal(s) == /\ space' = ForceLocal(s) /\ active' = FALSE
              /\ pendingPos' = NoPos /\ pendingWheel' = 0 /\ UNCHANGED accScroll

\* Mutant: the crossing back does not give the capture back
FrameKeepsCapture == /\ active /\ acc # <<0, 0>> /\ acc' = <<0, 0>>
                     /\ space' = ApplyDelta(space, acc[1], acc[2])
                     /\ pendingPos' = Canonical(space') /\ UNCHANGED <<active, pendingWheel, accScroll>>
                     /\ Silent /\ UNCHANGED ghosts
\* Mutant: a position that waits is not replaced by a newer one
FrameKeepsPos == /\ active /\ acc # <<0, 0>> /\ acc' = <<0, 0>>
                 /\ LET s == ApplyDelta(space, acc[1], acc[2])
                    IN IF s.target = "local" THEN GoLocal(s)
                       ELSE /\ space' = s
                            /\ pendingPos' = IF pendingPos = NoPos THEN Canonical(s) ELSE pendingPos
                            /\ UNCHANGED <<active, pendingWheel, accScroll>>
                 /\ Silent /\ UNCHANGED ghosts
Frame == /\ active /\ acc # <<0, 0>> /\ acc' = <<0, 0>>
         /\ LET s == ApplyDelta(space, acc[1], acc[2])
            IN IF s.target = "local" THEN GoLocal(s)
               ELSE /\ space' = s /\ pendingPos' = Canonical(s)
                    /\ UNCHANGED <<active, pendingWheel, accScroll>>
         /\ Silent /\ UNCHANGED ghosts

\* Deactivated, disabled, locked, no bridge, the emergency combination, the failsafe
Ends == /\ active /\ GoLocal(space) /\ Silent /\ UNCHANGED <<acc, ghosts>>

\* Division that truncates toward 0
Trunc(n, d) == IF n < 0 THEN -((-n) \div d) ELSE n \div d
Abs(n) == IF n < 0 THEN -n ELSE n

\* Mutant: the rest of a detent is forgotten with the detent
ScrollForgets(dy) ==
    LET total == accScroll + dy
        clicks == Trunc(total, PerDetent)
    IN /\ active /\ Abs(scrolled + dy) <= MaxTurned
       /\ accScroll' = (IF clicks = 0 THEN total ELSE 0) /\ pendingWheel' = pendingWheel - clicks
       /\ scrolled' = scrolled + dy
       /\ Silent /\ UNCHANGED <<space, active, acc, pendingPos, turned, cutOff>>
ScrollDelta(dy) ==
    LET total == accScroll + dy
        clicks == Trunc(total, PerDetent)
    IN /\ active /\ Abs(scrolled + dy) <= MaxTurned
       /\ accScroll' = total - clicks * PerDetent /\ pendingWheel' = pendingWheel - clicks
       /\ scrolled' = scrolled + dy
       /\ Silent /\ UNCHANGED <<space, active, acc, pendingPos, turned, cutOff>>

\* 120ths of a detent, or detents from a compositor that sends those
Detents(y) == IF Abs(y) >= Fine THEN Trunc(y, Fine) ELSE y
ScrollDiscrete(y) ==
    /\ active /\ Abs(scrolled + Detents(y) * PerDetent) <= MaxTurned
    /\ pendingWheel' = pendingWheel - Detents(y)
    /\ scrolled' = scrolled + Detents(y) * PerDetent
    /\ Silent /\ UNCHANGED <<space, active, acc, accScroll, pendingPos, turned, cutOff>>

Positions == IF pendingPos = NoPos THEN << >> ELSE <<Pos(pendingPos)>>
Report == Clamp(pendingWheel, -MaxWheel, MaxWheel)
Wheel == IF pendingWheel = 0 THEN << >> ELSE <<Act("wheel")>>
\* The throttle is open: the position goes out, then the wheel, cut off at what a report holds.
Flush == /\ active /\ (pendingPos # NoPos \/ pendingWheel # 0)
         /\ out' = Positions \o Wheel
         /\ told' = IF pendingPos = NoPos THEN told ELSE pendingPos
         /\ pendingPos' = NoPos /\ pendingWheel' = 0
         /\ cutOff' = (cutOff \/ Report # pendingWheel)
         /\ turned' = IF cutOff' THEN 0 ELSE turned + Report
         /\ UNCHANGED <<space, active, acc, accScroll, scrolled>>
-----------------------------------------------------------------------------
Next == \/ \E y \in LocalYs : Activated(y)
        \/ \E d \in Deltas : Motion(d, 0) \/ Motion(0, d)
        \/ \E d \in Scrolls : ScrollDelta(d)
        \/ \E y \in Clicks : ScrollDiscrete(y)
        \/ Click \/ Frame \/ Ends \/ Flush
Spec == Init /\ [][Next]_vars
-----------------------------------------------------------------------------
(* Properties *)

Places == Int \X Int

\* The type invariant; the cursor is on the screen it is said to be on, and what goes to the
\* bridge fits its 16 bits.
OnScreen(s) == s.x \in 0 .. Width[s.target] - 1 /\ s.y \in 0 .. Bottom(s.target)
Range == 0 .. CanonicalMax
TypeOK == /\ space \in Spaces /\ OnScreen(space) /\ active \in BOOLEAN
          /\ acc \in Places /\ accScroll \in Int /\ pendingWheel \in Int
          /\ {pendingPos, told} \subseteq (Range \X Range) \cup {NoPos}
          /\ scrolled \in Int /\ turned \in Int /\ cutOff \in BOOLEAN

\* The model's cursor is on the remote screen exactly while input is captured: active_id and
\* Space.target are set in different places and never apart.
CaptureMatchesSpace == active <=> space.target = "remote"

\* Coalescing loses no final position: the newest of those that wait, or else the last one
\* sent, is where the cursor is.
NewestKept == active => Canonical(space) = IF pendingPos = NoPos THEN told ELSE pendingPos

\* "Clicks must land at the newest position" (router.rs:517), and so must the wheel.
At(i) == IF i > 1 /\ out'[i - 1].t = "pos" THEN out'[i - 1].at ELSE told
ActsAtNewest == [][ \A i \in DOMAIN out' : out'[i].t # "pos" => At(i) = Canonical(space) ]_vars

\* Scrolling is neither lost nor made up: what was scrolled is delivered, waits or is less than
\* a detent, while the capture lasts and no report is cut off.
WheelKept == /\ Abs(accScroll) < PerDetent
             /\ active /\ ~cutOff => scrolled = accScroll - PerDetent * (pendingWheel + turned)

\* The target's pixel for a canonical coordinate, rounded as Windows does
Landed(c, max) == IF max = 0 THEN 0 ELSE (2 * c * max + CanonicalMax) \div (2 * CanonicalMax)
Nearest(c, v, max) == 2 * Abs(c * max - v * CanonicalMax) <= max
\* The cursor lands within half a step of where the model has it, and on the very column: every
\* column of the remote screen can be reached, the last one included.
Landing == active => LET c == Canonical(space)
                     IN /\ Nearest(c[1], space.x, Width["remote"] - 1)
                        /\ Nearest(c[2], space.y, Bottom("remote"))
                        /\ Landed(c[1], Width["remote"] - 1) = space.x

\* A capture that ends leaves the cursor on the shared edge, as high as it was on the remote
\* screen to within a pixel, whatever the two heights.
Moved == Clamp(space.y + (acc[2] - acc'[2]) * Pixel("remote"), 0, Bottom("remote"))
Level == [][ active /\ ~active' => /\ space'.x = Seat(space.edge, "local")
                                  /\ Abs(space'.y - Moved) < Pixel("local") ]_vars
===========================================================================
