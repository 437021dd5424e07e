--------------------------- MODULE BridgeProofs ---------------------------
(***************************************************************************)
(* Machine-checked facts about the bridge daemon, for every number of      *)
(* connections, keys, buttons and report slots and every frame sequence.   *)
(***************************************************************************)
EXTENDS Bridge, TLAPS

USE DEF attached

-----------------------------------------------------------------------------
(* The data a frame carries, by its type. *)

LEMMA FrameData ==
    ASSUME NEW f \in AllFrames
    PROVE  /\ f.t \in {"down", "up"} => f.usage \in Usages
           /\ f.t = "state" => f.mods \in SUBSET Mods /\ f.keys \in [Slots -> Keys \cup {NoKey}]
           /\ f.t = "abs" => f.pos \in Coord
  BY DEF AllFrames

\* The frame at the head of the accumulator is one of the protocol's frames.
LEMMA HeadIsFrame ==
    ASSUME TypeOK, Parsing
    PROVE  Frame \in AllFrames /\ Tail(buf) \in Seq(Frames)
  BY BridgeAssumption DEF TypeOK, Parsing, Frame

LEMMA HeldIsUsages ==
    ASSUME NEW h \in HidStates
    PROVE  Held(h) \subseteq Usages
  BY DEF HidStates, Held, KeysIn, Usages

\* A keyboard report keeps the two records well formed.
LEMMA FlushKbdType ==
    ASSUME TypeOK, NEW h \in HidStates, FlushKbd(h)
    PROVE  hid' \in HidStates /\ target' \in TargetStates
  BY HeldIsUsages DEF TypeOK, FlushKbd, HidStates, TargetStates

\* So does a pointer report: half a coordinate is a coordinate.
LEMMA FlushPtrType ==
    ASSUME TypeOK, NEW h \in HidStates, NEW wheel \in BOOLEAN, FlushPtr(h, wheel)
    PROVE  hid' \in HidStates /\ target' \in TargetStates
  <1>1. h.pos \div 2 \in Coord
    BY BridgeAssumption DEF HidStates, Coord
  <1>2. hid' \in HidStates
    BY DEF TypeOK, FlushPtr, HidStates
  <1>3. target' \in TargetStates
    BY <1>1 DEF TypeOK, FlushPtr, HidStates, TargetStates
  <1> QED BY <1>2, <1>3

LEMMA PressType ==
    ASSUME NEW h \in HidStates, NEW u \in Usages
    PROVE  Press(h, u) \in HidStates
  <1>1. CASE u \in Mods
    BY <1>1 DEF Press, HidStates
  <1>2. CASE u \notin Mods
    <2> DEFINE free == {s \in Slots : h.keys[s] = NoKey}
               slot == CHOOSE s \in free : \A r \in free : s <= r
    <2>1. u \in Keys BY <1>2 DEF Usages
    <2>2. [h.keys EXCEPT ![slot] = u] \in [Slots -> Keys \cup {NoKey}]
      <3> HIDE DEF slot
      <3> QED BY <2>1 DEF HidStates
    <2>3. Press(h, u) = [h EXCEPT !.keys = [h.keys EXCEPT ![slot] = u]]
      BY <1>2 DEF Press
    <2> HIDE DEF slot
    <2> QED BY <2>2, <2>3 DEF HidStates
  <1> QED BY <1>1, <1>2

LEMMA ReleaseType ==
    ASSUME NEW h \in HidStates, NEW u \in Usages
    PROVE  Release(h, u) \in HidStates
  BY DEF Release, HidStates

LEMMA ClearTypes == ClearHid \in HidStates /\ Released \in TargetStates /\ Center \in Coord
  <1>1. Center \in Coord /\ Center \div 2 \in Coord
    BY BridgeAssumption DEF Center, Coord
  <1> QED BY <1>1 DEF ClearHid, Released, HidStates, TargetStates
-----------------------------------------------------------------------------
(* Type correctness. *)

LEMMA TypeInit == Init => TypeOK
  <1> SUFFICES ASSUME Init PROVE TypeOK OBVIOUS
  <1>1. hid \in HidStates /\ target \in TargetStates /\ newest \in Coord
    BY ClearTypes DEF Init
  <1>2. idle \in 0..(Heartbeat + 1) /\ backlog \in Seq(Conns) /\ buf \in Seq(Frames)
    BY BridgeAssumption DEF Init
  <1>3. peer \in [Conns -> {"none", "up", "closed", "reset", "gone"}]
    BY DEF Init
  <1> QED BY <1>1, <1>2, <1>3 DEF Init, TypeOK

LEMMA FreshType ==
    ASSUME FreshSession
    PROVE  /\ buf' \in Seq(Frames) /\ partial' \in BOOLEAN /\ greeted' \in BOOLEAN
           /\ pending' \in Coord \cup {NoPos} /\ idle' \in 0..(Heartbeat + 1)
  <1>1. buf' \in Seq(Frames) BY DEF FreshSession
  <1>2. idle' \in 0..(Heartbeat + 1) BY BridgeAssumption DEF FreshSession
  <1> QED BY <1>1, <1>2 DEF FreshSession

LEMMA EndSessionType == TypeOK /\ EndSession => TypeOK'
  BY FreshType DEF EndSession, TypeOK, net, ghosts

LEMMA TypeLoop == TypeOK /\ Loop => TypeOK'
  <1> SUFFICES ASSUME TypeOK, Loop PROVE TypeOK' OBVIOUS
  <1>0. ReleasedHid \in HidStates /\ hid \in HidStates
    BY DEF TypeOK, ReleasedHid, HidStates
  <1>1. CASE Accept
    <2>1. Head(backlog) \in Conns /\ Tail(backlog) \in Seq(Conns) /\ hid.pos \in Coord
      BY <1>1 DEF Accept, TypeOK, HidStates
    <2> QED BY <1>1, <2>1, FreshType DEF Accept, TypeOK
  <1>2. CASE ReleaseKbd
    BY <1>0, <1>2, FlushKbdType DEF ReleaseKbd, TypeOK, net, session
  <1>3. CASE ReleasePtr
    BY <1>0, <1>3, FlushPtrType DEF ReleasePtr, TypeOK, session, ghosts
  <1>4. CASE Stop
    BY <1>4, EndSessionType DEF Stop
  <1> QED BY <1>1, <1>2, <1>3, <1>4 DEF Loop

LEMMA TypeSession == TypeOK /\ Session => TypeOK'
  <1> SUFFICES ASSUME TypeOK, Session PROVE TypeOK' OBVIOUS
  <1>1. CASE ShutdownSeen \/ HeartbeatLost \/ ReadEnd
    BY <1>1, EndSessionType DEF ShutdownSeen, HeartbeatLost, ReadEnd
  <1>2. CASE ReadBatch
    <2>1. PICK n \in 0..MaxBatch : \E batch \in [1..n -> Frames] :
            /\ buf' = batch
            /\ partial' \in IF n = 0 THEN {TRUE} \ {partial} ELSE BOOLEAN
      BY <1>2 DEF ReadBatch
    <2>2. n \in Nat BY BridgeAssumption
    <2>3. buf' \in Seq(Frames) BY <2>1, <2>2
    <2>4. partial' \in BOOLEAN BY <2>1
    <2> QED BY <1>2, <2>3, <2>4, BridgeAssumption DEF ReadBatch, TypeOK, net, ghosts
  <1>3. CASE ReadTimeout
    BY <1>3, BridgeAssumption DEF ReadTimeout, Reading, TypeOK, net, ghosts
  <1> QED BY <1>1, <1>2, <1>3 DEF Session

LEMMA TypeParse == TypeOK /\ Parse => TypeOK'
  <1> SUFFICES ASSUME TypeOK, Parse PROVE TypeOK' OBVIOUS
  <1>0. hid \in HidStates BY DEF TypeOK
  <1>1. CASE Malformed \/ NoGreeting \/ SendFails
    BY <1>1, EndSessionType DEF Malformed, NoGreeting, SendFails
  <1>2. CASE Greet
    BY <1>2, HeadIsFrame DEF Greet, TypeOK, net, ghosts
  <1>3. CASE FlushPending
    <2>1. [hid EXCEPT !.pos = pending] \in HidStates
      BY <1>3 DEF FlushPending, TypeOK, HidStates
    <2> QED BY <1>3, <2>1, FlushPtrType DEF FlushPending, TypeOK, net, ghosts
  <1>4. CASE EndBatch
    <2>1. pending # NoPos => [hid EXCEPT !.pos = pending] \in HidStates
      BY DEF TypeOK, HidStates
    <2>2. hid' \in HidStates /\ target' \in TargetStates
      BY <1>0, <1>4, <2>1, FlushPtrType DEF EndBatch, TypeOK
    <2> QED BY <1>4, <2>2 DEF EndBatch, TypeOK, net, ghosts
  <1>5. ASSUME NEW kind, Dispatch(kind)
        PROVE  /\ Frame \in AllFrames /\ Frame.t = kind /\ buf' \in Seq(Frames)
               /\ UNCHANGED <<serving, net, partial, greeted, idle, ending, shutdown, host>>
    BY <1>5, HeadIsFrame DEF Dispatch, Authentic
  <1>6. CASE NoEffect
    BY <1>5, <1>6 DEF NoEffect, TypeOK, net, ghosts
  <1>7. CASE KeyDown
    <2>1. Frame.usage \in Usages BY <1>5, <1>7, FrameData DEF KeyDown
    <2>2. hid' \in HidStates /\ target' \in TargetStates
      BY <1>0, <1>7, <2>1, PressType, FlushKbdType DEF KeyDown, TypeOK
    <2> QED BY <1>5, <1>7, <2>1, <2>2 DEF KeyDown, TypeOK, net
  <1>8. CASE KeyUp
    <2>1. Frame.usage \in Usages BY <1>5, <1>8, FrameData DEF KeyUp
    <2>2. hid' \in HidStates /\ target' \in TargetStates
      BY <1>0, <1>8, <2>1, ReleaseType, FlushKbdType DEF KeyUp
    <2> QED BY <1>5, <1>8, <2>1, <2>2 DEF KeyUp, TypeOK, net
  <1>9. CASE KeyState
    <2>1. Frame.mods \in SUBSET Mods /\ Frame.keys \in [Slots -> Keys \cup {NoKey}]
      BY <1>5, <1>9, FrameData DEF KeyState
    <2>2. [hid EXCEPT !.mods = Frame.mods, !.keys = Frame.keys] \in HidStates
      BY <1>0, <2>1 DEF HidStates
    <2>3. hid' \in HidStates /\ target' \in TargetStates
      BY <1>9, <2>2, FlushKbdType DEF KeyState
    <2> QED BY <1>5, <1>9, <2>1, <2>3 DEF KeyState, TypeOK, net, KeysIn, Usages
  <1>10. CASE PointerAbs
    <2>1. Frame.pos \in Coord BY <1>5, <1>10, FrameData DEF PointerAbs
    <2> QED BY <1>5, <1>10, <2>1 DEF PointerAbs, TypeOK, net
  <1>11. CASE PointerButton
    <2>1. [hid EXCEPT !.buttons = Frame.bits \cap Buttons] \in HidStates
      BY <1>0 DEF HidStates
    <2> QED BY <1>5, <1>11, <2>1, FlushPtrType DEF PointerButton, TypeOK, net, ghosts
  <1>12. CASE PointerWheel
    BY <1>0, <1>5, <1>12, FlushPtrType DEF PointerWheel, TypeOK, net, ghosts
  <1>13. CASE ReleaseAll
    BY <1>5, <1>13 DEF ReleaseAll, TypeOK, net, ghosts
  <1> QED BY <1>1, <1>2, <1>3, <1>4, <1>6, <1>7, <1>8, <1>9, <1>10, <1>11, <1>12, <1>13 DEF Parse

LEMMA TypeEnvironment == TypeOK /\ Environment => TypeOK'
  <1> SUFFICES ASSUME TypeOK, Environment PROVE TypeOK' OBVIOUS
  <1> USE DEF daemon, net, session, ghosts
  <1>1. ASSUME NEW c \in Conns, Connect(c) PROVE TypeOK'
    BY <1>1 DEF Connect, TypeOK
  <1>2. ASSUME NEW c \in Conns, PeerEnds(c) PROVE TypeOK'
    BY <1>2 DEF PeerEnds, TypeOK
  <1>3. CASE Signal \/ Stall \/ Resume BY <1>3 DEF Signal, Stall, Resume, TypeOK
  <1>4. CASE Detach BY <1>4 DEF Detach, TypeOK, TargetStates
  <1>5. CASE Attach BY <1>5 DEF Attach, TypeOK
  <1>6. CASE SlowWrite BY <1>6, BridgeAssumption DEF SlowWrite, TypeOK
  <1>7. CASE Crash BY <1>7 DEF Crash, TypeOK
  <1>8. CASE Restart
    BY <1>8, FreshType, ClearTypes DEF Restart, TypeOK
  <1> QED BY <1>1, <1>2, <1>3, <1>4, <1>5, <1>6, <1>7, <1>8 DEF Environment

\* The daemon and what it is connected to stay well formed, crashes included.
THEOREM TypeCorrect == Spec => []TypeOK
  <1>1. TypeOK /\ [Next]_vars => TypeOK'
    <2>1. ASSUME TypeOK, UNCHANGED vars PROVE TypeOK'
      BY <2>1 DEF vars, TypeOK, net, session, ghosts
    <2> QED BY <2>1, TypeLoop, TypeSession, TypeParse, TypeEnvironment DEF Next
  <1> QED BY <1>1, TypeInit, PTL DEF Spec
-----------------------------------------------------------------------------
(* What the slot operations do to the set of held usages. *)

LEMMA PressHolds ==
    ASSUME NEW h \in HidStates, NEW u \in Usages
    PROVE  Held(Press(h, u)) \subseteq Held(h) \cup {u} /\ Press(h, u).buttons = h.buttons
  <1>1. CASE u \in Mods
    BY <1>1 DEF Press, HidStates, Held, KeysIn
  <1>2. CASE u \notin Mods
    <2> DEFINE free == {s \in Slots : h.keys[s] = NoKey}
               slot == CHOOSE s \in free : \A r \in free : s <= r
               keys == [h.keys EXCEPT ![slot] = u]
    <2>1. Press(h, u) = [h EXCEPT !.keys = keys]
      BY <1>2 DEF Press
    <2>2. \A s \in Slots : keys[s] \in {h.keys[s], u}
      <3> HIDE DEF slot
      <3> QED BY DEF HidStates
    <2> HIDE DEF keys
    <2>3. Press(h, u).mods = h.mods /\ Press(h, u).keys = keys /\ Press(h, u).buttons = h.buttons
      BY <2>1 DEF HidStates
    <2> QED BY <2>2, <2>3 DEF Held, KeysIn
  <1> QED BY <1>1, <1>2

\* A key is released from every slot it is in.
LEMMA ReleaseForgets ==
    ASSUME NEW h \in HidStates, NEW u \in Usages
    PROVE  Held(Release(h, u)) \subseteq Held(h) \ {u} /\ Release(h, u).buttons = h.buttons
  <1> USE BridgeAssumption
  <1>1. CASE u \in Mods
    <2>1. /\ Release(h, u).mods = h.mods \ {u} /\ Release(h, u).keys = h.keys
          /\ Release(h, u).buttons = h.buttons
      BY <1>1 DEF Release, HidStates
    <2>2. u \notin KeysIn(h.keys)
      BY <1>1 DEF HidStates, KeysIn
    <2> QED BY <2>1, <2>2 DEF Held, KeysIn
  <1>2. CASE u \notin Mods
    <2>1. /\ Release(h, u).mods = h.mods /\ Release(h, u).buttons = h.buttons
          /\ Release(h, u).keys = [s \in Slots |-> IF h.keys[s] = u THEN NoKey ELSE h.keys[s]]
      BY <1>2 DEF Release, HidStates
    <2>2. u \notin h.mods BY <1>2 DEF HidStates
    <2> QED BY <2>1, <2>2 DEF Held, KeysIn
  <1> QED BY <1>1, <1>2

LEMMA ClearHolds ==
    ASSUME NEW h \in HidStates
    PROVE  Held([h EXCEPT !.mods = {}, !.keys = [s \in Slots |-> NoKey], !.buttons = {}]) = {}
  BY DEF HidStates, Held, KeysIn

\* A keyboard report puts what is held, or nothing at all, on the target.
LEMMA KbdReport ==
    ASSUME TypeOK, NEW h \in HidStates, FlushKbd(h)
    PROVE  /\ Held(hid') = Held(h) /\ hid'.buttons = h.buttons
           /\ attached => target'.keys = Held(h) /\ target'.buttons = target.buttons
           /\ ~attached => target' = target
  BY DEF TypeOK, HidStates, TargetStates, FlushKbd, Held, KeysIn

LEMMA PtrReport ==
    ASSUME TypeOK, NEW h \in HidStates, NEW wheel, FlushPtr(h, wheel)
    PROVE  /\ Held(hid') = Held(h) /\ hid'.buttons = h.buttons
           /\ attached => target'.keys = target.keys /\ target'.buttons = h.buttons
           /\ ~attached => target' = target
  BY DEF TypeOK, HidStates, TargetStates, FlushPtr, Held, KeysIn
-----------------------------------------------------------------------------
(* The lease on the target's inputs.  NothingHeldIdle is not inductive: it   *)
(* holds at the end of a session because release_all cleared the Hid record  *)
(* before its two reports, and because a detached target has nothing down.   *)

LeaseInv ==
    /\ pc # "dead"
    /\ ~attached => Down = {}
    /\ Held(hid) \subseteq wanted /\ target.keys \subseteq wanted
    /\ pc \in {"accept", "stopped"} => serving = NoConn
    /\ serving = NoConn => pc \in {"accept", "stopped", "relkbd", "relptr"} /\ Down = {}
    /\ pc \in {"relkbd", "relptr"} /\ serving = NoConn => ending
    /\ pc = "relptr" => Held(hid) = {} /\ hid.buttons = {} /\ target.keys = {} /\ wanted = {}

LEMMA LeaseInvInit == Init => LeaseInv
  BY BridgeAssumption, ClearTypes
     DEF Init, LeaseInv, Down, Held, KeysIn, ClearHid, Released, HidStates, TargetStates

LEMMA LeaseInvLoop == TypeOK /\ LeaseInv /\ Loop => LeaseInv'
  <1> SUFFICES ASSUME TypeOK, LeaseInv, Loop PROVE LeaseInv' OBVIOUS
  <1>1. CASE Accept
    BY <1>1, BridgeAssumption DEF Accept, LeaseInv, Down, TypeOK
  <1>2. CASE ReleaseKbd
    <2>1. ReleasedHid \in HidStates /\ Held(ReleasedHid) = {} /\ ReleasedHid.buttons = {}
      BY ClearHolds DEF TypeOK, ReleasedHid, HidStates
    <2>2. Held(hid') = {} /\ hid'.buttons = {} /\ target'.keys = {}
      BY <1>2, <2>1, KbdReport DEF ReleaseKbd, LeaseInv, Down
    <2>3. target'.buttons = target.buttons
      BY <1>2, <2>1, KbdReport DEF ReleaseKbd
    <2> QED BY <1>2, <2>2, <2>3 DEF ReleaseKbd, LeaseInv, Down
  <1>3. CASE ReleasePtr
    <2>1. hid \in HidStates /\ FlushPtr(hid, FALSE)
      BY <1>3 DEF TypeOK, ReleasePtr
    <2>2. Held(hid') = {} /\ Down' = {}
      BY <1>3, <2>1, PtrReport DEF ReleasePtr, LeaseInv, Down
    <2> QED BY <1>3, <2>2 DEF ReleasePtr, LeaseInv, Down, session, ghosts
  <1>4. CASE Stop
    BY <1>4 DEF Stop, EndSession, LeaseInv, Down, ghosts
  <1> QED BY <1>1, <1>2, <1>3, <1>4 DEF Loop

LEMMA LeaseInvSession == TypeOK /\ LeaseInv /\ Session => LeaseInv'
  <1> SUFFICES ASSUME TypeOK, LeaseInv, Session PROVE LeaseInv' OBVIOUS
  <1>1. CASE ShutdownSeen \/ HeartbeatLost \/ ReadEnd
    BY <1>1 DEF ShutdownSeen, HeartbeatLost, ReadEnd, Reading, EndSession, LeaseInv, Down, ghosts
  <1>2. CASE ReadBatch
    BY <1>2 DEF ReadBatch, Reading, LeaseInv, Down, ghosts
  <1>3. CASE ReadTimeout
    BY <1>3 DEF ReadTimeout, Reading, LeaseInv, Down, ghosts
  <1> QED BY <1>1, <1>2, <1>3 DEF Session

\* Writing either report keeps the lease as long as what is held is what the client wants.
LEMMA LeaseInvReports ==
    ASSUME TypeOK, LeaseInv, pc = "parse", pc' \in {"parse", "read"},
           UNCHANGED <<serving, ending, host>>,
           NEW h \in HidStates, Held(h) \subseteq wanted',
           \/ FlushKbd(h)
           \/ target.keys \subseteq wanted' /\ \E wheel \in BOOLEAN : FlushPtr(h, wheel)
    PROVE  LeaseInv'
  <1>1. CASE FlushKbd(h)
    BY <1>1, KbdReport DEF LeaseInv, Down
  <1>2. CASE target.keys \subseteq wanted' /\ \E wheel \in BOOLEAN : FlushPtr(h, wheel)
    BY <1>2, PtrReport DEF LeaseInv, Down
  <1> QED BY <1>1, <1>2

LEMMA LeaseInvParse == TypeOK /\ LeaseInv /\ Parse => LeaseInv'
  <1> SUFFICES ASSUME TypeOK, LeaseInv, Parse PROVE LeaseInv' OBVIOUS
  <1>0. hid \in HidStates BY DEF TypeOK
  <1>1. CASE Malformed \/ NoGreeting \/ SendFails
    BY <1>1 DEF Malformed, NoGreeting, SendFails, Authentic, Parsing, EndSession, LeaseInv, Down, ghosts
  <1>2. CASE Greet
    BY <1>2 DEF Greet, Parsing, LeaseInv, Down, ghosts
  <1>3. ASSUME pending # NoPos
        PROVE  /\ [hid EXCEPT !.pos = pending] \in HidStates
               /\ Held([hid EXCEPT !.pos = pending]) = Held(hid)
    BY <1>3 DEF TypeOK, HidStates, Held, KeysIn
  <1>4. CASE FlushPending
    BY <1>3, <1>4, LeaseInvReports DEF FlushPending, Authentic, Parsing, LeaseInv, ghosts
  <1>5. CASE EndBatch
    <2>1. CASE pending = NoPos
      BY <1>5, <2>1 DEF EndBatch, LeaseInv, Down, ghosts
    <2>2. CASE pending # NoPos
      BY <1>3, <1>5, <2>2, LeaseInvReports DEF EndBatch, LeaseInv, ghosts
    <2> QED BY <2>1, <2>2
  <1>6. ASSUME NEW kind, Dispatch(kind)
        PROVE  /\ pc = "parse" /\ Frame \in AllFrames /\ Frame.t = kind
               /\ UNCHANGED <<serving, ending, host>>
    BY <1>6, HeadIsFrame DEF Dispatch, Authentic, Parsing
  <1>7. CASE NoEffect
    BY <1>6, <1>7 DEF NoEffect, LeaseInv, Down, ghosts
  <1>8. CASE KeyDown
    <2>1. Frame.usage \in Usages /\ Frame.usage \in wanted' /\ wanted \subseteq wanted'
      BY <1>6, <1>8, FrameData DEF KeyDown
    <2>2. CASE Ignored(hid, Frame.usage)
      BY <1>6, <1>8, <2>1, <2>2 DEF KeyDown, LeaseInv, Down
    <2>3. CASE ~Ignored(hid, Frame.usage)
      <3>1. Press(hid, Frame.usage) \in HidStates /\ Held(Press(hid, Frame.usage)) \subseteq wanted'
        BY <1>0, <2>1, PressType, PressHolds DEF LeaseInv
      <3> QED BY <1>6, <1>8, <2>3, <3>1, LeaseInvReports DEF KeyDown
    <2> QED BY <2>2, <2>3
  <1>9. CASE KeyUp
    <2>1. Frame.usage \in Usages BY <1>6, <1>9, FrameData DEF KeyUp
    <2>2. Release(hid, Frame.usage) \in HidStates /\ Held(Release(hid, Frame.usage)) \subseteq wanted'
      BY <1>0, <1>9, <2>1, ReleaseType, ReleaseForgets DEF KeyUp, LeaseInv
    <2> QED BY <1>6, <1>9, <2>2, LeaseInvReports DEF KeyUp
  <1>10. CASE KeyState
    <2> DEFINE h == [hid EXCEPT !.mods = Frame.mods, !.keys = Frame.keys]
    <2>1. h \in HidStates
      BY <1>0, <1>6, <1>10, FrameData DEF KeyState, HidStates
    <2>2. Held(h) = wanted'
      BY <1>0, <1>10 DEF KeyState, Held, HidStates
    <2>3. FlushKbd(h) BY <1>10 DEF KeyState
    <2> HIDE DEF h
    <2> QED BY <1>6, <1>10, <2>1, <2>2, <2>3, LeaseInvReports DEF KeyState
  <1>11. CASE PointerAbs
    BY <1>6, <1>11 DEF PointerAbs, LeaseInv, Down
  <1>12. CASE PointerButton
    <2> DEFINE h == [hid EXCEPT !.buttons = Frame.bits \cap Buttons]
    <2>1. h \in HidStates /\ Held(h) = Held(hid)
      BY <1>0 DEF HidStates, Held, KeysIn
    <2> QED BY <1>6, <1>12, <2>1, LeaseInvReports DEF PointerButton, LeaseInv, ghosts
  <1>13. CASE PointerWheel
    BY <1>0, <1>6, <1>13, LeaseInvReports DEF PointerWheel, LeaseInv, ghosts
  <1>14. CASE ReleaseAll
    BY <1>6, <1>14 DEF ReleaseAll, LeaseInv, Down, ghosts
  <1> QED BY <1>1, <1>2, <1>4, <1>5, <1>7, <1>8, <1>9, <1>10, <1>11, <1>12, <1>13, <1>14 DEF Parse

LEMMA LeaseInvEnvironment ==
    TypeOK /\ LeaseInv /\ Environment /\ CanCrash = FALSE => LeaseInv'
  <1> SUFFICES ASSUME TypeOK, LeaseInv, Environment, CanCrash = FALSE PROVE LeaseInv' OBVIOUS
  <1> USE DEF daemon, net, session, ghosts, LeaseInv, Down
  <1>1. ASSUME NEW c \in Conns, Connect(c) \/ PeerEnds(c) PROVE LeaseInv'
    BY <1>1 DEF Connect, PeerEnds
  <1>2. CASE Signal \/ Stall \/ Resume BY <1>2 DEF Signal, Stall, Resume
  <1>3. CASE Detach BY <1>3 DEF Detach, TypeOK, TargetStates
  <1>4. CASE Attach BY <1>4 DEF Attach
  <1>5. CASE SlowWrite BY <1>5 DEF SlowWrite
  <1>6. CASE Crash \/ Restart BY <1>6 DEF Crash, Restart
  <1> QED BY <1>1, <1>2, <1>3, <1>4, <1>5, <1>6 DEF Environment

LEMMA LeaseInvStep ==
    TypeOK /\ LeaseInv /\ [Next]_vars /\ CanCrash = FALSE => LeaseInv'
  <1>1. ASSUME LeaseInv, UNCHANGED vars PROVE LeaseInv'
    BY <1>1 DEF vars, LeaseInv, Down, net, session, ghosts
  <1> QED BY <1>1, LeaseInvLoop, LeaseInvSession, LeaseInvParse, LeaseInvEnvironment DEF Next

\* A daemon that is not killed leaves nothing down between sessions.
THEOREM NothingHeld == ASSUME CanCrash = FALSE PROVE Spec => []NothingHeldIdle
  <1>1. LeaseInv => NothingHeldIdle
    BY BridgeAssumption DEF LeaseInv, NothingHeldIdle
  <1>2. TypeOK /\ LeaseInv /\ [Next]_vars => LeaseInv'
    BY LeaseInvStep
  <1> QED BY <1>1, <1>2, LeaseInvInit, TypeCorrect, PTL DEF Spec

\* Nor does it ever put a key down that the client does not hold.
THEOREM NoPhantom == ASSUME CanCrash = FALSE PROVE Spec => []NoPhantomKey
  <1>1. LeaseInv => NoPhantomKey
    BY DEF LeaseInv, NoPhantomKey
  <1>2. TypeOK /\ LeaseInv /\ [Next]_vars => LeaseInv'
    BY LeaseInvStep
  <1> QED BY <1>1, <1>2, LeaseInvInit, TypeCorrect, PTL DEF Spec

\* Every step of the daemon is a step of the lease on the target's inputs, or none.
THEOREM ImplementsLease == ASSUME CanCrash = FALSE PROVE Spec => LeaseHeld
  <1>1. Init => Lease!LeaseInit
    BY DEF Init, Lease!LeaseInit, Down, Released
  <1>2. /\ TypeOK /\ TypeOK' /\ LeaseInv /\ LeaseInv' /\ [Next]_vars
        => [Lease!LeaseNext]_(Lease!leaseVars)
    <2> SUFFICES ASSUME TypeOK, TypeOK', LeaseInv, LeaseInv', [Next]_vars
                 PROVE  Lease!LeaseNext \/ (serving' = serving /\ Down' = Down)
      BY DEF Lease!leaseVars
    <2>0. Down' \in SUBSET Inputs
      BY DEF TypeOK, TargetStates, Down, Inputs
    <2>1. CASE serving' = serving
      <3>1. CASE serving = NoConn
        BY <2>1, <3>1 DEF LeaseInv
      <3>2. CASE serving # NoConn
        BY <2>0, <2>1, <3>2 DEF Lease!LeaseNext, Lease!Use
      <3> QED BY <3>1, <3>2
    <2>2. CASE serving' # serving
      <3>1. Accept \/ ReleasePtr
        BY <2>2 DEF Next, Loop, Session, Parse, Environment, vars, net, session, ghosts, daemon,
             ReleaseKbd, Stop, EndSession, ShutdownSeen, HeartbeatLost, ReadBatch, ReadTimeout,
             ReadEnd, Malformed, NoGreeting, SendFails, Greet, FlushPending, NoEffect, KeyDown,
             KeyUp, KeyState, PointerAbs, PointerButton, PointerWheel, ReleaseAll, Dispatch,
             EndBatch, SlowWrite, Connect, PeerEnds, Signal, Stall, Resume, Detach, Attach, Crash, Restart
      <3>2. CASE Accept
        <4>1. serving = NoConn /\ serving' \in Conns /\ Down' = Down
          BY <2>2, <3>2 DEF Accept, LeaseInv, TypeOK, Down
        <4> QED BY <4>1 DEF Lease!LeaseNext, Lease!Grant
      <3>3. CASE ReleasePtr
        <4>1. serving' = NoConn /\ serving # NoConn
          BY <2>2, <3>3 DEF ReleasePtr
        <4> QED BY <4>1 DEF Lease!LeaseNext, Lease!GiveBack, LeaseInv
      <3> QED BY <3>1, <3>2, <3>3
    <2> QED BY <2>1, <2>2
  <1>3. TypeOK /\ LeaseInv /\ [Next]_vars => LeaseInv'
    BY LeaseInvStep
  <1> QED BY <1>1, <1>2, <1>3, LeaseInvInit, TypeCorrect, PTL DEF Spec, LeaseHeld, Lease!LeaseSpec
-----------------------------------------------------------------------------
(* The end of a session, crashes included.  A restarted daemon may know less *)
(* than the target believes, so LeaseInv is lost; what is left of it is      *)
(* enough, for release_all writes both reports whatever it knows.            *)

EndInv ==
    /\ ~attached => Down = {}
    /\ pc = "relptr" => Held(hid) = {} /\ hid.buttons = {} /\ target.keys = {}

LEMMA EndInvReports ==
    ASSUME TypeOK, EndInv, pc' # "relptr", UNCHANGED host, NEW h \in HidStates,
           FlushKbd(h) \/ \E wheel \in BOOLEAN : FlushPtr(h, wheel)
    PROVE  EndInv'
  BY KbdReport, PtrReport DEF EndInv, Down

\* The keyboard report of release_all leaves no key down, whatever the target believed.
LEMMA EndInvReleaseKbd == TypeOK /\ EndInv /\ ReleaseKbd => EndInv'
  <1> SUFFICES ASSUME TypeOK, EndInv, ReleaseKbd PROVE EndInv' OBVIOUS
  <1>1. ReleasedHid \in HidStates /\ Held(ReleasedHid) = {} /\ ReleasedHid.buttons = {}
    BY ClearHolds DEF TypeOK, ReleasedHid, HidStates
  <1>2. Held(hid') = {} /\ hid'.buttons = {} /\ target'.keys = {}
    BY <1>1, KbdReport DEF ReleaseKbd, EndInv, Down
  <1>3. ~attached => target' = target
    BY <1>1, KbdReport DEF ReleaseKbd
  <1> QED BY <1>2, <1>3 DEF ReleaseKbd, EndInv, Down

\* The pointer report that follows leaves nothing down at all.
LEMMA ReleasePtrReleases == TypeOK /\ EndInv /\ ReleasePtr => Down' = {}
  <1> SUFFICES ASSUME TypeOK, EndInv, ReleasePtr PROVE Down' = {} OBVIOUS
  <1>1. hid \in HidStates /\ FlushPtr(hid, FALSE) /\ pc = "relptr"
    BY DEF TypeOK, ReleasePtr
  <1> QED BY <1>1, PtrReport DEF EndInv, Down

LEMMA EndInvDaemon == TypeOK /\ EndInv /\ (Loop \/ Session \/ Parse) => EndInv'
  <1> SUFFICES ASSUME TypeOK, EndInv, Loop \/ Session \/ Parse PROVE EndInv' OBVIOUS
  <1>0. hid \in HidStates BY DEF TypeOK
  <1>1. CASE Loop
    <2>1. CASE Accept BY <2>1 DEF Accept, EndInv, Down
    <2>2. CASE ReleasePtr
      BY <2>2, ReleasePtrReleases DEF ReleasePtr, EndInv
    <2>3. CASE Stop BY <2>3 DEF Stop, EndSession, EndInv, Down
    <2> QED BY <1>1, <2>1, <2>2, <2>3, EndInvReleaseKbd DEF Loop
  <1>2. CASE Session
    BY <1>2 DEF Session, ShutdownSeen, HeartbeatLost, ReadEnd, ReadBatch, ReadTimeout, Reading,
         EndSession, EndInv, Down
  <1>3. ASSUME Parse, ~(KeyDown \/ KeyUp \/ KeyState \/ FlushPending \/ EndBatch
                           \/ PointerButton \/ PointerWheel)
        PROVE  EndInv'
    BY <1>3 DEF Parse, Malformed, NoGreeting, SendFails, Greet, NoEffect, PointerAbs, ReleaseAll,
         Dispatch, Authentic, Parsing, EndSession, EndInv, Down
  <1>4. ASSUME NEW kind, Dispatch(kind)
        PROVE  pc = "parse" /\ Frame \in AllFrames /\ Frame.t = kind /\ UNCHANGED host
    BY <1>4, HeadIsFrame DEF Dispatch, Authentic, Parsing
  <1>5. CASE KeyDown
    <2>1. Press(hid, Frame.usage) \in HidStates
      BY <1>0, <1>4, <1>5, FrameData, PressType DEF KeyDown
    <2>2. CASE Ignored(hid, Frame.usage)
      BY <1>4, <1>5, <2>2 DEF KeyDown, EndInv, Down
    <2>3. CASE ~Ignored(hid, Frame.usage)
      BY <1>4, <1>5, <2>1, <2>3, EndInvReports DEF KeyDown
    <2> QED BY <2>2, <2>3
  <1>6. CASE KeyUp
    <2>1. Release(hid, Frame.usage) \in HidStates
      BY <1>0, <1>4, <1>6, FrameData, ReleaseType DEF KeyUp
    <2> QED BY <1>4, <1>6, <2>1, EndInvReports DEF KeyUp
  <1>7. CASE KeyState
    <2>1. [hid EXCEPT !.mods = Frame.mods, !.keys = Frame.keys] \in HidStates
      BY <1>0, <1>4, <1>7, FrameData DEF KeyState, HidStates
    <2> QED BY <1>4, <1>7, <2>1, EndInvReports DEF KeyState
  <1>8. ASSUME pending # NoPos
        PROVE  [hid EXCEPT !.pos = pending] \in HidStates
    BY <1>8 DEF TypeOK, HidStates
  <1>9. CASE FlushPending
    BY <1>8, <1>9, EndInvReports DEF FlushPending, Authentic, Parsing
  <1>10. CASE EndBatch
    <2>1. CASE pending = NoPos
      BY <1>10, <2>1 DEF EndBatch, EndInv, Down
    <2>2. CASE pending # NoPos
      BY <1>8, <1>10, <2>2, EndInvReports DEF EndBatch
    <2> QED BY <2>1, <2>2
  <1>11. CASE PointerButton
    <2>1. [hid EXCEPT !.buttons = Frame.bits \cap Buttons] \in HidStates
      BY <1>0 DEF HidStates
    <2> QED BY <1>4, <1>11, <2>1, EndInvReports DEF PointerButton
  <1>12. CASE PointerWheel
    BY <1>0, <1>4, <1>12, EndInvReports DEF PointerWheel
  <1> QED BY <1>1, <1>2, <1>3, <1>5, <1>6, <1>7, <1>9, <1>10, <1>11, <1>12

LEMMA EndInvStep == TypeOK /\ EndInv /\ [Next]_vars => EndInv'
  <1> SUFFICES ASSUME TypeOK, EndInv, [Next]_vars PROVE EndInv' OBVIOUS
  <1>1. CASE UNCHANGED vars BY <1>1 DEF vars, EndInv, Down
  <1>2. CASE Environment
    <2>1. ASSUME NEW c \in Conns, Connect(c) \/ PeerEnds(c) PROVE EndInv'
      BY <2>1 DEF Connect, PeerEnds, daemon, EndInv, Down
    <2>2. CASE Detach BY <2>2 DEF Detach, daemon, TypeOK, TargetStates, EndInv, Down
    <2>3. CASE Signal \/ Stall \/ Resume \/ Attach \/ SlowWrite \/ Crash \/ Restart
      BY <2>3 DEF Signal, Stall, Resume, Attach, SlowWrite, Crash, Restart, daemon, EndInv, Down
    <2> QED BY <1>2, <2>1, <2>2, <2>3 DEF Environment
  <1> QED BY <1>1, <1>2, EndInvDaemon DEF Next

\* However a session of a running daemon ends, the target is released: also in the first
\* session after a crash, whose process knows nothing of what the one before left down.
THEOREM SessionEnd == Spec => SessionEndReleases
  <1>1. Init => EndInv
    BY DEF Init, EndInv, Down, Released
  <1>2. TypeOK /\ EndInv /\ [Next]_vars
          => [serving # NoConn /\ serving' = NoConn /\ pc' # "dead" => Down' = {}]_vars
    <2> SUFFICES ASSUME TypeOK, EndInv, Next,
                        serving # NoConn, serving' = NoConn, pc' # "dead"
                 PROVE  Down' = {}
      BY DEF vars
    <2>1. Accept \/ ReleasePtr \/ Crash
      BY DEF Next, Loop, Session, Parse, Environment, vars, net, session, ghosts, daemon,
           ReleaseKbd, Stop, EndSession, ShutdownSeen, HeartbeatLost, ReadBatch, ReadTimeout,
           ReadEnd, Malformed, NoGreeting, SendFails, Greet, FlushPending, NoEffect, KeyDown,
           KeyUp, KeyState, PointerAbs, PointerButton, PointerWheel, ReleaseAll, Dispatch,
           EndBatch, SlowWrite, Connect, PeerEnds, Signal, Stall, Resume, Detach, Attach, Restart
    <2>2. ~Accept
      BY BridgeAssumption DEF Accept, TypeOK
    <2>3. ~Crash
      BY DEF Crash
    <2> QED BY <2>1, <2>2, <2>3, ReleasePtrReleases
  <1>3. TypeOK /\ EndInv /\ [Next]_vars => EndInv'
    BY EndInvStep
  <1> QED BY <1>1, <1>2, <1>3, TypeCorrect, PTL DEF Spec, SessionEndReleases
-----------------------------------------------------------------------------
(* What STATUS replies.  A session begins with nothing down, by LeaseInv;    *)
(* from then on a report that fails leaves the target with nothing down, and *)
(* one that succeeds makes its half of the target what the daemon holds.     *)

LEMMA StatusReports ==
    ASSUME TypeOK, EndInv, StatusHonest, pc = "parse", UNCHANGED host, NEW h \in HidStates,
           \/ FlushKbd(h) /\ h.buttons = hid.buttons
           \/ Held(h) = Held(hid) /\ \E wheel \in BOOLEAN : FlushPtr(h, wheel)
    PROVE  StatusHonest'
  BY KbdReport, PtrReport DEF StatusHonest, EndInv, Down

LEMMA StatusParse == TypeOK /\ EndInv /\ StatusHonest /\ Parse => StatusHonest'
  <1> SUFFICES ASSUME TypeOK, EndInv, StatusHonest, Parse PROVE StatusHonest' OBVIOUS
  <1>0. hid \in HidStates BY DEF TypeOK
  <1>1. ASSUME ~(KeyDown \/ KeyUp \/ KeyState \/ FlushPending \/ EndBatch
                    \/ PointerButton \/ PointerWheel)
        PROVE  StatusHonest'
    BY <1>1 DEF Parse, Malformed, NoGreeting, SendFails, Greet, NoEffect, PointerAbs, ReleaseAll,
         Dispatch, Authentic, Parsing, EndSession, StatusHonest
  <1>2. ASSUME NEW kind, Dispatch(kind)
        PROVE  pc = "parse" /\ Frame \in AllFrames /\ Frame.t = kind /\ UNCHANGED host
    BY <1>2, HeadIsFrame DEF Dispatch, Authentic, Parsing
  <1>3. CASE KeyDown
    <2>1. Press(hid, Frame.usage) \in HidStates /\ Press(hid, Frame.usage).buttons = hid.buttons
      BY <1>0, <1>2, <1>3, FrameData, PressType, PressHolds DEF KeyDown
    <2>2. CASE Ignored(hid, Frame.usage)
      BY <1>2, <1>3, <2>2 DEF KeyDown, StatusHonest
    <2>3. CASE ~Ignored(hid, Frame.usage)
      BY <1>2, <1>3, <2>1, <2>3, StatusReports DEF KeyDown
    <2> QED BY <2>2, <2>3
  <1>4. CASE KeyUp
    <2>1. Release(hid, Frame.usage) \in HidStates /\ Release(hid, Frame.usage).buttons = hid.buttons
      BY <1>0, <1>2, <1>4, FrameData, ReleaseType, ReleaseForgets DEF KeyUp
    <2> QED BY <1>2, <1>4, <2>1, StatusReports DEF KeyUp
  <1>5. CASE KeyState
    <2> DEFINE h == [hid EXCEPT !.mods = Frame.mods, !.keys = Frame.keys]
    <2>1. h \in HidStates /\ h.buttons = hid.buttons
      BY <1>0, <1>2, <1>5, FrameData DEF KeyState, HidStates
    <2>2. FlushKbd(h) BY <1>5 DEF KeyState
    <2> HIDE DEF h
    <2> QED BY <1>2, <1>5, <2>1, <2>2, StatusReports DEF KeyState
  <1>6. ASSUME pending # NoPos
        PROVE  /\ [hid EXCEPT !.pos = pending] \in HidStates
               /\ Held([hid EXCEPT !.pos = pending]) = Held(hid)
    BY <1>6 DEF TypeOK, HidStates, Held, KeysIn
  <1>7. CASE FlushPending
    BY <1>6, <1>7, StatusReports DEF FlushPending, Authentic, Parsing
  <1>8. CASE EndBatch
    <2>1. CASE pending = NoPos
      BY <1>8, <2>1 DEF EndBatch, StatusHonest
    <2>2. CASE pending # NoPos
      BY <1>6, <1>8, <2>2, StatusReports DEF EndBatch
    <2> QED BY <2>1, <2>2
  <1>9. CASE PointerButton
    <2> DEFINE h == [hid EXCEPT !.buttons = Frame.bits \cap Buttons]
    <2>1. h \in HidStates /\ Held(h) = Held(hid)
      BY <1>0 DEF HidStates, Held, KeysIn
    <2>2. FlushPtr(h, FALSE) BY <1>9 DEF PointerButton
    <2> HIDE DEF h
    <2> QED BY <1>2, <1>9, <2>1, <2>2, StatusReports DEF PointerButton
  <1>10. CASE PointerWheel
    BY <1>0, <1>2, <1>10, StatusReports DEF PointerWheel
  <1> QED BY <1>1, <1>3, <1>4, <1>5, <1>7, <1>8, <1>9, <1>10

LEMMA StatusStep ==
    TypeOK /\ LeaseInv /\ EndInv /\ StatusHonest /\ [Next]_vars /\ CanCrash = FALSE => StatusHonest'
  <1> SUFFICES ASSUME TypeOK, LeaseInv, EndInv, StatusHonest, [Next]_vars, CanCrash = FALSE
               PROVE  StatusHonest'
    OBVIOUS
  <1>1. CASE UNCHANGED vars BY <1>1 DEF vars, StatusHonest
  <1>2. CASE Loop
    <2>1. CASE Accept
      BY <2>1, BridgeAssumption DEF Accept, LeaseInv, StatusHonest, Down
    <2>2. CASE ReleaseKbd \/ Stop
      BY <2>2 DEF ReleaseKbd, Stop, EndSession, StatusHonest
    <2>3. CASE ReleasePtr
      BY <2>3, ReleasePtrReleases DEF StatusHonest, Down
    <2> QED BY <1>2, <2>1, <2>2, <2>3 DEF Loop
  <1>3. CASE Session
    BY <1>3 DEF Session, ShutdownSeen, HeartbeatLost, ReadEnd, ReadBatch, ReadTimeout, Reading,
         EndSession, StatusHonest
  <1>4. CASE Environment
    <2>1. ASSUME NEW c \in Conns, Connect(c) \/ PeerEnds(c) PROVE StatusHonest'
      BY <2>1 DEF Connect, PeerEnds, daemon, StatusHonest
    <2>2. CASE Detach BY <2>2 DEF Detach, daemon, TypeOK, TargetStates, StatusHonest
    <2>3. CASE Signal \/ Stall \/ Resume \/ Attach \/ SlowWrite \/ Crash \/ Restart
      BY <2>3 DEF Signal, Stall, Resume, Attach, SlowWrite, Crash, Restart, daemon, StatusHonest
    <2> QED BY <1>4, <2>1, <2>2, <2>3 DEF Environment
  <1> QED BY <1>1, <1>2, <1>3, <1>4, StatusParse DEF Next

\* A daemon that is not killed never reports less than the target believes is down.
THEOREM Status == ASSUME CanCrash = FALSE PROVE Spec => []StatusHonest
  <1>1. Init => EndInv /\ StatusHonest
    BY DEF Init, EndInv, StatusHonest, Down, Released
  <1>2. TypeOK /\ LeaseInv /\ EndInv /\ StatusHonest /\ [Next]_vars => StatusHonest'
    BY StatusStep
  <1>3. TypeOK /\ LeaseInv /\ [Next]_vars => LeaseInv'
    BY LeaseInvStep
  <1> QED BY <1>1, <1>2, <1>3, EndInvStep, LeaseInvInit, TypeCorrect, PTL DEF Spec
-----------------------------------------------------------------------------
(* Coalescing.  While a session is served, the newest position is the one    *)
(* pending, or if there is none the one last reported; nothing is pending    *)
(* at a read, nor while a RELEASE_ALL is carried out.                        *)

Serving == pc \in {"read", "parse"} \/ (pc \in {"relkbd", "relptr"} /\ ~ending)
NewestInv == Serving => /\ newest = IF pending = NoPos THEN hid.pos ELSE pending
                        /\ pc # "parse" => pending = NoPos

LEMMA NewestParse == TypeOK /\ NewestInv /\ Parse => NewestInv'
  <1> SUFFICES ASSUME TypeOK, NewestInv, Parse PROVE NewestInv' OBVIOUS
  <1>0. hid \in HidStates /\ NoPos \notin Coord BY BridgeAssumption DEF TypeOK
  <1>1. CASE Malformed \/ NoGreeting \/ SendFails
    BY <1>1 DEF Malformed, NoGreeting, SendFails, EndSession, session, ghosts, NewestInv, Serving
  <1>2. CASE Greet \/ NoEffect
    BY <1>2 DEF Greet, NoEffect, Dispatch, Authentic, Parsing, session, ghosts, NewestInv, Serving
  <1>3. CASE FlushPending \/ EndBatch
    BY <1>0, <1>3 DEF FlushPending, EndBatch, Authentic, Parsing, FlushPtr, HidStates, session, ghosts, NewestInv, Serving
  <1>4. ASSUME NEW kind, Dispatch(kind) PROVE pc = "parse" /\ Frame \in AllFrames /\ Frame.t = kind
    BY <1>4, HeadIsFrame DEF Dispatch, Authentic, Parsing
  <1>5. CASE KeyDown \/ KeyUp \/ KeyState
    <2>1. pc' = pc /\ pc = "parse" /\ pending' = pending /\ newest' = newest
      BY <1>4, <1>5 DEF KeyDown, KeyUp, KeyState
    <2>2. hid'.pos = hid.pos
      <3>1. ASSUME NEW h \in HidStates, h.pos = hid.pos, FlushKbd(h) PROVE hid'.pos = hid.pos
        BY <3>1 DEF FlushKbd, HidStates
      <3>2. CASE KeyDown
        <4>1. Press(hid, Frame.usage) \in HidStates
          BY <1>0, <1>4, <3>2, FrameData, PressType DEF KeyDown
        <4>2. Press(hid, Frame.usage).pos = hid.pos
          BY <1>0 DEF Press, HidStates
        <4> QED BY <3>1, <3>2, <4>1, <4>2 DEF KeyDown
      <3>3. CASE KeyUp
        <4>1. Release(hid, Frame.usage) \in HidStates
          BY <1>0, <1>4, <3>3, FrameData, ReleaseType DEF KeyUp
        <4>2. Release(hid, Frame.usage).pos = hid.pos
          BY <1>0 DEF Release, HidStates
        <4> QED BY <3>1, <3>3, <4>1, <4>2 DEF KeyUp
      <3>4. CASE KeyState
        BY <1>0, <3>4 DEF KeyState, FlushKbd, HidStates
      <3> QED BY <1>5, <3>2, <3>3, <3>4
    <2> QED BY <2>1, <2>2 DEF session, ghosts, NewestInv, Serving
  <1>6. CASE PointerAbs
    <2>1. Frame.pos \in Coord BY <1>4, <1>6, FrameData DEF PointerAbs
    <2> QED BY <1>0, <1>4, <1>6, <2>1 DEF PointerAbs, session, ghosts, NewestInv, Serving
  <1>7. CASE PointerButton \/ PointerWheel
    BY <1>0, <1>4, <1>7 DEF PointerButton, PointerWheel, FlushPtr, HidStates, session, ghosts, NewestInv, Serving
  <1>8. CASE ReleaseAll
    BY <1>4, <1>8 DEF ReleaseAll, Dispatch, NeedsFlush, session, ghosts, NewestInv, Serving
  <1> QED BY <1>1, <1>2, <1>3, <1>5, <1>6, <1>7, <1>8 DEF Parse

LEMMA NewestStep == TypeOK /\ NewestInv /\ [Next]_vars => NewestInv'
  <1> SUFFICES ASSUME TypeOK, NewestInv, [Next]_vars PROVE NewestInv' OBVIOUS
  <1>0. hid \in HidStates BY DEF TypeOK
  <1>1. CASE UNCHANGED vars
    BY <1>1 DEF vars, session, ghosts, NewestInv, Serving
  <1>2. CASE Accept
    BY <1>2 DEF Accept, FreshSession, NewestInv, Serving
  <1>3. CASE Stop
    BY <1>3 DEF Stop, EndSession, NewestInv, Serving
  <1>4. CASE ReleaseKbd \/ ReleasePtr
    BY <1>0, <1>4 DEF ReleaseKbd, ReleasePtr, FlushKbd, FlushPtr, ReleasedHid, HidStates, session, ghosts,
       NewestInv, Serving
  <1>5. CASE Session
    BY <1>5 DEF Session, ShutdownSeen, HeartbeatLost, ReadEnd, ReadBatch, ReadTimeout, Reading,
       EndSession, session, ghosts, NewestInv, Serving
  <1>6. CASE Environment
    BY <1>6 DEF Environment, Connect, PeerEnds, Signal, Stall, Resume, Detach, Attach, SlowWrite, Crash, Restart,
       daemon, session, ghosts, NewestInv, Serving
  <1> QED BY <1>1, <1>2, <1>3, <1>4, <1>5, <1>6, NewestParse DEF Next, Loop

LEMMA NewestInit == Init => NewestInv
  BY DEF Init, NewestInv, Serving

\* No final position is lost: the daemon never waits for bytes with one unreported.
THEOREM NoneLost == Spec => []Settled
  <1>1. NewestInv => Settled
    BY DEF NewestInv, Serving, Settled
  <1> QED BY <1>1, NewestInit, NewestStep, TypeCorrect, PTL DEF Spec

\* Buttons change and the wheel turns at the newest position only, batched as it may be.
THEOREM ClicksExact == Spec => ClickAtNewest
  <1> DEFINE Click == target'.buttons # target.buttons \/ PointerWheel
             Exact == Click /\ ~ending /\ attached /\ attached' => target'.pos = newest \div 2
  <1>1. TypeOK /\ NewestInv /\ Next => Exact
    <2> SUFFICES ASSUME TypeOK, NewestInv, Next, Click, ~ending, attached, attached'
                 PROVE  target'.pos = newest \div 2
      OBVIOUS
    <2>1. hid \in HidStates /\ target \in TargetStates /\ NoPos \notin Coord
          /\ pending \in Coord \cup {NoPos}
      BY BridgeAssumption DEF TypeOK
    <2>2. ReleasePtr \/ FlushPending \/ EndBatch \/ PointerButton \/ PointerWheel
      <3>1. ASSUME NEW h, FlushKbd(h) PROVE target'.buttons = target.buttons
        BY <2>1, <3>1 DEF FlushKbd, TargetStates
      <3>2. ASSUME UNCHANGED target PROVE PointerWheel
        BY <3>2
      <3>3. CASE Loop
        BY <3>1, <3>2, <3>3 DEF Loop, Accept, ReleaseKbd, Stop, EndSession, PointerWheel
      <3>4. CASE Session
        BY <3>2, <3>4 DEF Session, ShutdownSeen, HeartbeatLost, ReadEnd, ReadBatch, ReadTimeout, EndSession
      <3>5. CASE Parse
        BY <3>1, <3>2, <3>5 DEF Parse, Malformed, NoGreeting, SendFails, EndSession, Greet, NoEffect,
           KeyDown, KeyUp, KeyState, PointerAbs, ReleaseAll
      <3>6. CASE Environment
        BY <2>1, <3>2, <3>6 DEF Environment, Connect, PeerEnds, Signal, Stall, Resume,
           Detach, Attach, SlowWrite, Crash, Restart
      <3> QED BY <3>3, <3>4, <3>5, <3>6 DEF Next
    <2>3. ASSUME NEW h \in HidStates, NEW wheel, FlushPtr(h, wheel), h.pos = newest
          PROVE  target'.pos = newest \div 2
      BY <2>1, <2>3 DEF FlushPtr, TargetStates
    <2>4. CASE ReleasePtr
      BY <2>1, <2>3, <2>4 DEF ReleasePtr, NewestInv, Serving
    <2>5. CASE FlushPending \/ EndBatch
      <3>1. pending # NoPos \/ ~EndBatch
        BY <2>1 DEF EndBatch, PointerWheel, Dispatch, Authentic, Parsing
      <3>2. pc = "parse" /\ FlushPtr([hid EXCEPT !.pos = pending], FALSE) /\ pending # NoPos
        BY <2>5, <3>1 DEF FlushPending, EndBatch, Authentic, Parsing
      <3>3. [hid EXCEPT !.pos = pending] \in HidStates /\ [hid EXCEPT !.pos = pending].pos = newest
        BY <2>1, <3>2 DEF HidStates, NewestInv, Serving
      <3> QED BY <2>3, <3>2, <3>3
    <2>6. ASSUME NEW kind, Dispatch(kind), kind \in {"button", "wheel"} PROVE hid.pos = newest
      BY <2>6 DEF Dispatch, NeedsFlush, Authentic, Parsing, NewestInv, Serving
    <2>7. CASE PointerButton
      <3> DEFINE h == [hid EXCEPT !.buttons = Frame.bits \cap Buttons]
      <3>1. FlushPtr(h, FALSE) /\ hid.pos = newest BY <2>6, <2>7 DEF PointerButton
      <3>2. h \in HidStates /\ h.pos = newest BY <2>1, <3>1 DEF HidStates
      <3> HIDE DEF h
      <3> QED BY <2>3, <3>1, <3>2
    <2>8. CASE PointerWheel
      BY <2>1, <2>3, <2>6, <2>8 DEF PointerWheel
    <2> QED BY <2>2, <2>4, <2>5, <2>7, <2>8
  <1>2. TypeOK /\ NewestInv /\ [Next]_vars => [Exact]_vars
    BY <1>1
  <1> QED BY <1>2, NewestInit, NewestStep, TypeCorrect, PTL DEF Spec, ClickAtNewest
===========================================================================
