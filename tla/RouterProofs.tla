--------------------------- MODULE RouterProofs ---------------------------
(***************************************************************************)
(* For every set of keys, every bound and every fault of the link: types,  *)
(* the state file, RELEASE_ALL on every way back to local, the cursor's    *)
(* place, what the bridge does at the far end, and that the router and the *)
(* compositor agree on who has the input.                                  *)
(***************************************************************************)
EXTENDS Router, TLAPS

-----------------------------------------------------------------------------
(* Types.  What the queues and the wire hold, and the invariant in parts.    *)

Plain == {"deactivated", "frame", "scroll"} \cup {s \in {"disabled", "zones", "eigone"} : s \in Signals}
           \cup {s \in {"lock", "unlock"} : "lock" \in Signals}
Events == [t : Plain] \cup [t : {"activated"}, id : 1..MaxActs]
            \cup [t : {"key"}, key : Keys, down : BOOLEAN] \cup [t : {"button"}, down : BOOLEAN]
WireFrames == {RELEASE_ALL} \cup [t : {"key"}, key : Keys, down : BOOLEAN]
                \cup [t : {"buttons"}, down : BOOLEAN]
Links == {"none", "up", "half", "lost", "reset"}

LoopTyped == /\ pc \in {"keep", "retry", "fail", "flush", "recv", "leaving", "exit", "consent"}
             /\ active \in 0..MaxActs /\ emergency \subseteq HotKeys
             /\ space \in {"center", "edge", "remote"}
             /\ published \in {"local", "remote", "no-bridge", "none", "consent"} /\ due \subseteq Timers
CaptureTyped == /\ act \in 0..MaxActs /\ acts \in 0..MaxActs /\ cap \subseteq Inputs
                /\ warp \in {"none", "center", "edge"}
FarTyped == down \subseteq Inputs /\ faults \in 0..MaxFaults
QueuesTyped == rx \in Seq(Events) /\ threads \in [Sources -> Seq(Events)]
ConnTyped == link \in Links /\ wire \in Seq(WireFrames)
Flags == /\ events \in BOOLEAN /\ pending \in BOOLEAN /\ bridge \in BOOLEAN
         /\ shutdown \in BOOLEAN /\ armed \in BOOLEAN /\ locked \in BOOLEAN /\ ei \in BOOLEAN
         /\ sess \in BOOLEAN /\ pi \in BOOLEAN
Locks == locked => "lock" \in Signals
Typed == LoopTyped /\ CaptureTyped /\ FarTyped /\ QueuesTyped /\ ConnTyped /\ Flags /\ Locks

LEMMA AppendSeq ==
    ASSUME NEW S, NEW s \in Seq(S), NEW e \in S
    PROVE  /\ Append(s, e) \in Seq(S) /\ Len(Append(s, e)) = Len(s) + 1
           /\ Append(s, e)[Len(s) + 1] = e
           /\ \A x \in 1..Len(s) : Append(s, e)[x] = s[x]
  OBVIOUS

LEMMA TailSeq ==
    ASSUME NEW S, NEW s \in Seq(S), s # << >>
    PROVE  /\ Tail(s) \in Seq(S) /\ Len(Tail(s)) = Len(s) - 1 /\ Len(s) \in Nat \ {0}
           /\ Head(s) \in S /\ Head(s) = s[1]
           /\ \A x \in 1..Len(Tail(s)) : Tail(s)[x] = s[x + 1]
  OBVIOUS

LEMMA ConcatSeq ==
    ASSUME NEW S, NEW s \in Seq(S), NEW u \in Seq(S)
    PROVE  s \o u \in Seq(S)
  OBVIOUS

LEMMA EventData ==
    /\ \A e \in Events : /\ e.t \in EventKinds
                         /\ e.t = "activated" => e.id \in 1..MaxActs
                         /\ e.t = "key" => e \in WireFrames /\ e.key \in Keys
                         /\ e.t = "button" => e.down \in BOOLEAN
    /\ \A f \in WireFrames : f.t \in {"key", "buttons", "release"}
    /\ Ev("deactivated") \in Events
  BY DEF Events, WireFrames, EventKinds, Plain, RELEASE_ALL, Ev

LEMMA TypedOK == Typed => TypeOK
  <1> SUFFICES ASSUME Typed PROVE TypeOK OBVIOUS
  <1>1. {events, pending, bridge, shutdown, armed, locked, ei, sess, pi} \subseteq BOOLEAN
    BY Zenon DEF Typed, Flags
  <1>2. \A i \in DOMAIN rx : rx[i].t \in EventKinds
    BY EventData DEF Typed, QueuesTyped
  <1>3. \A s \in Sources : \A i \in DOMAIN threads[s] : threads[s][i].t \in EventKinds
    <2> SUFFICES ASSUME NEW s \in Sources, NEW i \in DOMAIN threads[s] PROVE threads[s][i] \in Events
      BY EventData
    <2>1. threads[s] \in Seq(Events) BY DEF Typed, QueuesTyped
    <2> QED BY <2>1
  <1>4. \A i \in DOMAIN wire : wire[i].t \in {"key", "buttons", "release"}
    BY EventData DEF Typed, ConnTyped
  <1> QED BY <1>1, <1>2, <1>3, <1>4 DEF Typed, LoopTyped, CaptureTyped, FarTyped, ConnTyped, Links, TypeOK

LEMMA InitTyped == Init => Typed
  <1> SUFFICES ASSUME Init PROVE Typed OBVIOUS
  <1>1. Flags /\ Locks BY Zenon DEF Init, Flags, Locks
  <1>2. LoopTyped /\ CaptureTyped /\ FarTyped /\ ConnTyped
    BY RouterAssumption DEF Init, LoopTyped, CaptureTyped, FarTyped, ConnTyped, Links
  <1>3. QueuesTyped BY DEF Init, QueuesTyped
  <1> QED BY <1>1, <1>2, <1>3 DEF Typed

-----------------------------------------------------------------------------
(* What the helpers do. *)

LEMMA WriteTyped ==
    ASSUME ConnTyped, NEW fs \in Seq(WireFrames), Write(fs)
    PROVE  ConnTyped'
  <1>1. wire \o fs \in Seq(WireFrames) BY ConcatSeq DEF ConnTyped
  <1> QED BY <1>1 DEF Write, ConnTyped, Links

LEMMA EmitTyped ==
    ASSUME QueuesTyped, NEW source \in Sources, NEW ev \in Events, NEW rest \in Seq(Events),
           Emit(source, ev, rest)
    PROVE  QueuesTyped'
  <1>1. Append(rest, ev) \in Seq(Events) BY AppendSeq
  <1>2. threads[source] \in Seq(Events) BY DEF QueuesTyped
  <1>3. Append(threads[source], ev) \in Seq(Events) BY <1>2, AppendSeq
  <1> QED BY <1>1, <1>3 DEF Emit, QueuesTyped

LEMMA PortalTyped ==
    ASSUME QueuesTyped, LoopTyped, CaptureTyped, NEW id, NEW rest \in Seq(Events),
           PortalRelease(id, rest)
    PROVE  /\ QueuesTyped' /\ act' \in {act, 0} /\ cap' \in {cap, {}}
           /\ warp' \in {"none", "center", "edge"}
  <1>1. ASSUME rx' = rest, UNCHANGED threads PROVE QueuesTyped'
    BY <1>1 DEF QueuesTyped
  <1>2. CASE id = 0 \/ id # act
    BY <1>1, <1>2 DEF PortalRelease, capture, CaptureTyped
  <1>3. CASE ~(id = 0 \/ id # act)
    <2>1. act' = 0 /\ cap' = {} /\ warp' = Local(space) BY <1>3 DEF PortalRelease
    <2>2. warp' \in {"center", "edge"} BY <2>1 DEF Local, LoopTyped
    <2>3. Emit("deactivated", Ev("deactivated"), rest) \/ (rx' = rest /\ UNCHANGED threads)
      BY <1>3 DEF PortalRelease
    <2>4. QueuesTyped' BY <1>1, <2>3, EmitTyped, EventData DEF Sources
    <2> QED BY <2>1, <2>2, <2>4
  <1> QED BY <1>2, <1>3

LEMMA GoLocalTyped ==
    ASSUME Typed, NEW b, NEW id, NEW rest \in Seq(Events), GoLocal(b, id, rest)
    PROVE  /\ QueuesTyped' /\ ConnTyped' /\ act' \in {act, 0} /\ cap' \in {cap, {}}
           /\ warp' \in {"none", "center", "edge"} /\ active' = 0 /\ space' \in {"center", "edge"}
           /\ published' \in {"local", "no-bridge"}
  <1>1. QueuesTyped' /\ act' \in {act, 0} /\ cap' \in {cap, {}} /\ warp' \in {"none", "center", "edge"}
    BY PortalTyped DEF GoLocal, Typed
  <1>2. ConnTyped'
    <2>1. <<RELEASE_ALL>> \in Seq(WireFrames) BY DEF WireFrames
    <2> QED BY <2>1, WriteTyped DEF GoLocal, Typed, conn, ConnTyped
  <1>3. active' = 0 /\ space' \in {"center", "edge"} /\ published' \in {"local", "no-bridge"}
    BY DEF GoLocal, Local, Typed, LoopTyped
  <1> QED BY <1>1, <1>2, <1>3

\* What Recv leaves, and what it takes.
LEMMA RecvData ==
    ASSUME Typed, NEW kind, Recv(kind)
    PROVE  /\ Rest \in Seq(Events) /\ Head(rx) \in Events /\ Head(rx).t = kind
           /\ UNCHANGED <<shutdown, acts, locked, ei, sess, down, pi, faults>>
  BY TailSeq DEF Recv, Rest, Typed, QueuesTyped, far

-----------------------------------------------------------------------------
(* Flags: Boolean variables, action group by action group. *)

Bit(old, new) == new = old \/ new = TRUE \/ new = FALSE

LEMMA BitType == ASSUME NEW old \in BOOLEAN, NEW new, Bit(old, new) PROVE new \in BOOLEAN
  BY Zenon DEF Bit

LEMMA FlagsTop == ASSUME Typed, Top PROVE Flags' /\ Locks'
  <1>1. UNCHANGED <<events, shutdown, armed, locked, ei, pi>>
    BY DEF Top, ShutdownSeen, Keepalive, BridgeDead, NoKeepalive, Reconnect, NoReconnect, Failsafe,
       NoFailsafe, Flush, RecvTimeout, loop, compositor, far
  <1>2. Bit(bridge, bridge') /\ Bit(sess, sess')
    BY DEF Bit, Top, ShutdownSeen, Keepalive, BridgeDead, NoKeepalive, Reconnect, NoReconnect, Failsafe,
       NoFailsafe, Flush, RecvTimeout, GoLocal, loop, far
  <1>3. pending' \in BOOLEAN
    <2>1. CASE Flush
      <3>1. pending' = FALSE \/ pending' = (pending /\ active # 0) BY <2>1 DEF Flush
      <3> QED BY <3>1, Zenon DEF Typed, Flags
    <2>2. CASE ~Flush
      <3>1. pending' = pending
        BY <2>2 DEF Top, ShutdownSeen, Keepalive, BridgeDead, NoKeepalive, Reconnect, NoReconnect, Failsafe,
           NoFailsafe, RecvTimeout, loop
      <3> QED BY <3>1 DEF Typed, Flags
    <2> QED BY <2>1, <2>2
  <1>4. Flags'
    BY <1>1, <1>2, <1>3, BitType, Zenon DEF Typed, Flags
  <1> QED BY <1>1, <1>4 DEF Typed, Locks

LEMMA FlagsHandle == ASSUME Typed, Handle PROVE Flags' /\ Locks'
  <1>1. UNCHANGED <<shutdown, locked, ei, sess, pi>>
    BY DEF Handle, ActivatedRefused, Activated, Deactivated, Disabled, Unlocked, Leave, Stray, Key,
       EmergencyReturn, MouseButton, Motion, CrossBack, Captured, Recv, far
  <1>2. Bit(events, events') /\ Bit(pending, pending') /\ Bit(bridge, bridge')
    BY DEF Bit, Handle, ActivatedRefused, Activated, Deactivated, Disabled, Unlocked, Leave, Stray, Key,
       EmergencyReturn, MouseButton, Motion, CrossBack, Captured, LocalIfRemote, GoLocal, loop
  <1>3. armed' \in BOOLEAN
    <2>1. armed' = armed \/ armed' = FALSE \/ armed' = ~locked
      BY DEF Handle, ActivatedRefused, Activated, Deactivated, Disabled, Unlocked, Leave, Stray, Key,
         EmergencyReturn, MouseButton, Motion, CrossBack, Captured
    <2> QED BY <2>1, Zenon DEF Typed, Flags
  <1>4. Flags'
    BY <1>1, <1>2, <1>3, BitType, Zenon DEF Typed, Flags
  <1> QED BY <1>1, <1>4 DEF Typed, Locks

LEMMA FlagsProcess == ASSUME Typed, Process PROVE Flags' /\ Locks'
  <1>1. UNCHANGED locked
    BY DEF Process, Exit, Killed, Gone, Launch, Granted, Refused, Signal, Elapse, LongElapse, Forward, compositor
  <1>2. Bit(events, events') /\ Bit(pending, pending') /\ Bit(bridge, bridge')
        /\ Bit(shutdown, shutdown')
    BY DEF Bit, Process, Exit, Killed, Gone, Launch, Granted, Refused, Signal, Elapse, LongElapse, Forward, loop
  <1>3. Bit(armed, armed') /\ Bit(ei, ei') /\ Bit(sess, sess') /\ Bit(pi, pi')
    BY DEF Bit, Process, Exit, Killed, Gone, Launch, Granted, Refused, Signal, Elapse, LongElapse, Forward, compositor, far
  <1>4. Flags'
    BY <1>1, <1>2, <1>3, BitType, Zenon DEF Typed, Flags
  <1> QED BY <1>1, <1>4 DEF Typed, Locks

LEMMA FlagsCompositor == ASSUME Typed, Compositor PROVE Flags' /\ Locks'
  <1>1. UNCHANGED <<events, pending, bridge, shutdown, sess, pi>>
    BY DEF Compositor, Cross, Input, Yank, Lock, Unlock, EiEnds, Ends, router, loop, far
  <1>2. Bit(armed, armed') /\ Bit(locked, locked') /\ Bit(ei, ei')
    BY DEF Bit, Compositor, Cross, Input, Yank, Lock, Unlock, EiEnds, Ends
  <1>3. Locks'
    <2>1. CASE Lock BY <2>1 DEF Lock, Locks
    <2>2. CASE Unlock BY <2>2 DEF Unlock, Locks
    <2>3. CASE Cross \/ Input \/ Yank \/ EiEnds \/ Ends("disabled") \/ Ends("zones")
      BY <2>3 DEF Typed, Locks, Cross, Input, Yank, EiEnds, Ends
    <2> QED BY <2>1, <2>2, <2>3 DEF Compositor
  <1> QED BY <1>1, <1>2, <1>3, BitType, Zenon DEF Typed, Flags

LEMMA FlagsPi == ASSUME Typed, PiSide PROVE Flags' /\ Locks'
  <1>1. UNCHANGED <<events, pending, bridge, shutdown, armed, locked, ei>>
    BY DEF PiSide, Apply, SessionEnds, Drop, Crash, PowerLoss, Boot, NetworkLoss, KernelGivesUp,
       near, loop, compositor
  <1>2. Bit(sess, sess') /\ Bit(pi, pi')
    BY DEF Bit, PiSide, Apply, SessionEnds, Drop, Crash, PowerLoss, Boot, NetworkLoss, KernelGivesUp, far
  <1>3. Flags'
    BY <1>1, <1>2, BitType, Zenon DEF Typed, Flags
  <1> QED BY <1>1, <1>3 DEF Typed, Locks

-----------------------------------------------------------------------------
(* The rest of the state, action group by action group. *)

Rests == LoopTyped /\ CaptureTyped /\ FarTyped /\ QueuesTyped /\ ConnTyped

LEMMA RestsTop == ASSUME Typed, Top PROVE Rests'
  <1> USE DEF Rests
  <1>0. /\ rx \in Seq(Events) /\ << >> \in Seq(WireFrames) /\ <<RELEASE_ALL>> \in Seq(WireFrames)
        /\ 0 \in 0..MaxActs
    BY RouterAssumption DEF Typed, QueuesTyped, WireFrames
  <1>1. CASE ShutdownSeen \/ Failsafe
    <2>1. GoLocal(bridge, active, rx) BY <1>1 DEF ShutdownSeen, Failsafe
    <2>2. /\ UNCHANGED <<emergency, due, acts, far>> /\ pc' \in {"leaving", "flush"}
      BY <1>1 DEF ShutdownSeen, Failsafe
    <2> QED BY <1>0, <2>1, <2>2, GoLocalTyped DEF far, Typed, LoopTyped, CaptureTyped, FarTyped
  <1>2. CASE Keepalive
    <2>1. ConnTyped' BY <1>0, <1>2, WriteTyped DEF Keepalive, Typed
    <2> QED BY <1>2, <2>1 DEF Keepalive, loop, queues, compositor, capture, far, Typed, LoopTyped, CaptureTyped,
           FarTyped, QueuesTyped
  <1>3. CASE BridgeDead
    <2>1. CASE active # 0
      <3>1. PortalRelease(active, rx) BY <1>3, <2>1 DEF BridgeDead
      <3>2. QueuesTyped' /\ act' \in {act, 0} /\ cap' \in {cap, {}} /\ warp' \in {"none", "center", "edge"}
        BY <1>0, <3>1, PortalTyped DEF Typed
      <3>3. space' \in {"center", "edge"} /\ active' = 0
        BY <1>3, <2>1 DEF BridgeDead, Local, Typed, LoopTyped
      <3> QED BY <1>0, <1>3, <3>2, <3>3 DEF BridgeDead, far, Typed, LoopTyped, CaptureTyped, FarTyped, ConnTyped, Links
    <2>2. CASE active = 0
      BY <1>3, <2>2 DEF BridgeDead, queues, capture, far, Typed, LoopTyped, CaptureTyped, FarTyped,
         QueuesTyped, ConnTyped, Links
    <2> QED BY <2>1, <2>2
  <1>4. CASE Reconnect
    BY <1>0, <1>4 DEF Reconnect, queues, compositor, capture, Typed, LoopTyped, CaptureTyped, FarTyped,
       QueuesTyped, ConnTyped, Links
  <1>5. CASE NoKeepalive \/ NoReconnect \/ NoFailsafe \/ RecvTimeout
    BY <1>5 DEF NoKeepalive, NoReconnect, NoFailsafe, RecvTimeout, loop, queues, compositor, capture, conn, far,
       Typed, LoopTyped, CaptureTyped, FarTyped, QueuesTyped, ConnTyped, Links
  <1>6. CASE Flush
    <2>1. ConnTyped'
      <3>1. Write(<< >>) \/ UNCHANGED conn BY <1>6 DEF Flush
      <3> QED BY <1>0, <3>1, WriteTyped DEF Typed, conn, ConnTyped
    <2>2. due' \subseteq Timers BY <1>6 DEF Flush, Sent, Typed, LoopTyped
    <2> QED BY <1>6, <2>1, <2>2 DEF Flush, queues, compositor, capture, far, Typed, LoopTyped, CaptureTyped,
           FarTyped, QueuesTyped
  <1> QED BY <1>1, <1>2, <1>3, <1>4, <1>5, <1>6 DEF Top

LEMMA RestsHandle == ASSUME Typed, Handle PROVE Rests'
  <1> USE DEF Rests
  <1>0. 0 \in 0..MaxActs BY RouterAssumption
  <1>1. PICK kind : Recv(kind)
    BY DEF Handle, ActivatedRefused, Activated, Deactivated, Disabled, Unlocked, Leave, Stray, Key,
       EmergencyReturn, MouseButton, Motion, CrossBack, Captured
  <1>2. /\ Rest \in Seq(Events) /\ Head(rx) \in Events
        /\ UNCHANGED <<acts, down, faults>>
    BY <1>1, RecvData
  <1>3. pc' \in {"keep", "leaving"}
    BY DEF Handle, ActivatedRefused, Activated, Deactivated, Disabled, Unlocked, Leave, Stray, Key,
       EmergencyReturn, MouseButton, Motion, CrossBack, Captured
  <1>4. due' \subseteq Timers
    BY DEF Handle, ActivatedRefused, Activated, Deactivated, Disabled, Unlocked, Leave, Stray, Key,
       EmergencyReturn, MouseButton, Motion, CrossBack, LocalIfRemote, Sent, Typed, LoopTyped
  <1>5. emergency' \subseteq HotKeys
    <2>1. CASE Key
      <3>1. emergency' = Combo BY <2>1 DEF Key
      <3>2. Combo \subseteq HotKeys BY DEF Combo, Typed, LoopTyped
      <3> QED BY <3>1, <3>2
    <2>2. CASE ~Key
      BY <2>2 DEF Handle, ActivatedRefused, Activated, Deactivated, Disabled, Unlocked, Leave, Stray,
         EmergencyReturn, MouseButton, Motion, CrossBack, LocalIfRemote, loop, Typed, LoopTyped
    <2> QED BY <2>1, <2>2
  <1>6. FarTyped' BY <1>2 DEF Typed, FarTyped
  <1>7. ASSUME NEW b, NEW id, GoLocal(b, id, Rest) PROVE Rests'
    BY <1>0, <1>2, <1>3, <1>4, <1>5, <1>6, <1>7, GoLocalTyped DEF Typed, LoopTyped, CaptureTyped
  <1>8. CASE ActivatedRefused \/ Leave \/ EmergencyReturn \/ CrossBack
    <2>1. \E b, id : GoLocal(b, id, Rest)
      BY <1>8 DEF ActivatedRefused, Leave, EmergencyReturn, CrossBack
    <2> QED BY <1>7, <2>1
  <1>9. ASSUME Consume PROVE QueuesTyped' /\ UNCHANGED capture
    BY <1>2, <1>9 DEF Consume, Typed, QueuesTyped
  <1>10. CASE Deactivated \/ Disabled
    <2>1. LocalIfRemote BY <1>10 DEF Deactivated, Disabled
    <2>2. CASE active # 0 BY <1>7, <2>1, <2>2 DEF LocalIfRemote
    <2>3. CASE active = 0
      BY <1>2, <1>3, <1>4, <1>5, <1>6, <1>9, <2>1, <2>3
         DEF LocalIfRemote, capture, conn, Typed, LoopTyped, CaptureTyped, ConnTyped
    <2> QED BY <2>2, <2>3
  <1>11. CASE Activated
    <2>1. active' \in 0..MaxActs
      <3>1. Recv("activated") /\ active' = Head(rx).id BY <1>11 DEF Activated
      <3>2. Head(rx).id \in 1..MaxActs BY <3>1, RecvData, EventData
      <3> QED BY <3>1, <3>2, RouterAssumption
    <2>2. ConnTyped'
      <3>1. << >> \in Seq(WireFrames) OBVIOUS
      <3> QED BY <1>11, <3>1, WriteTyped DEF Activated, Typed
    <2> QED BY <1>2, <1>3, <1>4, <1>5, <1>6, <1>9, <1>11, <2>1, <2>2
           DEF Activated, capture, Typed, LoopTyped, CaptureTyped
  <1>12. CASE Unlocked
    BY <1>0, <1>2, <1>3, <1>4, <1>5, <1>6, <1>12 DEF Unlocked, loop, conn, Typed, LoopTyped, CaptureTyped,
       QueuesTyped, ConnTyped
  <1>13. CASE Stray
    BY <1>2, <1>3, <1>4, <1>5, <1>6, <1>9, <1>13 DEF Stray, loop, conn, capture, Typed, LoopTyped, CaptureTyped, ConnTyped
  <1>14. CASE Key \/ MouseButton \/ Motion
    <2>1. ConnTyped'
      <3>1. CASE UNCHANGED conn BY <3>1 DEF conn, Typed, ConnTyped
      <3>2. CASE Motion BY <3>1, <3>2 DEF Motion, conn
      <3>3. CASE Key
        <4>1. Recv("key") BY <3>3 DEF Key, Captured
        <4>2. Head(rx) \in WireFrames BY <4>1, RecvData, EventData
        <4>3. <<Head(rx)>> \in Seq(WireFrames) BY <4>2
        <4>4. Write(<<Head(rx)>>) \/ UNCHANGED conn BY <3>3 DEF Key, conn
        <4> QED BY <3>1, <4>3, <4>4, WriteTyped DEF Typed
      <3>4. CASE MouseButton
        <4>1. Recv("button") BY <3>4 DEF MouseButton, Captured
        <4>2. Head(rx).down \in BOOLEAN BY <4>1, RecvData, EventData
        <4>3. <<[t |-> "buttons", down |-> Head(rx).down]>> \in Seq(WireFrames) BY <4>2 DEF WireFrames
        <4>4. Write(<<[t |-> "buttons", down |-> Head(rx).down]>>) \/ UNCHANGED conn
          BY <3>4 DEF MouseButton, conn
        <4> QED BY <3>1, <4>3, <4>4, WriteTyped DEF Typed
      <3> QED BY <1>14, <3>2, <3>3, <3>4
    <2>2. Consume /\ UNCHANGED <<active, space, published>> BY <1>14 DEF Key, MouseButton, Motion
    <2> QED BY <1>2, <1>3, <1>4, <1>5, <1>6, <1>9, <2>1, <2>2 DEF capture, Typed, LoopTyped, CaptureTyped
  <1> QED BY <1>8, <1>10, <1>11, <1>12, <1>13, <1>14 DEF Handle

LEMMA RestsProcess == ASSUME Typed, Process PROVE Rests'
  <1> USE DEF Rests
  <1>0. 0 \in 0..MaxActs /\ << >> \in Seq(WireFrames) /\ << >> \in Seq(Events)
    BY RouterAssumption
  <1>1. CASE Gone
    <2>1. faults' \in 0..MaxFaults
      BY RouterAssumption DEF Process, Exit, Killed, Launch, Granted, Refused, Signal, Fault, Elapse, LongElapse,
         Forward, far, Typed, FarTyped
    <2>2. published' \in {published, "none", "consent", "local", "no-bridge"}
      BY DEF Process, Exit, Killed, Launch, Granted, Refused, Signal, Elapse, LongElapse, Forward, loop
    <2>3. QueuesTyped' BY <1>0, <1>1 DEF Gone, QueuesTyped
    <2> QED BY <1>0, <1>1, <2>1, <2>2, <2>3 DEF Gone, Typed, LoopTyped, CaptureTyped, FarTyped, ConnTyped, Links
  <1>2. CASE Launch \/ Granted
    BY <1>0, <1>2 DEF Launch, Granted, queues, compositor, capture, conn, far, Typed, LoopTyped, CaptureTyped,
       FarTyped, QueuesTyped, ConnTyped, Links
  <1>3. CASE Signal
    <2>1. CASE pc = "consent" BY <1>1, <1>3, <2>1 DEF Signal
    <2>2. CASE pc # "consent"
      BY <1>3, <2>2, RouterAssumption DEF Signal, Fault, loop, queues, compositor, capture, conn, Typed, LoopTyped,
         CaptureTyped, FarTyped, QueuesTyped, ConnTyped
    <2> QED BY <2>1, <2>2
  <1>4. CASE Elapse \/ LongElapse
    <2>1. Running \subseteq Timers BY DEF Running
    <2>2. due' \subseteq Timers BY <1>4, <2>1 DEF Elapse, LongElapse, Typed, LoopTyped
    <2> QED BY <1>4, <2>2 DEF Elapse, LongElapse, loop, queues, compositor, capture, conn, far, Typed, LoopTyped,
           CaptureTyped, FarTyped, QueuesTyped, ConnTyped
  <1>5. ASSUME NEW s \in Sources, Forward(s) PROVE Rests'
    <2>1. threads[s] \in Seq(Events) /\ threads[s] # << >> BY <1>5 DEF Forward, Typed, QueuesTyped
    <2>2. Head(threads[s]) \in Events /\ Tail(threads[s]) \in Seq(Events) BY <2>1, TailSeq
    <2>3. Append(rx, Head(threads[s])) \in Seq(Events) BY <2>2, AppendSeq DEF Typed, QueuesTyped
    <2>4. QueuesTyped' BY <1>5, <2>2, <2>3 DEF Forward, Typed, QueuesTyped
    <2> QED BY <1>5, <2>4 DEF Forward, loop, compositor, capture, conn, far, Typed, LoopTyped, CaptureTyped,
           FarTyped, ConnTyped
  <1> QED BY <1>1, <1>2, <1>3, <1>4, <1>5 DEF Process, Exit, Killed, Refused

LEMMA RestsCompositor == ASSUME Typed, Compositor PROVE Rests'
  <1> USE DEF Rests
  <1>0. rx \in Seq(Events) /\ 0 \in 0..MaxActs BY RouterAssumption DEF Typed, QueuesTyped
  <1>1. UNCHANGED router
    BY DEF Compositor, Cross, Input, Yank, Lock, Unlock, EiEnds, Ends
  <1>2. LoopTyped' /\ FarTyped' /\ ConnTyped'
    BY <1>1 DEF router, loop, conn, far, Typed, LoopTyped, FarTyped, ConnTyped
  <1>3. ASSUME NEW source \in Sources, NEW ev \in Events, Emit(source, ev, rx) PROVE QueuesTyped'
    BY <1>0, <1>3, EmitTyped DEF Typed
  <1>4. CASE Cross
    <2>1. acts' \in 1..MaxActs BY <1>4, RouterAssumption DEF Cross, Typed, CaptureTyped
    <2>2. [t |-> "activated", id |-> acts'] \in Events BY <2>1 DEF Events
    <2>3. QueuesTyped' BY <1>3, <1>4, <2>2 DEF Cross, Sources
    <2> QED BY <1>2, <1>4, <2>1, <2>3 DEF Cross, Typed, CaptureTyped
  <1>5. CASE Input
    <2>1. cap' \subseteq Inputs /\ QueuesTyped'
      <3>1. ASSUME NEW k \in Keys, NEW d \in BOOLEAN PROVE KeyEv(k, d) \in Events
        BY DEF KeyEv, Events
      <3>2. [t |-> "button", down |-> Button \notin cap] \in Events
        <4>1. (Button \notin cap) \in BOOLEAN OBVIOUS
        <4> QED BY <4>1 DEF Events
      <3>3. \A kind \in Pointing \ {"button"} : Ev(kind) \in Events
        BY RouterAssumption DEF Ev, Events, Plain
      <3>4. cap \subseteq Inputs /\ Keys \subseteq Inputs /\ Button \in Inputs /\ "ei" \in Sources
        BY DEF Typed, CaptureTyped, Inputs, Sources
      <3>5. CASE \E k \in Keys \ cap : cap' = cap \cup {k} /\ Emit("ei", KeyEv(k, TRUE), rx)
        BY <1>3, <3>1, <3>4, <3>5
      <3>6. CASE \E k \in cap \cap Keys : cap' = cap \ {k} /\ Emit("ei", KeyEv(k, FALSE), rx)
        BY <1>3, <3>1, <3>4, <3>6
      <3>7. CASE /\ cap' = IF Button \in cap THEN cap \ {Button} ELSE cap \cup {Button}
                 /\ Emit("ei", [t |-> "button", down |-> Button \notin cap], rx)
        BY <1>3, <3>2, <3>4, <3>7
      <3>8. CASE \E kind \in Pointing \ {"button"} : Emit("ei", Ev(kind), rx) /\ UNCHANGED cap
        BY <1>3, <3>3, <3>4, <3>8
      <3> QED BY <1>5, <3>5, <3>6, <3>7, <3>8 DEF Input
    <2> QED BY <1>2, <1>5, <2>1 DEF Input, Typed, CaptureTyped
  <1>6. CASE Yank
    <2>1. QueuesTyped' BY <1>3, <1>6, EventData DEF Yank, Sources
    <2> QED BY <1>0, <1>2, <1>6, <2>1 DEF Yank, Typed, CaptureTyped
  <1>7. CASE EiEnds
    <2>1. Ev("eigone") \in Events BY <1>7 DEF EiEnds, Ev, Events, Plain
    <2>2. QueuesTyped' BY <1>3, <1>7, <2>1 DEF EiEnds, Sources
    <2> QED BY <1>0, <1>2, <1>7, <2>2 DEF EiEnds, Typed, CaptureTyped
  <1>8. ASSUME NEW kind \in {"disabled", "zones"}, Ends(kind) PROVE Rests'
    <2>1. Ev(kind) \in Events BY <1>8 DEF Ends, Ev, Events, Plain
    <2>2. QueuesTyped' BY <1>3, <1>8, <2>1 DEF Ends, Sources
    <2> QED BY <1>0, <1>2, <1>8, <2>2 DEF Ends, Typed, CaptureTyped
  <1>9. CASE Lock
    <2>1. Ev("lock") \in Events BY <1>9 DEF Lock, Ev, Events, Plain
    <2>2. QueuesTyped' BY <1>3, <1>9, <2>1 DEF Lock, Saver, queues, Typed, QueuesTyped, Sources
    <2> QED BY <1>0, <1>2, <1>9, <2>2 DEF Lock, Typed, CaptureTyped
  <1>10. CASE Unlock
    <2>1. Ev("unlock") \in Events BY <1>10 DEF Unlock, Typed, Locks, Ev, Events, Plain
    <2>2. QueuesTyped' BY <1>3, <1>10, <2>1 DEF Unlock, Saver, queues, Typed, QueuesTyped, Sources
    <2> QED BY <1>2, <1>10, <2>2 DEF Unlock, capture, Typed, CaptureTyped
  <1> QED BY <1>4, <1>5, <1>6, <1>7, <1>8, <1>9, <1>10 DEF Compositor

LEMMA RestsPi == ASSUME Typed, PiSide PROVE Rests'
  <1> USE DEF Rests
  <1>1. LoopTyped' /\ CaptureTyped' /\ QueuesTyped'
    <2>1. UNCHANGED near
      BY DEF PiSide, Apply, SessionEnds, Drop, Crash, PowerLoss, Boot, NetworkLoss, KernelGivesUp
    <2> QED BY <2>1 DEF near, loop, queues, compositor, capture, Typed, LoopTyped, CaptureTyped, QueuesTyped
  <1>2. faults' \in 0..MaxFaults
    BY RouterAssumption DEF PiSide, Apply, SessionEnds, Drop, Crash, PowerLoss, Boot, NetworkLoss, KernelGivesUp,
       Fault, far, Typed, FarTyped
  <1>3. CASE Apply
    <2>1. Head(wire) \in WireFrames /\ Tail(wire) \in Seq(WireFrames)
      BY <1>3, TailSeq DEF Apply, Typed, ConnTyped
    <2>2. After(Head(wire)) \subseteq Inputs
      BY <2>1 DEF After, WireFrames, Inputs, RELEASE_ALL, Ev, Typed, FarTyped
    <2> QED BY <1>1, <1>2, <1>3, <2>1, <2>2 DEF Apply, FarTyped, Typed, ConnTyped
  <1>4. CASE ~Apply
    <2>1. down' \in {down, {}} /\ link' \in Links
      BY <1>4 DEF PiSide, SessionEnds, Drop, Crash, PowerLoss, Boot, NetworkLoss, KernelGivesUp, conn, far,
         Typed, ConnTyped, Links
    <2>2. wire' = wire \/ wire' = << >>
      BY <1>4 DEF PiSide, SessionEnds, Drop, Crash, PowerLoss, Boot, NetworkLoss, KernelGivesUp, conn
    <2>3. wire' \in Seq(WireFrames)
      <3>1. << >> \in Seq(WireFrames) OBVIOUS
      <3> QED BY <2>2, <3>1 DEF Typed, ConnTyped
    <2> QED BY <1>1, <1>2, <2>1, <2>3 DEF Typed, FarTyped, ConnTyped
  <1> QED BY <1>3, <1>4

LEMMA NextTyped == Typed /\ [Next]_vars => Typed'
  <1> SUFFICES ASSUME Typed, [Next]_vars PROVE Typed' OBVIOUS
  <1>1. CASE UNCHANGED vars
    <2>1. Rests'
      BY <1>1 DEF vars, loop, queues, compositor, capture, conn, far, Rests, Typed, LoopTyped, CaptureTyped,
         FarTyped, QueuesTyped, ConnTyped
    <2>2. Flags' /\ Locks'
      BY <1>1, Zenon DEF vars, loop, compositor, far, Typed, Flags, Locks
    <2> QED BY <2>1, <2>2 DEF Typed, Rests
  <1>2. CASE Top BY <1>2, FlagsTop, RestsTop DEF Typed, Rests
  <1>3. CASE Handle BY <1>3, FlagsHandle, RestsHandle DEF Typed, Rests
  <1>4. CASE Process BY <1>4, FlagsProcess, RestsProcess DEF Typed, Rests
  <1>5. CASE Compositor BY <1>5, FlagsCompositor, RestsCompositor DEF Typed, Rests
  <1>6. CASE PiSide BY <1>6, FlagsPi, RestsPi DEF Typed, Rests
  <1> QED BY <1>1, <1>2, <1>3, <1>4, <1>5, <1>6 DEF Next

\* The types, for all keys, bounds, signals and faults.
THEOREM TypeCorrect == Spec => []TypeOK
  BY InitTyped, NextTyped, TypedOK, PTL DEF Spec

-----------------------------------------------------------------------------
(* The state file.  It is written wherever active_id or the client change,   *)
(* and while the router is remote it has a client: so it is true at every    *)
(* step of the loop, not only where the router waits.                        *)

Truth == IF active # 0 THEN "remote" ELSE IF bridge THEN "local" ELSE "no-bridge"
TruthInv == /\ active # 0 => bridge
            /\ pc \in {"exit", "consent"} => ~bridge
            /\ InLoop => published = Truth

LEMMA NextTruth == Typed /\ TruthInv /\ [Next]_vars => TruthInv'
  <1> SUFFICES ASSUME Typed, TruthInv, [Next]_vars PROVE TruthInv' OBVIOUS
  <1>1. ASSUME NEW b, NEW id, NEW rest, GoLocal(b, id, rest), pc' \notin {"exit", "consent"} PROVE TruthInv'
    BY <1>1 DEF GoLocal, TruthInv, Truth, InLoop
  <1>2. CASE Top
    <2>1. CASE ShutdownSeen \/ Failsafe
      BY <1>1, <2>1 DEF ShutdownSeen, Failsafe
    <2>2. CASE ~(ShutdownSeen \/ Failsafe)
      BY <1>2, <2>2 DEF Top, Keepalive, KeepaliveDue, BridgeDead, NoKeepalive, Reconnect, NoReconnect, NoFailsafe,
         Flush, RecvTimeout, loop, TruthInv, Truth, InLoop
    <2> QED BY <2>1, <2>2
  <1>3. CASE Handle
    <2>1. CASE ActivatedRefused \/ Leave \/ EmergencyReturn \/ CrossBack
      BY <1>1, <2>1 DEF ActivatedRefused, Leave, EmergencyReturn, CrossBack, Captured
    <2>2. CASE Activated
      <3>1. active' # 0
        <4>1. Recv("activated") /\ active' = Head(rx).id BY <2>2 DEF Activated
        <4>2. Head(rx).id \in 1..MaxActs BY <4>1, RecvData, EventData
        <4> QED BY <4>1, <4>2, RouterAssumption
      <3> QED BY <2>2, <3>1 DEF Activated, TruthInv, Truth, InLoop
    <2>3. CASE Deactivated \/ Disabled
      BY <1>1, <2>3 DEF Deactivated, Disabled, LocalIfRemote, Recv, TruthInv, Truth, InLoop
    <2>4. CASE Unlocked \/ Stray \/ Key \/ MouseButton \/ Motion
      <3>1. UNCHANGED <<active, bridge, published>> /\ pc = "recv" /\ pc' \notin {"exit", "consent"}
        BY <2>4 DEF Unlocked, Stray, Key, MouseButton, Motion, Captured, Recv, loop
      <3> QED BY <3>1 DEF TruthInv, Truth, InLoop
    <2> QED BY <1>3, <2>1, <2>2, <2>3, <2>4 DEF Handle
  <1>4. CASE Process
    <2>1. CASE Gone
      <3>1. pc' = "exit" /\ active' = 0 /\ bridge' = FALSE BY <2>1 DEF Gone
      <3> QED BY <3>1 DEF TruthInv, InLoop
    <2>2. CASE Launch \/ Granted BY <2>2 DEF Launch, Granted, TruthInv, Truth, InLoop
    <2>3. CASE ~(Gone \/ Launch \/ Granted)
      <3>1. UNCHANGED <<pc, loop>>
        BY <1>4, <2>3 DEF Process, Exit, Killed, Refused, Signal, Elapse, LongElapse, Forward
      <3> QED BY <3>1 DEF loop, TruthInv, Truth, InLoop
    <2> QED BY <2>1, <2>2, <2>3
  <1>5. CASE Compositor
    <2>1. UNCHANGED router
      BY <1>5 DEF Compositor, Cross, Input, Yank, Lock, Unlock, EiEnds, Ends
    <2> QED BY <2>1 DEF router, loop, TruthInv, Truth, InLoop
  <1>6. CASE PiSide
    BY <1>6 DEF PiSide, Apply, SessionEnds, Drop, Crash, PowerLoss, Boot, NetworkLoss, KernelGivesUp,
       near, loop, TruthInv, Truth, InLoop
  <1>7. CASE UNCHANGED vars
    BY <1>7 DEF vars, loop, TruthInv, Truth, InLoop
  <1> QED BY <1>2, <1>3, <1>4, <1>5, <1>6, <1>7 DEF Next

\* The state file tells the truth whenever the router waits for an event, whatever fails.
THEOREM Published == Spec => []PublishedTruth
  <1>1. Init => TruthInv BY DEF Init, TruthInv, Truth, InLoop
  <1>2. TruthInv => PublishedTruth BY DEF TruthInv, Truth, InLoop, PublishedTruth
  <1> QED BY <1>1, <1>2, InitTyped, NextTyped, NextTruth, PTL DEF Spec

-----------------------------------------------------------------------------
(* RELEASE_ALL.  A router that starts sends none: so a bridge that crashed   *)
(* with keys down must not meet a new router.  Without crashes, or with a    *)
(* router that never ends, the release is always in what is in flight.       *)

NeverEnds == Signals \cap {"disabled", "zones", "lock", "eigone"} = {} /\ Faults \cap {"kill", "signal"} = {}
Covered(w, held) ==
    /\ held # {} => \E j \in 1..Len(w) : w[j] = RELEASE_ALL
    /\ \A i \in DOMAIN w : w[i] # RELEASE_ALL /\ w[i].down => \E j \in i..Len(w) : w[j] = RELEASE_ALL
QuietInv == /\ link # "none" <=> bridge
            /\ "crash" \notin Faults /\ ~sess => down = {}
            /\ active = 0 /\ link = "up" => Covered(wire, down)
RunsInv == NeverEnds => /\ ~shutdown /\ pc # "leaving"
                        /\ pc \in {"exit", "consent"} => ~sess /\ down = {}

LEMMA NextRuns == Typed /\ RunsInv /\ [Next]_vars => RunsInv'
  <1> DEFINE Untouched == pc \in {"exit", "consent"} => ~sess /\ down = {}
  <1> SUFFICES ASSUME Typed, RunsInv, NeverEnds, [Next]_vars
               PROVE  ~shutdown' /\ pc' # "leaving" /\ Untouched'
    BY DEF RunsInv
  <1>0. ~shutdown /\ pc # "leaving" /\ Untouched /\ Signals \cap {"disabled", "zones", "lock", "eigone"} = {}
    BY DEF RunsInv, NeverEnds
  <1>1. CASE Top
    BY <1>0, <1>1 DEF Top, ShutdownSeen, Keepalive, BridgeDead, NoKeepalive, Reconnect, NoReconnect, Failsafe,
       NoFailsafe, Flush, RecvTimeout
  <1>2. CASE Handle
    <2>1. ASSUME NEW kind, Recv(kind) PROVE kind \notin {"disabled", "unlock", "zones", "eigone"} /\ ~shutdown'
      BY <1>0, <2>1, RecvData DEF Events, Plain
    <2>2. ~Disabled /\ ~Unlocked /\ ~Leave
      BY <2>1 DEF Disabled, Unlocked, Leave
    <2>3. pc' = "keep"
      BY <1>2, <2>2 DEF Handle, ActivatedRefused, Activated, Deactivated, Stray, Key, EmergencyReturn,
         MouseButton, Motion, CrossBack, Captured
    <2> QED BY <1>2, <2>1, <2>2, <2>3 DEF Handle, ActivatedRefused, Activated, Deactivated, Stray, Key, EmergencyReturn,
           MouseButton, Motion, CrossBack, Captured
  <1>3. CASE Process
    <2>1. ~Exit /\ ~Killed /\ ~Signal BY <1>0 DEF Exit, Killed, Signal, Fault, NeverEnds
    <2>2. CASE Refused BY <1>0, <2>2 DEF Refused, Gone
    <2>3. CASE Launch \/ Granted BY <1>0, <2>3 DEF Launch, Granted, far
    <2>4. CASE Elapse \/ LongElapse \/ \E s \in Sources : Forward(s)
      BY <1>0, <2>4 DEF Elapse, LongElapse, Forward, far
    <2> QED BY <1>3, <2>1, <2>2, <2>3, <2>4 DEF Process
  <1>4. CASE Compositor
    <2>1. UNCHANGED router
      BY <1>4 DEF Compositor, Cross, Input, Yank, Lock, Unlock, EiEnds, Ends
    <2> QED BY <1>0, <2>1 DEF router, far
  <1>5. CASE PiSide
    BY <1>0, <1>5 DEF PiSide, Apply, SessionEnds, Drop, Crash, PowerLoss, Boot, NetworkLoss, KernelGivesUp, near, far
  <1>6. CASE UNCHANGED vars BY <1>0, <1>6 DEF vars, far
  <1> QED BY <1>1, <1>2, <1>3, <1>4, <1>5, <1>6 DEF Next

\* A written RELEASE_ALL covers all that is in flight before it.
LEMMA ReleaseCovers ==
    ASSUME NEW w \in Seq(WireFrames), NEW held
    PROVE  Covered(w \o <<RELEASE_ALL>>, held)
  <1> DEFINE u == w \o <<RELEASE_ALL>>
  <1>1. Len(u) = Len(w) + 1 /\ u[Len(u)] = RELEASE_ALL /\ Len(w) \in Nat /\ DOMAIN u = 1..Len(u)
    BY DEF WireFrames
  <1> HIDE DEF u
  <1>2. Covered(u, held) BY <1>1 DEF Covered
  <1> QED BY <1>2 DEF u

\* What is applied is no longer in flight.
LEMMA ApplyCovers ==
    ASSUME Typed, Covered(wire, down), Apply
    PROVE  Covered(wire', down')
  <1>1. /\ wire' = Tail(wire) /\ wire' \in Seq(WireFrames) /\ Len(wire') = Len(wire) - 1
        /\ Len(wire) \in Nat \ {0} /\ Head(wire) = wire[1] /\ wire[1] \in WireFrames
        /\ \A x \in 1..Len(wire') : wire'[x] = wire[x + 1]
    BY TailSeq DEF Apply, Typed, ConnTyped
  <1>2. DOMAIN wire' = 1..Len(wire') /\ DOMAIN wire = 1..Len(wire)
    BY <1>1 DEF Typed, ConnTyped
  <1>3. ASSUME NEW i \in 1..Len(wire'), \E j \in (i + 1)..Len(wire) : wire[j] = RELEASE_ALL
        PROVE  \E j \in i..Len(wire') : wire'[j] = RELEASE_ALL
    <2>1. PICK j \in (i + 1)..Len(wire) : wire[j] = RELEASE_ALL BY <1>3
    <2>2. j - 1 \in i..Len(wire') /\ wire'[j - 1] = RELEASE_ALL
      <3>1. j - 1 \in 1..Len(wire') /\ j - 1 >= i BY <1>1, <2>1
      <3>2. wire'[j - 1] = wire[(j - 1) + 1] /\ (j - 1) + 1 = j BY <1>1, <3>1, <2>1
      <3> QED BY <2>1, <3>1, <3>2
    <2> QED BY <2>2
  <1>4. \A i \in DOMAIN wire' : wire'[i] # RELEASE_ALL /\ wire'[i].down
            => \E j \in i..Len(wire') : wire'[j] = RELEASE_ALL
    <2> SUFFICES ASSUME NEW i \in 1..Len(wire'), wire'[i] # RELEASE_ALL, wire'[i].down
                 PROVE  \E j \in i..Len(wire') : wire'[j] = RELEASE_ALL
      BY <1>2
    <2>1. i + 1 \in DOMAIN wire /\ wire[i + 1] # RELEASE_ALL /\ wire[i + 1].down
      BY <1>1, <1>2
    <2>2. \E j \in (i + 1)..Len(wire) : wire[j] = RELEASE_ALL BY <2>1 DEF Covered
    <2> QED BY <1>3, <2>2
  <1>5. ASSUME down' # {} PROVE \E j \in 1..Len(wire') : wire'[j] = RELEASE_ALL
    <2>1. down' = After(wire[1]) BY <1>1 DEF Apply
    <2>2. wire[1].t # "release" BY <1>5, <2>1 DEF After
    <2>3. wire[1] # RELEASE_ALL /\ wire[1].t \in {"key", "buttons"}
      BY <1>1, <2>2, EventData DEF RELEASE_ALL, Ev
    <2>4. wire[1].down \/ down # {}
      BY <1>5, <2>1, <2>3 DEF After
    <2>5. \E j \in 1..Len(wire) : wire[j] = RELEASE_ALL
      BY <1>1, <1>2, <2>3, <2>4 DEF Covered
    <2>6. \E j \in 2..Len(wire) : wire[j] = RELEASE_ALL
      BY <1>1, <2>3, <2>5
    <2>7. 1 \in 1..Len(wire') BY <1>1, <2>6
    <2> QED BY <1>3, <2>6, <2>7
  <1> QED BY <1>4, <1>5 DEF Covered

LEMMA NextQuiet ==
    ASSUME "crash" \notin Faults \/ NeverEnds,
           Typed, TruthInv, RunsInv, QuietInv, [Next]_vars
    PROVE  QuietInv'
  <1>0. wire \in Seq(WireFrames) BY DEF Typed, ConnTyped
  <1>1. ASSUME NEW fs, Write(fs) PROVE link' # "none" <=> link # "none"
    BY <1>1 DEF Write
  <1>2. ASSUME NEW b, NEW id, NEW rest, GoLocal(b, id, rest), b <=> bridge, UNCHANGED <<sess, down>>
        PROVE  QuietInv'
    <2>1. CASE b
      <3>1. Write(<<RELEASE_ALL>>) /\ bridge' = b BY <1>2, <2>1 DEF GoLocal
      <3>2. link' # "none" <=> bridge' BY <1>1, <1>2, <3>1 DEF QuietInv
      <3>3. ASSUME link' = "up" PROVE Covered(wire', down')
        <4>1. wire' = wire \o <<RELEASE_ALL>> BY <3>1, <3>3 DEF Write
        <4> QED BY <1>0, <4>1, ReleaseCovers
      <3> QED BY <1>2, <3>2, <3>3 DEF QuietInv
    <2>2. CASE ~b
      BY <1>2, <2>2 DEF GoLocal, conn, QuietInv
    <2> QED BY <2>1, <2>2
  <1>3. CASE Top
    <2>1. CASE ShutdownSeen \/ Failsafe
      <3>1. \E id : GoLocal(bridge, id, rx) /\ UNCHANGED <<sess, down>>
        BY <2>1 DEF ShutdownSeen, Failsafe, far
      <3> QED BY <1>2, <3>1
    <2>2. CASE Keepalive
      <3>1. UNCHANGED <<bridge, active, sess, down>> /\ Write(<< >>) BY <2>2 DEF Keepalive, loop, far
      <3>2. link' = "up" => wire' = wire \o << >> /\ link = "up" BY <3>1 DEF Write
      <3>3. wire \o << >> = wire BY <1>0
      <3> QED BY <1>1, <3>1, <3>2, <3>3 DEF QuietInv
    <2>3. CASE BridgeDead
      BY <2>3 DEF BridgeDead, far, QuietInv
    <2>4. CASE Reconnect
      <3>1. link' = "up" /\ bridge' = TRUE /\ sess' = TRUE /\ wire' = <<RELEASE_ALL>>
        BY <2>4 DEF Reconnect
      <3>2. Covered(wire', down') BY <3>1 DEF Covered
      <3> QED BY <3>1, <3>2 DEF QuietInv
    <2>5. CASE NoKeepalive \/ NoReconnect \/ NoFailsafe \/ RecvTimeout
      BY <2>5 DEF NoKeepalive, NoReconnect, NoFailsafe, RecvTimeout, loop, conn, far, QuietInv
    <2>6. CASE Flush
      <3>1. UNCHANGED <<active, bridge, sess, down>> BY <2>6 DEF Flush, far
      <3>2. UNCHANGED conn \/ (active # 0 /\ Write(<< >>)) BY <2>6 DEF Flush
      <3> QED BY <1>1, <3>1, <3>2 DEF conn, QuietInv
    <2> QED BY <1>3, <2>1, <2>2, <2>3, <2>4, <2>5, <2>6 DEF Top
  <1>4. CASE Handle
    <2>0. UNCHANGED <<sess, down>>
      BY <1>4 DEF Handle, ActivatedRefused, Activated, Deactivated, Disabled, Unlocked, Leave, Stray, Key,
         EmergencyReturn, MouseButton, Motion, CrossBack, Captured, Recv, far
    <2>1. CASE ActivatedRefused \/ Leave \/ EmergencyReturn \/ CrossBack
      <3>1. \E b, id : GoLocal(b, id, Rest) /\ (b <=> bridge)
        <4>1. CASE ActivatedRefused BY <4>1 DEF ActivatedRefused
        <4>2. CASE Leave \/ EmergencyReturn \/ CrossBack
          BY <4>2 DEF Leave, EmergencyReturn, CrossBack
        <4> QED BY <2>1, <4>1, <4>2
      <3> QED BY <1>2, <2>0, <3>1
    <2>2. CASE Activated
      <3>1. active' # 0 /\ bridge' = bridge /\ Write(<< >>)
        <4>1. Recv("activated") /\ active' = Head(rx).id BY <2>2 DEF Activated
        <4>2. Head(rx).id \in 1..MaxActs BY <4>1, RecvData, EventData
        <4> QED BY <2>2, <4>1, <4>2, RouterAssumption DEF Activated
      <3> QED BY <1>1, <2>0, <3>1 DEF QuietInv
    <2>3. CASE Deactivated \/ Disabled
      <3>1. LocalIfRemote BY <2>3 DEF Deactivated, Disabled
      <3>2. CASE active # 0 BY <1>2, <2>0, <3>1, <3>2 DEF LocalIfRemote
      <3>3. CASE active = 0 BY <2>0, <3>1, <3>3 DEF LocalIfRemote, conn, QuietInv
      <3> QED BY <3>2, <3>3
    <2>4. CASE Unlocked \/ Stray
      BY <2>0, <2>4 DEF Unlocked, Stray, loop, conn, QuietInv
    <2>5. CASE Key \/ MouseButton \/ Motion
      <3>1. active # 0 /\ active' = active /\ bridge' = bridge
        BY <2>5 DEF Key, MouseButton, Motion, Captured
      <3>2. UNCHANGED conn \/ \E fs : Write(fs) BY <2>5 DEF Key, MouseButton, Motion, conn
      <3> QED BY <1>1, <2>0, <3>1, <3>2 DEF conn, QuietInv
    <2> QED BY <1>4, <2>1, <2>2, <2>3, <2>4, <2>5 DEF Handle
  <1>5. CASE Process
    <2>1. CASE Gone
      BY <2>1 DEF Gone, QuietInv
    <2>2. CASE Granted
      <3>1. ~bridge /\ link = "none" BY <2>2 DEF Granted, TruthInv, QuietInv
      <3>2. CASE bridge' = FALSE /\ UNCHANGED <<conn, sess>>
        BY <2>2, <3>1, <3>2 DEF Granted, conn, QuietInv
      <3>3. CASE ~sess /\ bridge' = TRUE /\ link' = "up" /\ wire' = << >> /\ sess' = TRUE
        <4>1. down' = {} BY <2>2, <3>3 DEF Granted, QuietInv, RunsInv
        <4>2. Covered(wire', down') BY <3>3, <4>1 DEF Covered
        <4> QED BY <3>3, <4>2 DEF QuietInv
      <3> QED BY <2>2, <3>2, <3>3 DEF Granted
    <2>3. CASE ~(Gone \/ Granted)
      <3>1. UNCHANGED <<active, bridge, conn, sess, down>>
        BY <1>5, <2>3 DEF Process, Exit, Killed, Launch, Refused, Signal, Elapse, LongElapse, Forward, loop, far
      <3> QED BY <3>1 DEF conn, QuietInv
    <2> QED BY <2>1, <2>2, <2>3
  <1>6. CASE Compositor
    <2>1. UNCHANGED router
      BY <1>6 DEF Compositor, Cross, Input, Yank, Lock, Unlock, EiEnds, Ends
    <2> QED BY <2>1 DEF router, loop, conn, far, QuietInv
  <1>7. CASE PiSide
    <2>0. UNCHANGED <<bridge, active>>
      BY <1>7 DEF PiSide, Apply, SessionEnds, Drop, Crash, PowerLoss, Boot, NetworkLoss, KernelGivesUp, near, loop
    <2>1. CASE Apply
      BY <2>0, <2>1, ApplyCovers DEF Apply, QuietInv
    <2>2. CASE Crash
      BY <2>0, <2>2 DEF Crash, Fault, QuietInv
    <2>3. CASE Boot
      BY <2>0, <2>3 DEF Boot, conn, QuietInv
    <2>4. CASE SessionEnds \/ Drop \/ PowerLoss \/ NetworkLoss \/ KernelGivesUp
      BY <2>0, <2>4 DEF SessionEnds, Drop, PowerLoss, NetworkLoss, KernelGivesUp, conn, far, QuietInv
    <2> QED BY <1>7, <2>1, <2>2, <2>3, <2>4 DEF PiSide
  <1>8. CASE UNCHANGED vars
    BY <1>8 DEF vars, loop, conn, far, QuietInv
  <1> QED BY <1>3, <1>4, <1>5, <1>6, <1>7, <1>8 DEF Next

\* Every way back to local releases the target: with no crash of the bridge and any end of the
\* router, or with a router that never ends and any fault of the bridge and the network.
THEOREM Quiet == ("crash" \notin Faults \/ NeverEnds) => (Spec => []QuietWhenLocal)
  <1> SUFFICES ASSUME "crash" \notin Faults \/ NeverEnds PROVE Spec => []QuietWhenLocal
    OBVIOUS
  <1>1. Init => TruthInv /\ RunsInv /\ QuietInv
    BY DEF Init, TruthInv, Truth, InLoop, RunsInv, QuietInv, Covered
  <1>2. Typed /\ TruthInv /\ RunsInv /\ QuietInv /\ [Next]_vars => TruthInv' /\ RunsInv' /\ QuietInv'
    BY NextTruth, NextRuns, NextQuiet
  <1>3. QuietInv => QuietWhenLocal
    BY DEF QuietInv, Covered, QuietWhenLocal, ReleasedAfter
  <1> QED BY <1>1, <1>2, <1>3, InitTyped, NextTyped, PTL DEF Spec

-----------------------------------------------------------------------------
(* The cursor.  While an activation is on, the model is on the remote        *)
(* screen; only a release moves the cursor, and it is for that activation.   *)

RemoteInv == active # 0 => space = "remote"

LEMMA NextRemote == RemoteInv /\ [Next]_vars => RemoteInv'
  <1> SUFFICES ASSUME RemoteInv, [Next]_vars PROVE RemoteInv' OBVIOUS
  <1>1. ASSUME NEW b, NEW id, NEW rest, GoLocal(b, id, rest) PROVE RemoteInv'
    BY <1>1 DEF GoLocal, RemoteInv
  <1>2. CASE Top
    BY <1>1, <1>2 DEF Top, ShutdownSeen, Keepalive, BridgeDead, NoKeepalive, Reconnect, NoReconnect, Failsafe,
       NoFailsafe, Flush, RecvTimeout, loop, RemoteInv
  <1>3. CASE Handle
    BY <1>1, <1>3 DEF Handle, ActivatedRefused, Activated, Deactivated, Disabled, Unlocked, Leave, Stray, Key,
       EmergencyReturn, MouseButton, Motion, CrossBack, LocalIfRemote, loop, RemoteInv
  <1>4. CASE Process
    BY <1>4 DEF Process, Exit, Killed, Gone, Launch, Granted, Refused, Signal, Elapse, LongElapse, Forward, loop, RemoteInv
  <1>5. CASE Compositor
    <2>1. UNCHANGED router
      BY <1>5 DEF Compositor, Cross, Input, Yank, Lock, Unlock, EiEnds, Ends
    <2> QED BY <2>1 DEF router, loop, RemoteInv
  <1>6. CASE PiSide
    BY <1>6 DEF PiSide, Apply, SessionEnds, Drop, Crash, PowerLoss, Boot, NetworkLoss, KernelGivesUp,
       near, loop, RemoteInv
  <1>7. CASE UNCHANGED vars
    BY <1>7 DEF vars, loop, RemoteInv
  <1> QED BY <1>2, <1>3, <1>4, <1>5, <1>6, <1>7 DEF Next

\* Whenever an accepted capture is given back, the cursor goes to the edge it left by.
THEOREM BackAtEdge == Spec => CursorAtEdge
  <1> DEFINE AtEdge == warp' # warp /\ ~ActivatedRefused => warp' = "edge"
  <1>1. RemoteInv /\ [Next]_vars => [AtEdge]_vars
    <2> SUFFICES ASSUME RemoteInv, Next, warp' # warp, ~ActivatedRefused PROVE warp' = "edge"
      OBVIOUS
    <2>1. ASSUME NEW rest, PortalRelease(active, rest) PROVE warp' = "edge"
      BY <2>1 DEF PortalRelease, Local, RemoteInv, capture
    <2>2. ASSUME NEW b, NEW rest, GoLocal(b, active, rest) PROVE warp' = "edge"
      BY <2>1, <2>2 DEF GoLocal
    <2>3. CASE Top
      BY <2>1, <2>2, <2>3 DEF Top, ShutdownSeen, Keepalive, BridgeDead, NoKeepalive, Reconnect, NoReconnect, Failsafe,
         NoFailsafe, Flush, RecvTimeout, compositor, capture
    <2>4. CASE Handle
      BY <2>2, <2>4 DEF Handle, Activated, Deactivated, Disabled, Unlocked, Leave, Stray, Key, Consume,
         EmergencyReturn, MouseButton, Motion, CrossBack, LocalIfRemote, capture
    <2>5. CASE Process
      BY <2>5 DEF Process, Exit, Killed, Gone, Launch, Granted, Refused, Signal, Elapse, LongElapse, Forward, compositor, capture
    <2>6. CASE Compositor
      BY <2>6 DEF Compositor, Cross, Input, Yank, Lock, Unlock, EiEnds, Ends, capture
    <2>7. CASE PiSide
      BY <2>7 DEF PiSide, Apply, SessionEnds, Drop, Crash, PowerLoss, Boot, NetworkLoss, KernelGivesUp,
         near, compositor, capture
    <2> QED BY <2>3, <2>4, <2>5, <2>6, <2>7 DEF Next
  <1>2. Init => RemoteInv BY DEF Init, RemoteInv
  <1> QED BY <1>1, <1>2, NextRemote, PTL DEF Spec, CursorAtEdge
-----------------------------------------------------------------------------
(* The far end is the bridge of module Bridge: unless it is killed, it does  *)
(* to the target only what InputLease allows.                                *)

Lease == INSTANCE InputLease WITH Conns <- {"router"}, NoConn <- "none",
                                  holder <- IF sess THEN "router" ELSE "none"
LeaseKept == [][Lease!LeaseNext]_(Lease!leaseVars)

ReleasedInv == ~sess => down = {}

LEMMA LeaseStep ==
    ASSUME "crash" \notin Faults, Typed, Typed', ReleasedInv, [Next]_vars
    PROVE  ReleasedInv' /\ [Lease!LeaseNext]_(Lease!leaseVars)
  <1>0. sess \in BOOLEAN /\ sess' \in BOOLEAN /\ down' \subseteq Inputs
    BY DEF Typed, Flags, FarTyped
  <1> DEFINE Stays == sess' = sess /\ down' = down
             Grants == ~sess /\ sess' /\ down' = down
             Uses == sess /\ sess'
             GivesBack == sess /\ ~sess' /\ down' = {}
             Lawful == Stays \/ Grants \/ Uses \/ GivesBack
  <1>1. ASSUME Top PROVE Lawful
    <2>1. CASE Reconnect
      <3>1. Grants BY <2>1 DEF Reconnect
      <3> QED BY <3>1
    <2>2. CASE ~Reconnect
      BY <1>1, <2>2 DEF Top, ShutdownSeen, Keepalive, BridgeDead, NoKeepalive, NoReconnect, Failsafe, NoFailsafe,
         Flush, RecvTimeout, far
    <2> QED BY <2>1, <2>2
  <1>2. ASSUME Handle PROVE Lawful
    BY <1>2 DEF Handle, ActivatedRefused, Activated, Deactivated, Disabled, Unlocked, Leave, Stray, Key,
       EmergencyReturn, MouseButton, Motion, CrossBack, Captured, Recv, far
  <1>3. ASSUME Process PROVE Lawful
    <2>1. CASE Granted BY <1>0, <2>1 DEF Granted
    <2>2. CASE ~Granted
      BY <1>3, <2>2 DEF Process, Exit, Killed, Gone, Launch, Refused, Signal, Elapse, LongElapse, Forward, far
    <2> QED BY <2>1, <2>2
  <1>4. ASSUME Compositor PROVE Lawful
    BY <1>4 DEF Compositor, Cross, Input, Yank, Lock, Unlock, EiEnds, Ends, router, far
  <1>5. ASSUME PiSide PROVE Lawful
    <2>1. CASE Apply BY <1>0, <2>1 DEF Apply
    <2>2. CASE SessionEnds \/ Drop \/ PowerLoss
      BY <1>0, <2>2 DEF SessionEnds, Drop, PowerLoss, ReleasedInv
    <2>3. CASE Boot \/ NetworkLoss \/ KernelGivesUp
      BY <2>3 DEF Boot, NetworkLoss, KernelGivesUp, far
    <2> QED BY <1>5, <2>1, <2>2, <2>3 DEF PiSide, Crash, Fault
  <1>6. ASSUME UNCHANGED vars PROVE Lawful BY <1>6 DEF vars, far
  <1>7. Lawful BY <1>1, <1>2, <1>3, <1>4, <1>5, <1>6 DEF Next
  <1> HIDE DEF Lawful
  <1>8. ReleasedInv' BY <1>7 DEF Lawful, ReleasedInv
  <1>9. CASE Stays BY <1>8, <1>9 DEF Lease!leaseVars
  <1>10. CASE Grants
    BY <1>0, <1>8, <1>10 DEF Lease!LeaseNext, Lease!Grant
  <1>11. CASE Uses
    BY <1>0, <1>8, <1>11 DEF Lease!LeaseNext, Lease!Use
  <1>12. CASE GivesBack
    BY <1>0, <1>8, <1>12 DEF Lease!LeaseNext, Lease!GiveBack
  <1> QED BY <1>7, <1>8, <1>9, <1>10, <1>11, <1>12 DEF Lawful

\* What Router takes the bridge to do is what Bridge is proved to do: keys and buttons go
\* down only in the router's session, and however it ends, nothing is down after it.
THEOREM UsesLease == "crash" \notin Faults => (Spec => LeaseKept)
  <1> SUFFICES ASSUME "crash" \notin Faults PROVE Spec => LeaseKept
    OBVIOUS
  <1>1. Init => ReleasedInv BY DEF Init, ReleasedInv
  <1>2. Typed /\ Typed' /\ ReleasedInv /\ [Next]_vars => ReleasedInv' /\ [Lease!LeaseNext]_(Lease!leaseVars)
    BY LeaseStep
  <1> QED BY <1>1, <1>2, InitTyped, NextTyped, PTL DEF Spec, LeaseKept
-----------------------------------------------------------------------------
(* In step.  If the forwarding threads keep the compositor's order, and no   *)
(* lock ends a capture without a signal, what the channel still holds is the *)
(* whole difference between the two ideas of who has the input.              *)

Activation(e) == e.t = "activated"
Cut(e) == e.t \in {"deactivated", "disabled", "zones"}
Ender(e) == Cut(e) \/ e.t = "eigone"

\* Of a channel q, the router's activation a, the compositor's c and their number m: each
\* activation in q is newer than all before it; the one captured for has been taken, or is
\* in q, and nothing after it ends it; behind every other one there is something that does.
Growing(q, a, m) == \A x \in 1..Len(q) : Activation(q[x]) =>
    /\ a < q[x].id /\ q[x].id <= m
    /\ \A y \in 1..Len(q) : x < y /\ Activation(q[y]) => q[x].id < q[y].id
Current(q, a, c) == \/ a = c /\ \A x \in 1..Len(q) : ~Cut(q[x])
                    \/ \E x \in 1..Len(q) : /\ Activation(q[x]) /\ q[x].id = c
                                            /\ \A y \in 1..Len(q) : x < y => ~Cut(q[y])
Stale(q, a, c) == /\ a \notin {0, c} => \E y \in 1..Len(q) : Ender(q[y])
                  /\ \A x \in 1..Len(q) : Activation(q[x]) /\ q[x].id # c =>
                        \E y \in 1..Len(q) : x < y /\ Ender(q[y])
Agreed(q, a, c, m) == /\ c # 0 => c = m /\ Current(q, a, c)
                      /\ Growing(q, a, m) /\ Stale(q, a, c)

Numbered == \A e \in Events : e.t = "activated" => e.id \in Nat \ {0}
LEMMA AllNumbered == Numbered
  BY EventData, RouterAssumption DEF Numbered

\* Going local ends the capture if it is the router's own.
LEMMA AgreedLocal ==
    ASSUME NEW q \in Seq(Events), NEW a \in Nat, NEW c \in Nat, NEW m \in Nat, Agreed(q, a, c, m)
    PROVE  Agreed(q, 0, IF a = c THEN 0 ELSE c, m)
  <1>1. \A x \in 1..Len(q) : Activation(q[x]) => q[x].id \in Nat \ {0}
    BY AllNumbered DEF Numbered, Activation
  <1>2. Growing(q, 0, m) BY <1>1 DEF Agreed, Growing
  <1>3. CASE a = c /\ c # 0
    <2>1. \A x \in 1..Len(q) : ~Activation(q[x]) BY <1>1, <1>3 DEF Agreed, Growing
    <2> QED BY <1>2, <1>3, <2>1 DEF Agreed, Stale
  <1>4. CASE a # c \/ c = 0
    <2>1. c # 0 => Current(q, 0, c) BY <1>4 DEF Agreed, Current
    <2>2. Stale(q, 0, c) BY DEF Agreed, Stale
    <2> QED BY <1>2, <1>4, <2>1, <2>2 DEF Agreed
  <1> QED BY <1>3, <1>4

\* An event is taken that is no activation; one that ends a capture finds the router local.
LEMMA AgreedTaken ==
    ASSUME NEW q \in Seq(Events), NEW a \in Nat, NEW c \in Nat, NEW m \in Nat, Agreed(q, a, c, m),
           q # << >>, ~Activation(Head(q)), Ender(Head(q)) => a = 0
    PROVE  Agreed(Tail(q), a, c, m)
  <1>1. PICK r \in Seq(Events) : r = Tail(q) BY TailSeq
  <1>2. /\ Len(r) = Len(q) - 1 /\ Len(q) \in Nat \ {0} /\ Head(q) = q[1]
        /\ \A x \in 1..Len(r) : r[x] = q[x + 1]
    BY <1>1, TailSeq
  <1>3. \A y \in 2..Len(q) : y - 1 \in 1..Len(r) /\ r[y - 1] = q[y]
    <2> SUFFICES ASSUME NEW y \in 2..Len(q) PROVE y - 1 \in 1..Len(r) /\ r[y - 1] = q[y]
      OBVIOUS
    <2>1. y - 1 \in 1..Len(r) /\ (y - 1) + 1 = y BY <1>2
    <2> QED BY <1>2, <2>1
  <1>4. \A x \in 1..Len(r) : x + 1 \in 2..Len(q) BY <1>2
  <1>5. Growing(r, a, m)
    <2> SUFFICES ASSUME NEW x \in 1..Len(r), Activation(r[x])
                 PROVE  /\ a < r[x].id /\ r[x].id <= m
                        /\ \A y \in 1..Len(r) : x < y /\ Activation(r[y]) => r[x].id < r[y].id
      BY DEF Growing
    <2>1. PICK u : u = x + 1 OBVIOUS
    <2>2. u \in 1..Len(q) /\ r[x] = q[u] BY <1>2, <2>1
    <2>3. ASSUME NEW y \in 1..Len(r), x < y, Activation(r[y]) PROVE r[x].id < r[y].id
      <3>1. PICK v : v = y + 1 OBVIOUS
      <3>2. v \in 1..Len(q) /\ r[y] = q[v] /\ u < v BY <1>2, <2>1, <2>3, <3>1
      <3> QED BY <2>2, <2>3, <3>2 DEF Agreed, Growing
    <2> QED BY <2>2, <2>3 DEF Agreed, Growing
  <1>6. ASSUME c # 0 PROVE Current(r, a, c)
    <2>1. CASE a = c /\ \A x \in 1..Len(q) : ~Cut(q[x])
      BY <1>2, <1>4, <2>1 DEF Current
    <2>2. ASSUME NEW x \in 1..Len(q), Activation(q[x]), q[x].id = c, \A y \in 1..Len(q) : x < y => ~Cut(q[y])
          PROVE  Current(r, a, c)
      <3>1. PICK z : z = x - 1 OBVIOUS
      <3>2. x \in 2..Len(q) BY <1>2, <2>2
      <3>3. z \in 1..Len(r) /\ r[z] = q[x] BY <1>3, <3>1, <3>2
      <3>4. ASSUME NEW y \in 1..Len(r), z < y PROVE ~Cut(r[y])
        <4>1. PICK v : v = y + 1 OBVIOUS
        <4>2. v \in 1..Len(q) /\ r[y] = q[v] /\ x < v BY <1>2, <3>1, <3>2, <3>4, <4>1
        <4> QED BY <2>2, <4>2
      <3> QED BY <2>2, <3>3, <3>4 DEF Current
    <2> QED BY <1>6, <2>1, <2>2 DEF Agreed, Current
  <1>7. Stale(r, a, c)
    <2>1. ASSUME a \notin {0, c} PROVE \E y \in 1..Len(r) : Ender(r[y])
      <3>1. PICK y \in 1..Len(q) : Ender(q[y]) BY <2>1 DEF Agreed, Stale
      <3>2. y \in 2..Len(q) BY <1>2, <2>1, <3>1
      <3> QED BY <1>3, <3>1, <3>2
    <2>2. ASSUME NEW x \in 1..Len(r), Activation(r[x]), r[x].id # c
          PROVE  \E y \in 1..Len(r) : x < y /\ Ender(r[y])
      <3>1. PICK u : u = x + 1 OBVIOUS
      <3>2. u \in 1..Len(q) /\ r[x] = q[u] BY <1>2, <3>1
      <3>3. PICK v \in 1..Len(q) : u < v /\ Ender(q[v]) BY <2>2, <3>2 DEF Agreed, Stale
      <3>4. PICK y : y = v - 1 OBVIOUS
      <3>5. y \in 1..Len(r) /\ r[y] = q[v] /\ x < y BY <1>3, <3>1, <3>3, <3>4
      <3> QED BY <3>3, <3>5
    <2> QED BY <2>1, <2>2 DEF Stale
  <1> QED BY <1>1, <1>5, <1>6, <1>7 DEF Agreed

\* An activation is taken: the router's is the one at the head.
LEMMA AgreedActivated ==
    ASSUME NEW q \in Seq(Events), NEW a \in Nat, NEW c \in Nat, NEW m \in Nat, Agreed(q, a, c, m),
           q # << >>, Activation(Head(q))
    PROVE  Head(q).id \in Nat \ {0} /\ Agreed(Tail(q), Head(q).id, c, m)
  <1>1. PICK r \in Seq(Events), i \in {Head(q).id} : r = Tail(q) /\ i = Head(q).id BY TailSeq
  <1>2. /\ Len(r) = Len(q) - 1 /\ Len(q) \in Nat \ {0} /\ Head(q) = q[1]
        /\ \A x \in 1..Len(r) : r[x] = q[x + 1]
    BY <1>1, TailSeq
  <1>3. \A y \in 2..Len(q) : y - 1 \in 1..Len(r) /\ r[y - 1] = q[y]
    <2> SUFFICES ASSUME NEW y \in 2..Len(q) PROVE y - 1 \in 1..Len(r) /\ r[y - 1] = q[y]
      OBVIOUS
    <2>1. y - 1 \in 1..Len(r) /\ (y - 1) + 1 = y BY <1>2
    <2> QED BY <1>2, <2>1
  <1>4. 1 \in 1..Len(q) /\ Activation(q[1]) /\ q[1].id = i /\ i \in Nat \ {0} /\ a < i
    <2>1. 1 \in 1..Len(q) /\ Activation(q[1]) /\ q[1].id = i BY <1>1, <1>2
    <2>2. q[1] \in Events BY <2>1
    <2> QED BY <2>1, <2>2, AllNumbered DEF Numbered, Activation, Agreed, Growing
  <1>5. Growing(r, i, m)
    <2> SUFFICES ASSUME NEW x \in 1..Len(r), Activation(r[x])
                 PROVE  /\ i < r[x].id /\ r[x].id <= m
                        /\ \A y \in 1..Len(r) : x < y /\ Activation(r[y]) => r[x].id < r[y].id
      BY DEF Growing
    <2>1. PICK u : u = x + 1 OBVIOUS
    <2>2. u \in 1..Len(q) /\ r[x] = q[u] /\ 1 < u BY <1>2, <2>1
    <2>3. ASSUME NEW y \in 1..Len(r), x < y, Activation(r[y]) PROVE r[x].id < r[y].id
      <3>1. PICK v : v = y + 1 OBVIOUS
      <3>2. v \in 1..Len(q) /\ r[y] = q[v] /\ u < v BY <1>2, <2>1, <2>3, <3>1
      <3> QED BY <2>2, <2>3, <3>2 DEF Agreed, Growing
    <2> QED BY <1>4, <2>2, <2>3 DEF Agreed, Growing
  <1>6. ASSUME c # 0 PROVE Current(r, i, c)
    <2>1. a # c BY <1>4, <1>6 DEF Agreed, Growing
    <2>2. PICK x \in 1..Len(q) : Activation(q[x]) /\ q[x].id = c /\ \A y \in 1..Len(q) : x < y => ~Cut(q[y])
      BY <1>6, <2>1 DEF Agreed, Current
    <2>3. CASE x = 1
      <3>1. i = c BY <1>4, <2>2, <2>3
      <3>2. ASSUME NEW y \in 1..Len(r) PROVE ~Cut(r[y])
        <4>1. PICK v : v = y + 1 OBVIOUS
        <4>2. v \in 1..Len(q) /\ r[y] = q[v] /\ x < v BY <1>2, <2>3, <3>2, <4>1
        <4> QED BY <2>2, <4>2
      <3> QED BY <3>1, <3>2 DEF Current
    <2>4. CASE x \in 2..Len(q)
      <3>1. PICK z : z = x - 1 OBVIOUS
      <3>2. z \in 1..Len(r) /\ r[z] = q[x] BY <1>3, <2>4, <3>1
      <3>3. ASSUME NEW y \in 1..Len(r), z < y PROVE ~Cut(r[y])
        <4>1. PICK v : v = y + 1 OBVIOUS
        <4>2. v \in 1..Len(q) /\ r[y] = q[v] /\ x < v BY <1>2, <2>4, <3>1, <3>3, <4>1
        <4> QED BY <2>2, <4>2
      <3> QED BY <2>2, <3>2, <3>3 DEF Current
    <2> QED BY <1>2, <2>3, <2>4
  <1>7. Stale(r, i, c)
    <2>1. ASSUME i \notin {0, c} PROVE \E y \in 1..Len(r) : Ender(r[y])
      <3>1. PICK y \in 1..Len(q) : 1 < y /\ Ender(q[y]) BY <1>4, <2>1 DEF Agreed, Stale
      <3>2. y \in 2..Len(q) BY <1>2, <3>1
      <3> QED BY <1>3, <3>1, <3>2
    <2>2. ASSUME NEW x \in 1..Len(r), Activation(r[x]), r[x].id # c
          PROVE  \E y \in 1..Len(r) : x < y /\ Ender(r[y])
      <3>1. PICK u : u = x + 1 OBVIOUS
      <3>2. u \in 1..Len(q) /\ r[x] = q[u] BY <1>2, <3>1
      <3>3. PICK v \in 1..Len(q) : u < v /\ Ender(q[v]) BY <2>2, <3>2 DEF Agreed, Stale
      <3>4. PICK y : y = v - 1 OBVIOUS
      <3>5. y \in 1..Len(r) /\ r[y] = q[v] /\ x < y BY <1>3, <3>1, <3>3, <3>4
      <3> QED BY <3>3, <3>5
    <2> QED BY <2>1, <2>2 DEF Stale
  <1> QED BY <1>1, <1>4, <1>5, <1>6, <1>7 DEF Agreed

\* What an appended event leaves: the rest of the channel, one longer.
LEMMA Longer ==
    ASSUME NEW q \in Seq(Events), NEW e \in Events
    PROVE  \E r \in Seq(Events) : /\ r = Append(q, e) /\ Len(q) \in Nat /\ Len(r) = Len(q) + 1
                                  /\ r[Len(r)] = e /\ \A x \in 1..Len(q) : r[x] = q[x]
  <1>1. PICK r \in Seq(Events) : r = Append(q, e) BY AppendSeq
  <1>2. Len(q) \in Nat /\ Len(r) = Len(q) + 1 /\ r[Len(q) + 1] = e /\ \A x \in 1..Len(q) : r[x] = q[x]
    BY <1>1, AppendSeq
  <1> QED BY <1>1, <1>2

\* Input, the end of the input stream, or the end of the capture is appended.
LEMMA AgreedSaid ==
    ASSUME NEW q \in Seq(Events), NEW e \in Events, NEW a \in Nat, NEW c \in Nat, NEW k \in Nat, NEW m \in Nat,
           Agreed(q, a, c, m), ~Activation(e),
           (k = c /\ ~Cut(e)) \/ (k = 0 /\ Ender(e))
    PROVE  Agreed(Append(q, e), a, k, m)
  <1>1. PICK r \in Seq(Events) : /\ r = Append(q, e) /\ Len(q) \in Nat /\ Len(r) = Len(q) + 1
                                 /\ r[Len(r)] = e /\ \A x \in 1..Len(q) : r[x] = q[x]
    BY Longer
  <1>2. \A x \in 1..Len(r) : x = Len(r) \/ x \in 1..Len(q) BY <1>1
  <1>3. Growing(r, a, m) BY <1>1, <1>2 DEF Agreed, Growing
  <1>4. ASSUME k # 0 PROVE k = m /\ Current(r, a, k)
    <2>1. k = c /\ ~Cut(e) /\ c = m BY <1>4 DEF Agreed
    <2>2. CASE a = c /\ \A x \in 1..Len(q) : ~Cut(q[x])
      BY <1>1, <1>2, <2>1, <2>2 DEF Current
    <2>3. ASSUME NEW x \in 1..Len(q), Activation(q[x]), q[x].id = c, \A y \in 1..Len(q) : x < y => ~Cut(q[y])
          PROVE  Current(r, a, c)
      <3>1. x \in 1..Len(r) /\ r[x] = q[x] BY <1>1
      <3>2. \A y \in 1..Len(r) : x < y => ~Cut(r[y]) BY <1>1, <1>2, <2>1, <2>3
      <3> QED BY <2>3, <3>1, <3>2 DEF Current
    <2> QED BY <1>4, <2>1, <2>2, <2>3 DEF Agreed, Current
  <1>5. Stale(r, a, k)
    <2>1. CASE Ender(e)
      <3>1. Len(r) \in 1..Len(r) /\ Ender(r[Len(r)]) BY <1>1, <2>1
      <3>2. ASSUME NEW x \in 1..Len(r), Activation(r[x]) PROVE x < Len(r)
        BY <1>1, <1>2, <3>2
      <3> QED BY <3>1, <3>2 DEF Stale
    <2>2. CASE k = c
      <3>1. ASSUME NEW y \in 1..Len(q) PROVE y \in 1..Len(r) /\ r[y] = q[y] BY <1>1
      <3>2. ASSUME NEW x \in 1..Len(r), Activation(r[x]) PROVE x \in 1..Len(q) /\ r[x] = q[x]
        BY <1>1, <1>2, <3>2
      <3>3. a \notin {0, c} => \E y \in 1..Len(r) : Ender(r[y])
        BY <3>1 DEF Agreed, Stale
      <3>4. ASSUME NEW x \in 1..Len(r), Activation(r[x]), r[x].id # c
            PROVE  \E y \in 1..Len(r) : x < y /\ Ender(r[y])
        <4>1. x \in 1..Len(q) /\ r[x] = q[x] BY <3>2, <3>4
        <4>2. PICK y \in 1..Len(q) : x < y /\ Ender(q[y]) BY <3>4, <4>1 DEF Agreed, Stale
        <4> QED BY <3>1, <4>2
      <3> QED BY <2>2, <3>3, <3>4 DEF Stale
    <2> QED BY <2>1, <2>2
  <1> QED BY <1>1, <1>3, <1>4, <1>5 DEF Agreed

\* A new capture begins where none was.
LEMMA AgreedCrossed ==
    ASSUME NEW q \in Seq(Events), NEW e \in Events, NEW a \in Nat, NEW m \in Nat, a <= m,
           Agreed(q, a, 0, m), Activation(e), e.id = m + 1
    PROVE  Agreed(Append(q, e), a, m + 1, m + 1)
  <1>1. PICK r \in Seq(Events) : /\ r = Append(q, e) /\ Len(q) \in Nat /\ Len(r) = Len(q) + 1
                                 /\ r[Len(r)] = e /\ \A x \in 1..Len(q) : r[x] = q[x]
    BY Longer
  <1>2. \A x \in 1..Len(r) : x = Len(r) \/ x \in 1..Len(q) BY <1>1
  <1>0. \A x \in 1..Len(q) : Activation(q[x]) => q[x].id \in Nat \ {0}
    BY AllNumbered DEF Numbered, Activation
  <1>3. Growing(r, a, m + 1)
    <2> SUFFICES ASSUME NEW x \in 1..Len(r), Activation(r[x])
                 PROVE  /\ a < r[x].id /\ r[x].id <= m + 1
                        /\ \A y \in 1..Len(r) : x < y /\ Activation(r[y]) => r[x].id < r[y].id
      BY DEF Growing
    <2>1. CASE x = Len(r) BY <1>1, <2>1
    <2>2. CASE x \in 1..Len(q)
      <3>1. r[x] = q[x] /\ a < q[x].id /\ q[x].id <= m /\ q[x].id \in Nat BY <1>0, <1>1, <2>2 DEF Agreed, Growing
      <3>2. ASSUME NEW y \in 1..Len(r), x < y, Activation(r[y]) PROVE r[x].id < r[y].id
        <4>1. CASE y = Len(r) BY <1>1, <3>1, <4>1
        <4>2. CASE y \in 1..Len(q) BY <1>1, <2>2, <3>1, <3>2, <4>2 DEF Agreed, Growing
        <4> QED BY <1>2, <4>1, <4>2
      <3> QED BY <3>1, <3>2
    <2> QED BY <1>2, <2>1, <2>2
  <1>4. Current(r, a, m + 1)
    <2>1. Len(r) \in 1..Len(r) /\ Activation(r[Len(r)]) /\ r[Len(r)].id = m + 1 BY <1>1
    <2>2. \A y \in 1..Len(r) : ~(Len(r) < y) BY <1>1
    <2> QED BY <2>1, <2>2 DEF Current
  <1>5. Stale(r, a, m + 1)
    <2>1. ASSUME NEW y \in 1..Len(q) PROVE y \in 1..Len(r) /\ r[y] = q[y] BY <1>1
    <2>2. a # 0 => \E y \in 1..Len(r) : Ender(r[y]) BY <2>1 DEF Agreed, Stale
    <2>3. ASSUME NEW x \in 1..Len(r), Activation(r[x]), r[x].id # m + 1
          PROVE  \E y \in 1..Len(r) : x < y /\ Ender(r[y])
      <3>1. x \in 1..Len(q) /\ r[x] = q[x] BY <1>1, <1>2, <2>3
      <3>2. q[x].id # 0 BY <1>0, <2>3, <3>1
      <3>3. PICK y \in 1..Len(q) : x < y /\ Ender(q[y]) BY <2>3, <3>1, <3>2 DEF Agreed, Stale
      <3> QED BY <2>1, <3>3
    <2> QED BY <2>2, <2>3 DEF Stale
  <1> QED BY <1>1, <1>3, <1>4, <1>5 DEF Agreed

StepInv == /\ threads = [s \in Sources |-> << >>]
           /\ active <= acts /\ Agreed(rx, active, act, acts)
           /\ pc \in {"exit", "consent"} => active = 0 /\ act = 0
NoLock == Racing = {} /\ "lock" \notin Signals

\* The capture is given back, with what the compositor has to say about it.
LEMMA ReleaseSteps ==
    ASSUME Typed, Racing = {}, NEW rest \in Seq(Events), NEW id \in Nat,
           Agreed(rest, 0, IF id = act THEN 0 ELSE act, acts),
           threads = [s \in Sources |-> << >>],
           PortalRelease(id, rest), active' = 0, acts' = acts
    PROVE  /\ threads' = [s \in Sources |-> << >>] /\ active' <= acts'
           /\ Agreed(rx', active', act', acts')
  <1>0. act \in Nat /\ acts \in Nat
    BY RouterAssumption DEF Typed, CaptureTyped
  <1> DEFINE c == IF id = act THEN 0 ELSE act
  <1>1. Agreed(rest, 0, c, acts) /\ c \in Nat BY <1>0
  <1>2. act' = c BY DEF PortalRelease, capture
  <1>3. CASE rx' = rest /\ UNCHANGED threads
    BY <1>0, <1>1, <1>2, <1>3
  <1>4. CASE rx' = Append(rest, Ev("deactivated")) /\ UNCHANGED threads /\ act' = 0
    <2>1. Ev("deactivated") \in Events /\ ~Activation(Ev("deactivated")) /\ Ender(Ev("deactivated"))
      BY EventData DEF Ev, Activation, Ender, Cut
    <2>2. Agreed(Append(rest, Ev("deactivated")), 0, 0, acts)
      BY <1>0, <1>1, <2>1, AgreedSaid
    <2> QED BY <1>0, <1>4, <2>2
  <1>5. \/ rx' = rest /\ UNCHANGED threads
        \/ rx' = Append(rest, Ev("deactivated")) /\ UNCHANGED threads /\ act' = 0
    BY DEF PortalRelease, Emit
  <1> QED BY <1>3, <1>4, <1>5

\* The router goes local by itself, or on an event that is no activation.
LEMMA LocalSteps ==
    ASSUME Typed, StepInv, Racing = {}, NEW rest, PortalRelease(active, rest), active' = 0, acts' = acts,
           rest = rx \/ (rest = Tail(rx) /\ rx # << >> /\ ~Activation(Head(rx)))
    PROVE  /\ threads' = [s \in Sources |-> << >>] /\ active' <= acts'
           /\ Agreed(rx', active', act', acts')
  <1>0. active \in Nat /\ act \in Nat /\ acts \in Nat /\ rx \in Seq(Events)
    BY RouterAssumption DEF Typed, LoopTyped, CaptureTyped, QueuesTyped
  <1>1. PICK c \in Nat : c = IF active = act THEN 0 ELSE act BY <1>0
  <1>2. Agreed(rx, 0, c, acts) BY <1>0, <1>1, AgreedLocal DEF StepInv
  <1>3. rest \in Seq(Events) /\ Agreed(rest, 0, c, acts)
    <2>1. CASE rest = rx BY <1>0, <1>2, <2>1
    <2>2. CASE rest = Tail(rx) /\ rx # << >> /\ ~Activation(Head(rx))
      BY <1>0, <1>2, <2>2, AgreedTaken, TailSeq
    <2> QED BY <2>1, <2>2
  <1> QED BY <1>0, <1>1, <1>3, ReleaseSteps DEF StepInv

LEMMA HandleSteps ==
    ASSUME Typed, StepInv, NoLock, Handle
    PROVE  /\ threads' = [s \in Sources |-> << >>] /\ active' <= acts'
           /\ Agreed(rx', active', act', acts')
  <1>0. active \in Nat /\ act \in Nat /\ acts \in Nat /\ rx \in Seq(Events) /\ Racing = {}
    BY RouterAssumption DEF Typed, LoopTyped, CaptureTyped, QueuesTyped, NoLock
  <1>1. ASSUME NEW kind, Recv(kind)
        PROVE  /\ rx # << >> /\ Head(rx).t = kind /\ kind \notin {"lock", "unlock"}
               /\ Rest = Tail(rx) /\ acts' = acts /\ Head(rx) \in Events
    BY <1>1, RecvData DEF Recv, Rest, Events, Plain, NoLock
  <1>2. ASSUME NEW kind, Recv(kind), kind # "activated", NEW b, GoLocal(b, active, Rest)
        PROVE  /\ threads' = [s \in Sources |-> << >>] /\ active' <= acts'
               /\ Agreed(rx', active', act', acts')
    <2>1. Rest = Tail(rx) /\ rx # << >> /\ ~Activation(Head(rx)) /\ acts' = acts BY <1>1, <1>2 DEF Activation
    <2>2. PortalRelease(active, Rest) /\ active' = 0 BY <1>2 DEF GoLocal
    <2> QED BY <1>0, <2>1, <2>2, LocalSteps
  <1>3. ASSUME NEW kind, Recv(kind), kind # "activated", active' = active, Consume,
               Ender(Head(rx)) => active = 0
        PROVE  /\ threads' = [s \in Sources |-> << >>] /\ active' <= acts'
               /\ Agreed(rx', active', act', acts')
    <2>1. Rest = Tail(rx) /\ rx # << >> /\ ~Activation(Head(rx)) /\ acts' = acts BY <1>1, <1>3 DEF Activation
    <2>2. rx' = Rest /\ threads' = threads /\ act' = act BY <1>3 DEF Consume, capture
    <2>3. Agreed(Tail(rx), active, act, acts) BY <1>0, <1>3, <2>1, AgreedTaken DEF StepInv
    <2> QED BY <1>3, <2>1, <2>2, <2>3 DEF StepInv
  <1>4. CASE ActivatedRefused
    <2>1. Recv("activated") /\ GoLocal(FALSE, Head(rx).id, Rest) BY <1>4 DEF ActivatedRefused
    <2>2. Activation(Head(rx)) /\ rx # << >> /\ Rest = Tail(rx) /\ acts' = acts BY <1>1, <2>1 DEF Activation
    <2>3. PICK i : i = Head(rx).id OBVIOUS
    <2>4. i \in Nat \ {0} /\ Agreed(Rest, i, act, acts)
      BY <1>0, <2>2, <2>3, AgreedActivated DEF StepInv
    <2>5. Rest \in Seq(Events) BY <1>0, <2>2, TailSeq
    <2>6. Agreed(Rest, 0, IF i = act THEN 0 ELSE act, acts) BY <1>0, <2>4, <2>5, AgreedLocal
    <2>7. PortalRelease(i, Rest) /\ active' = 0 BY <2>1, <2>3 DEF GoLocal
    <2> QED BY <1>0, <2>2, <2>4, <2>5, <2>6, <2>7, ReleaseSteps DEF StepInv
  <1>5. CASE Activated
    <2>1. Recv("activated") /\ active' = Head(rx).id /\ Consume BY <1>5 DEF Activated
    <2>2. Activation(Head(rx)) /\ rx # << >> /\ Rest = Tail(rx) /\ acts' = acts BY <1>1, <2>1 DEF Activation
    <2>3. rx' = Rest /\ threads' = threads /\ act' = act BY <2>1 DEF Consume, capture
    <2>4. Agreed(Tail(rx), active', act, acts) BY <1>0, <2>1, <2>2, AgreedActivated DEF StepInv
    <2>5. Head(rx).id <= acts
      <3>1. Head(rx) = rx[1] /\ 1 \in 1..Len(rx) BY <1>0, <2>2, TailSeq
      <3> QED BY <2>2, <3>1 DEF StepInv, Agreed, Growing
    <2> QED BY <2>1, <2>2, <2>3, <2>4, <2>5 DEF StepInv
  <1>6. CASE Deactivated \/ Disabled
    <2>1. LocalIfRemote /\ (Recv("deactivated") \/ Recv("disabled"))
      BY <1>1, <1>6 DEF Deactivated, Disabled
    <2>2. CASE active # 0 BY <1>2, <2>1, <2>2 DEF LocalIfRemote
    <2>3. CASE active = 0
      <3>1. Consume /\ active' = active BY <2>1, <2>3 DEF LocalIfRemote
      <3> QED BY <1>3, <2>1, <2>3, <3>1
    <2> QED BY <2>2, <2>3
  <1>7. CASE Leave \/ EmergencyReturn \/ CrossBack
    <2>1. GoLocal(bridge, active, Rest) /\ \E kind \in {"zones", "eigone", "key", "frame"} : Recv(kind)
      BY <1>7 DEF Leave, EmergencyReturn, CrossBack, Captured
    <2> QED BY <1>2, <2>1
  <1>8. CASE Stray
    <2>1. active = 0 /\ active' = active /\ Consume BY <1>8 DEF Stray, loop
    <2>2. PICK kind \in {"key", "button", "frame", "scroll", "eigone"} : Recv(kind) BY <1>8 DEF Stray
    <2> QED BY <1>3, <2>1, <2>2
  <1>9. CASE Key \/ MouseButton \/ Motion
    <2>1. active' = active /\ Consume BY <1>9 DEF Key, MouseButton, Motion
    <2>2. PICK kind \in {"key", "button", "frame", "scroll"} : Recv(kind)
      BY <1>9 DEF Key, MouseButton, Motion, Captured
    <2>3. ~Ender(Head(rx)) BY <1>1, <2>2 DEF Ender, Cut
    <2> QED BY <1>3, <2>1, <2>2, <2>3
  <1>10. ~Unlocked BY <1>1 DEF Unlocked
  <1> QED BY <1>4, <1>5, <1>6, <1>7, <1>8, <1>9, <1>10 DEF Handle

LEMMA CompositorSteps ==
    ASSUME Typed, StepInv, NoLock, Compositor
    PROVE  /\ threads' = [s \in Sources |-> << >>] /\ active' <= acts'
           /\ Agreed(rx', active', act', acts')
  <1>0. active \in Nat /\ act \in Nat /\ acts \in Nat /\ rx \in Seq(Events) /\ Racing = {} /\ active' = active
    <2>1. UNCHANGED router BY DEF Compositor, Cross, Input, Yank, Lock, Unlock, EiEnds, Ends
    <2>2. active' = active BY <2>1 DEF router, loop
    <2> QED BY <2>2, RouterAssumption DEF Typed, LoopTyped, CaptureTyped, QueuesTyped, NoLock
  <1>1. ASSUME NEW e \in Events, ~Activation(e), NEW s, Emit(s, e, rx), acts' = acts,
               (act' = act /\ ~Cut(e)) \/ (act' = 0 /\ Ender(e))
        PROVE  /\ threads' = [u \in Sources |-> << >>] /\ active' <= acts'
               /\ Agreed(rx', active', act', acts')
    <2>1. rx' = Append(rx, e) /\ threads' = threads BY <1>0, <1>1 DEF Emit
    <2>2. PICK k \in Nat : k = act' BY <1>0, <1>1
    <2>3. Agreed(Append(rx, e), active, k, acts) BY <1>0, <1>1, <2>2, AgreedSaid DEF StepInv
    <2> QED BY <1>0, <1>1, <2>1, <2>2, <2>3 DEF StepInv
  <1>2. CASE Cross
    <2>1. PICK e : e = [t |-> "activated", id |-> acts'] OBVIOUS
    <2>2. act = 0 /\ acts' = acts + 1 /\ act' = acts + 1 /\ acts < MaxActs /\ Emit("activated", e, rx)
      BY <1>2, <2>1 DEF Cross
    <2>3. e \in Events /\ Activation(e) /\ e.id = acts + 1
      <3>1. acts + 1 \in 1..MaxActs BY <1>0, <2>2, RouterAssumption
      <3> QED BY <2>1, <2>2, <3>1 DEF Events, Activation
    <2>4. rx' = Append(rx, e) /\ threads' = threads BY <1>0, <2>2 DEF Emit
    <2>5. Agreed(Append(rx, e), active, acts + 1, acts + 1)
      BY <1>0, <2>2, <2>3, AgreedCrossed DEF StepInv
    <2> QED BY <1>0, <2>2, <2>4, <2>5 DEF StepInv
  <1>3. CASE Input
    <2>1. act' = act /\ acts' = acts BY <1>3 DEF Input
    <2>2. \E e \in Events : Emit("ei", e, rx) /\ e.t \in {"key", "button", "frame", "scroll"}
      <3>1. CASE \E k \in Keys : Emit("ei", KeyEv(k, TRUE), rx) \/ Emit("ei", KeyEv(k, FALSE), rx)
        <4>1. PICK k \in Keys, d \in BOOLEAN : Emit("ei", KeyEv(k, d), rx) BY <3>1
        <4>2. KeyEv(k, d) \in Events /\ KeyEv(k, d).t = "key" BY DEF KeyEv, Events
        <4> QED BY <4>1, <4>2
      <3>2. CASE Emit("ei", [t |-> "button", down |-> Button \notin cap], rx)
        <4>1. (Button \notin cap) \in BOOLEAN OBVIOUS
        <4>2. [t |-> "button", down |-> Button \notin cap] \in Events BY <4>1 DEF Events
        <4> QED BY <3>2, <4>2
      <3>3. CASE \E kind \in Pointing \ {"button"} : Emit("ei", Ev(kind), rx)
        BY <3>3, RouterAssumption DEF Ev, Events, Plain
      <3> QED BY <1>3, <3>1, <3>2, <3>3 DEF Input
    <2>3. PICK e \in Events : Emit("ei", e, rx) /\ e.t \in {"key", "button", "frame", "scroll"} BY <2>2
    <2>4. ~Activation(e) /\ ~Cut(e) BY <2>3 DEF Activation, Cut
    <2> QED BY <1>1, <2>1, <2>3, <2>4
  <1>4. CASE Yank
    <2>1. Ev("deactivated") \in Events /\ ~Activation(Ev("deactivated")) /\ Ender(Ev("deactivated"))
      BY EventData DEF Ev, Activation, Ender, Cut
    <2>2. Emit("deactivated", Ev("deactivated"), rx) /\ act' = 0 /\ acts' = acts BY <1>4 DEF Yank
    <2> QED BY <1>1, <2>1, <2>2
  <1>5. ASSUME NEW kind \in {"disabled", "zones"}, Ends(kind)
        PROVE  /\ threads' = [u \in Sources |-> << >>] /\ active' <= acts'
               /\ Agreed(rx', active', act', acts')
    <2>1. Emit(kind, Ev(kind), rx) /\ act' = 0 /\ acts' = acts /\ kind \in Signals BY <1>5 DEF Ends
    <2>2. Ev(kind) \in Events /\ ~Activation(Ev(kind)) /\ Ender(Ev(kind))
      BY <2>1 DEF Ev, Events, Plain, Activation, Ender, Cut
    <2> QED BY <1>1, <2>1, <2>2
  <1>6. CASE EiEnds
    <2>1. Emit("ei", Ev("eigone"), rx) /\ act' \in {act, 0} /\ acts' = acts /\ "eigone" \in Signals BY <1>6 DEF EiEnds
    <2>2. Ev("eigone") \in Events /\ ~Activation(Ev("eigone")) /\ Ender(Ev("eigone")) /\ ~Cut(Ev("eigone"))
      BY <2>1 DEF Ev, Events, Plain, Activation, Ender, Cut
    <2> QED BY <1>1, <2>1, <2>2
  <1>7. ~Lock /\ ~Unlock BY DEF NoLock, Lock, Unlock, Typed, Locks
  <1> QED BY <1>2, <1>3, <1>4, <1>5, <1>6, <1>7 DEF Compositor

LEMMA NextInStep ==
    ASSUME Typed, StepInv, NoLock, [Next]_vars
    PROVE  StepInv'
  <1>0. active \in Nat /\ act \in Nat /\ acts \in Nat /\ Racing = {}
    BY RouterAssumption DEF Typed, LoopTyped, CaptureTyped, NoLock
  <1>1. ASSUME threads' = [s \in Sources |-> << >>], active' <= acts', Agreed(rx', active', act', acts'),
               pc' \notin {"exit", "consent"}
        PROVE  StepInv'
    BY <1>1 DEF StepInv
  <1>2. CASE Top
    <2>0. pc' \notin {"exit", "consent"} /\ acts' = acts
      BY <1>2 DEF Top, ShutdownSeen, Keepalive, BridgeDead, NoKeepalive, Reconnect, NoReconnect, Failsafe, NoFailsafe,
         Flush, RecvTimeout, compositor
    <2>1. CASE active' = 0 /\ PortalRelease(active, rx)
      BY <1>0, <1>1, <2>0, <2>1, LocalSteps
    <2>2. CASE UNCHANGED <<active, queues, capture>>
      BY <1>1, <2>0, <2>2 DEF queues, capture, StepInv
    <2>3. (active' = 0 /\ PortalRelease(active, rx)) \/ UNCHANGED <<active, queues, capture>>
      BY <1>2 DEF Top, ShutdownSeen, Keepalive, BridgeDead, NoKeepalive, Reconnect, NoReconnect, Failsafe, NoFailsafe,
         Flush, RecvTimeout, compositor, loop, GoLocal
    <2> QED BY <2>1, <2>2, <2>3
  <1>3. CASE Handle
    <2>1. pc' \notin {"exit", "consent"}
      BY <1>3 DEF Handle, ActivatedRefused, Activated, Deactivated, Disabled, Unlocked, Leave, Stray, Key,
         EmergencyReturn, MouseButton, Motion, CrossBack, Captured
    <2> QED BY <1>1, <1>3, <2>1, HandleSteps
  <1>4. CASE Process
    <2>1. CASE Gone
      <3>1. /\ rx' = << >> /\ threads' = [s \in Sources |-> << >>] /\ active' = 0 /\ act' = 0 /\ acts' = acts
        BY <2>1 DEF Gone
      <3>2. Agreed(<< >>, 0, 0, acts) BY DEF Agreed, Growing, Stale
      <3> QED BY <1>0, <3>1, <3>2 DEF StepInv
    <2>2. CASE Launch \/ Granted
      <3>1. active = 0 /\ act = 0 /\ UNCHANGED <<active, queues, act, acts>>
        BY <2>2 DEF Launch, Granted, compositor, capture, StepInv
      <3> QED BY <3>1 DEF queues, StepInv
    <2>3. CASE ~(Gone \/ Launch \/ Granted)
      <3>1. \A s \in Sources : ~Forward(s) BY DEF Forward, StepInv
      <3>2. UNCHANGED <<pc, loop, queues, compositor>>
        BY <1>4, <2>3, <3>1 DEF Process, Exit, Killed, Refused, Signal, Elapse, LongElapse
      <3> QED BY <3>2 DEF loop, queues, compositor, capture, StepInv
    <2> QED BY <2>1, <2>2, <2>3
  <1>5. CASE Compositor
    <2>1. pc' = pc BY <1>5 DEF Compositor, Cross, Input, Yank, Lock, Unlock, EiEnds, Ends, router
    <2>2. pc \notin {"exit", "consent"} BY <1>5 DEF Compositor, Cross, Input, Yank, EiEnds, Ends, Room, InLoop, Lock, Unlock,
         NoLock, Typed, Locks
    <2> QED BY <1>1, <1>5, <2>1, <2>2, CompositorSteps
  <1>6. CASE PiSide
    <2>1. UNCHANGED near
      BY <1>6 DEF PiSide, Apply, SessionEnds, Drop, Crash, PowerLoss, Boot, NetworkLoss, KernelGivesUp, near
    <2> QED BY <2>1 DEF near, loop, queues, compositor, capture, StepInv
  <1>7. CASE UNCHANGED vars
    BY <1>7 DEF vars, loop, queues, compositor, capture, StepInv
  <1> QED BY <1>2, <1>3, <1>4, <1>5, <1>6, <1>7 DEF Next

\* A router that has taken in all the compositor said has its idea of who has the input, as
\* long as the forwarding threads keep the order: whatever ends a capture or a connection, or
\* restarts the process, and whatever stale activations it tried to give back.
THEOREM KeepsStep == NoLock => (Spec => []InStep)
  <1> SUFFICES ASSUME NoLock PROVE Spec => []InStep
    OBVIOUS
  <1>1. Init => StepInv
    BY DEF Init, StepInv, Agreed, Growing, Stale
  <1>2. Typed /\ StepInv /\ [Next]_vars => StepInv' BY NextInStep
  <1>3. Typed /\ StepInv => InStep
    <2> SUFFICES ASSUME Typed, StepInv, rx = << >> PROVE active = act
      BY DEF InStep
    <2>1. Len(rx) = 0 BY DEF Typed, QueuesTyped
    <2>2. \A x \in 1..Len(rx) : FALSE BY <2>1
    <2>3. act # 0 => active = act BY <2>2 DEF StepInv, Agreed, Current
    <2>4. active \in {0, act} BY <2>2 DEF StepInv, Agreed, Stale
    <2> QED BY <2>3, <2>4
  <1> QED BY <1>1, <1>2, <1>3, InitTyped, NextTyped, PTL DEF Spec
===========================================================================
