------------------------------ MODULE Bridge ------------------------------
(***************************************************************************)
(* The bridge daemon on the Pi (src/pi/bridge/src/main.rs): one thread     *)
(* that accepts clients one at a time, parses their frames and writes HID  *)
(* reports to the USB gadget.  A session is the loop of handle_client; the *)
(* accept loop releases everything after it.  The clients may send any     *)
(* frame at any time, close, reset or silently vanish; the target may stop *)
(* polling, detach and re-attach; the process may crash when CanCrash.     *)
(***************************************************************************)
EXTENDS Integers, Sequences, FiniteSets

CONSTANTS Conns,       \* TCP connections a client may open (reused after a session)
          Keys,        \* HID usages below 0xE0
          Mods,        \* HID usages 0xE0..0xE7, the bits of the modifier byte
          Buttons,     \* the three buttons of the 0x07 mask
          HighBits,    \* bits of a POINTER_BUTTON payload outside the mask
          NoKey,       \* the usage 0 of an empty report slot
          NSlots,      \* slots of the boot keyboard report (6 in the code)
          MaxCoord,    \* largest canonical coordinate (65535 in the code)
          Frames,      \* the frames clients send
          MaxBatch,    \* most frames in one 256-byte read
          Heartbeat,   \* HEARTBEAT_TIMEOUT, in read timeouts
          CanCrash,    \* whether the process may be killed
          NoConn, NoPos

Slots == 1..NSlots
Coord == 0..MaxCoord
Usages == Keys \cup Mods
Inputs == Usages \cup Buttons

AllFrames ==
    [t : {"hello", "badhello", "keepalive", "release", "status", "malformed"}]
      \cup [t : {"down", "up"}, usage : Usages]
      \cup [t : {"state"}, mods : SUBSET Mods, keys : [Slots -> Keys \cup {NoKey}]]
      \cup [t : {"abs"}, pos : Coord]
      \cup [t : {"button"}, bits : SUBSET (Buttons \cup HighBits)]
      \cup [t : {"wheel"}]

ASSUME BridgeAssumption ==
    /\ NSlots \in Nat \ {0} /\ MaxCoord \in Nat /\ MaxBatch \in Nat \ {0}
    /\ Heartbeat \in Nat /\ CanCrash \in BOOLEAN
    /\ NoConn \notin Conns /\ NoKey \notin Keys /\ NoPos \notin Coord
    /\ Keys \cap Mods = {} /\ Usages \cap Buttons = {} /\ HighBits \cap Buttons = {}
    /\ Frames \subseteq AllFrames

VARIABLES pc,        \* where the thread is: accept, read, parse, relkbd, relptr, stopped, dead
          serving,   \* the connection being served, or NoConn
          backlog,   \* connections the kernel has accepted and the daemon has not
          peer,      \* what the far end of each connection last did
          buf,       \* whole frames read and not yet parsed
          partial,   \* the first bytes of a further frame are in the accumulator
          greeted, pending, idle,
          ending,    \* release_all was called by the accept loop, not by a frame
          shutdown,  \* SHUTDOWN
          hid,       \* the Hid record
          host,      \* the USB host: it polls the gadget, stalls (attached, not polling), or is away
          target,    \* what the target machine believes is down, and its last pointer report
          wanted,    \* ghost: the usages the client has down, no slot limit
          newest     \* ghost: the last absolute position parsed
net == <<backlog, peer>>
session == <<buf, partial, greeted, pending, idle>>
ghosts == <<wanted, newest>>
vars == <<pc, serving, net, session, ending, shutdown, hid, host, target, ghosts>>

HidStates == [mods : SUBSET Mods, keys : [Slots -> Keys \cup {NoKey}],
              buttons : SUBSET Buttons, pos : Coord, ok : BOOLEAN]
TargetStates == [keys : SUBSET Usages, buttons : SUBSET Buttons, pos : Coord, wheel : BOOLEAN]

Center == (MaxCoord + 1) \div 2
ClearHid == [mods |-> {}, keys |-> [s \in Slots |-> NoKey], buttons |-> {},
             pos |-> Center, ok |-> TRUE]
KeysIn(keys) == {keys[s] : s \in Slots} \ {NoKey}
Held(h) == h.mods \cup KeysIn(h.keys)
Released == [keys |-> {}, buttons |-> {}, pos |-> Center \div 2, wheel |-> FALSE]

Init == /\ pc = "accept" /\ serving = NoConn
        /\ backlog = << >> /\ peer = [c \in Conns |-> "none"]
        /\ buf = << >> /\ partial = FALSE /\ greeted = FALSE /\ pending = NoPos /\ idle = 0
        /\ ending = FALSE /\ shutdown = FALSE
        /\ hid = ClearHid /\ host = "polls" /\ target = Released
        /\ wanted = {} /\ newest = Center
-----------------------------------------------------------------------------
(* The HID reports.  A write blocks until the host polls, and the thread    *)
(* with it: while the host stalls no step that writes a report is taken.    *)
(* A write to a gadget nobody is attached to fails and clears hid_ok.       *)

attached == host # "away"

\* flush_kbd, after the state has become h
FlushKbd(h) == /\ host # "stalls"
               /\ hid' = [h EXCEPT !.ok = attached]
               /\ target' = IF attached THEN [target EXCEPT !.keys = Held(h)] ELSE target

\* flush_ptr, after the state has become h; the descriptor's axis has one bit less
FlushPtr(h, wheel) ==
    /\ host # "stalls"
    /\ hid' = [h EXCEPT !.ok = attached]
    /\ target' = IF attached
                 THEN [target EXCEPT !.buttons = h.buttons, !.pos = h.pos \div 2, !.wheel = wheel]
                 ELSE target

\* key_event, the keyboard state after it
Press(h, u) ==
    IF u \in Mods THEN [h EXCEPT !.mods = @ \cup {u}]
    ELSE LET free == {s \in Slots : h.keys[s] = NoKey}
             slot == CHOOSE s \in free : \A r \in free : s <= r
         IN [h EXCEPT !.keys = [@ EXCEPT ![slot] = u]]
\* Mutant: one of two equal slots is left
ReleaseOneSlot(h, u) ==
    IF u \in Mods THEN [h EXCEPT !.mods = @ \ {u}]
    ELSE IF u \notin KeysIn(h.keys) THEN h
    ELSE [h EXCEPT !.keys[CHOOSE s \in Slots : h.keys[s] = u] = NoKey]
Release(h, u) ==
    IF u \in Mods THEN [h EXCEPT !.mods = @ \ {u}]
    ELSE [h EXCEPT !.keys = [s \in Slots |-> IF @[s] = u THEN NoKey ELSE @[s]]]
\* "already held" and "dropping 7th held key": no report is written
Ignored(h, u) == u \notin Mods /\ (u \in KeysIn(h.keys) \/ NoKey \notin {h.keys[s] : s \in Slots})

ReleasedHid == [hid EXCEPT !.mods = {}, !.keys = [s \in Slots |-> NoKey], !.buttons = {}]
-----------------------------------------------------------------------------
(* The accept loop. *)

\* The locals of handle_client: made when it is called, dropped when it returns.
FreshSession == buf' = << >> /\ partial' = FALSE /\ greeted' = FALSE /\ pending' = NoPos /\ idle' = 0

Accept == /\ pc = "accept" /\ ~shutdown /\ backlog # << >>
          /\ pc' = "read" /\ serving' = Head(backlog) /\ backlog' = Tail(backlog)
          /\ FreshSession
          /\ newest' = hid.pos
          /\ UNCHANGED <<peer, ending, shutdown, hid, host, target, wanted>>

\* handle_client returns: main's release_all follows whatever the reason.
EndSession == /\ pc' = "relkbd" /\ ending' = TRUE /\ FreshSession
              /\ UNCHANGED <<serving, net, shutdown, hid, host, target, ghosts>>

\* release_all clears the state and writes the keyboard report first ...
ReleaseKbd == /\ pc = "relkbd"
              /\ pc' = "relptr" /\ FlushKbd(ReleasedHid) /\ wanted' = {}
              /\ UNCHANGED <<serving, net, session, ending, shutdown, host, newest>>

\* ... and the pointer report second; the stream is dropped when the session is over.
ReleasePtr == /\ pc = "relptr"
              /\ FlushPtr(hid, FALSE)
              /\ IF ending
                 THEN /\ pc' = IF shutdown /\ serving = NoConn THEN "stopped" ELSE "accept"
                      /\ serving' = NoConn /\ ending' = FALSE
                      /\ peer' = IF serving = NoConn THEN peer ELSE [peer EXCEPT ![serving] = "none"]
                 ELSE pc' = "parse" /\ UNCHANGED <<serving, ending, peer>>
              /\ UNCHANGED <<backlog, session, shutdown, host, ghosts>>

\* SHUTDOWN seen by the accept loop: one more release_all, then the process exits.
Stop == pc = "accept" /\ shutdown /\ EndSession
-----------------------------------------------------------------------------
(* The head of the session loop and the read. *)

\* Mutant: the deadline is not checked
ReadingForever == pc = "read" /\ ~shutdown
Reading == pc = "read" /\ ~shutdown /\ idle <= Heartbeat

\* Mutants: the session ends and nothing is released; the process exits from inside it
EndsUnreleased(then) ==
    /\ pc' = then /\ serving' = NoConn /\ peer' = [peer EXCEPT ![serving] = "none"]
    /\ UNCHANGED <<backlog, session, ending, shutdown, hid, host, target, ghosts>>
StopsUnreleased == pc = "read" /\ shutdown /\ EndsUnreleased("stopped")
ShutdownSeen == pc = "read" /\ shutdown /\ EndSession
HeartbeatLost == pc = "read" /\ ~shutdown /\ idle > Heartbeat /\ EndSession

\* Any bytes reset the deadline, even when they complete no frame.
ReadBatch == /\ Reading /\ peer[serving] # "gone"
             /\ \E n \in 0..MaxBatch : \E batch \in [1..n -> Frames] :
                  /\ buf' = batch
                  /\ partial' \in IF n = 0 THEN {TRUE} \ {partial} ELSE BOOLEAN
             /\ pc' = "parse" /\ idle' = 0
             /\ UNCHANGED <<serving, net, greeted, pending, ending, shutdown,
                            hid, host, target, ghosts>>

\* Mutant: a timeout counts as a sign of life
ReadTimeoutRenews == /\ Reading /\ peer[serving] \in {"up", "gone"}
                     /\ idle' = 0
                     /\ UNCHANGED <<pc, serving, net, buf, partial, greeted, pending, ending,
                                    shutdown, hid, host, target, ghosts>>
ReadTimeout == /\ Reading /\ peer[serving] \in {"up", "gone"}
               /\ idle' = idle + 1
               /\ UNCHANGED <<pc, serving, net, buf, partial, greeted, pending, ending, shutdown,
                              hid, host, target, ghosts>>

\* Mutant: the end of the stream skips release_all
ReadEndUnreleased == Reading /\ peer[serving] \in {"closed", "reset"} /\ EndsUnreleased("accept")
\* Ok(0) or an error: the end of the session either way.
ReadEnd == Reading /\ peer[serving] \in {"closed", "reset"} /\ EndSession
-----------------------------------------------------------------------------
(* The parse loop, one frame at a time. *)

Frame == Head(buf)
Parsing == pc = "parse" /\ buf # << >>
Authentic == Parsing /\ greeted /\ Frame.t # "malformed"

\* Mutant: a malformed frame skips release_all
MalformedUnreleased == Parsing /\ Frame.t = "malformed" /\ EndsUnreleased("accept")
Malformed == Parsing /\ Frame.t = "malformed" /\ EndSession
NoGreeting == Parsing /\ ~greeted /\ Frame.t \notin {"malformed", "hello"} /\ EndSession

\* send(HELLO_ACK) and send(STATUS): an error ends the session.
SendFails == /\ \/ Parsing /\ ~greeted /\ Frame.t = "hello"
                \/ Authentic /\ Frame.t = "status"
             /\ peer[serving] \in {"closed", "reset", "gone"}
             /\ EndSession

Greet == /\ Parsing /\ ~greeted /\ Frame.t = "hello"
         /\ greeted' = TRUE /\ buf' = Tail(buf)
         /\ UNCHANGED <<pc, serving, net, partial, pending, idle, ending, shutdown,
                        hid, host, target, ghosts>>

\* Mutant: a button does not flush
NeedsFlushNoButton == Frame.t \in {"wheel", "release"}
\* needs_flush: the position pending before this frame is written first.
NeedsFlush == Frame.t \in {"button", "wheel", "release"}
FlushPending == /\ Authentic /\ NeedsFlush /\ pending # NoPos
                /\ FlushPtr([hid EXCEPT !.pos = pending], FALSE)
                /\ pending' = NoPos
                /\ UNCHANGED <<pc, serving, net, buf, partial, greeted, idle, ending, shutdown,
                               host, ghosts>>
Dispatch(kind) == /\ Authentic /\ Frame.t = kind
                  /\ NeedsFlush => pending = NoPos
                  /\ buf' = Tail(buf)
                  /\ UNCHANGED <<serving, net, partial, greeted, idle, ending, shutdown, host>>

\* KEEPALIVE, a redundant HELLO, and GET_STATUS when its reply could be sent
NoEffect == /\ \E kind \in {"keepalive", "hello", "badhello", "status"} : Dispatch(kind)
            /\ UNCHANGED <<pc, pending, hid, target, ghosts>>

KeyDown == /\ Dispatch("down")
           /\ IF Ignored(hid, Frame.usage) THEN UNCHANGED <<hid, target>>
              ELSE FlushKbd(Press(hid, Frame.usage))
           /\ wanted' = wanted \cup {Frame.usage}
           /\ UNCHANGED <<pc, pending, newest>>

\* Mutant: the state changes and no report is written
KeyUpUnreported == /\ Dispatch("up") /\ hid' = Release(hid, Frame.usage)
                   /\ wanted' = wanted \ {Frame.usage}
                   /\ UNCHANGED <<pc, pending, newest, target>>

KeyUp == /\ Dispatch("up")
         /\ FlushKbd(Release(hid, Frame.usage))
         /\ wanted' = wanted \ {Frame.usage}
         /\ UNCHANGED <<pc, pending, newest>>

KeyState == /\ Dispatch("state")
            /\ FlushKbd([hid EXCEPT !.mods = Frame.mods, !.keys = Frame.keys])
            /\ wanted' = Frame.mods \cup KeysIn(Frame.keys)
            /\ UNCHANGED <<pc, pending, newest>>

PointerAbs == /\ Dispatch("abs")
              /\ pending' = Frame.pos /\ newest' = Frame.pos
              /\ UNCHANGED <<pc, hid, target, wanted>>

PointerButton == /\ Dispatch("button")
                 /\ FlushPtr([hid EXCEPT !.buttons = Frame.bits \cap Buttons], FALSE)
                 /\ UNCHANGED <<pc, pending, ghosts>>

PointerWheel == /\ Dispatch("wheel") /\ FlushPtr(hid, TRUE)
                /\ UNCHANGED <<pc, pending, ghosts>>

ReleaseAll == /\ Dispatch("release") /\ pc' = "relkbd"
              /\ UNCHANGED <<pending, hid, target, ghosts>>

\* Mutant: the last position of a batch is dropped
EndBatchUnreported == /\ pc = "parse" /\ buf = << >> /\ pc' = "read" /\ pending' = NoPos
                      /\ UNCHANGED <<serving, net, buf, partial, greeted, idle, ending, shutdown,
                                     hid, host, target, ghosts>>
\* The batch is parsed: one report for the newest position, back to the read.
EndBatch == /\ pc = "parse" /\ buf = << >>
            /\ pc' = "read" /\ pending' = NoPos
            /\ IF pending = NoPos THEN UNCHANGED <<hid, target>>
               ELSE FlushPtr([hid EXCEPT !.pos = pending], FALSE)
            /\ UNCHANGED <<serving, net, buf, partial, greeted, idle, ending, shutdown,
                           host, ghosts>>

\* A report write is waiting for the host: time passes, at a frame, at the end of a batch or
\* between the reports of release_all, and nothing looks at the deadline or at SHUTDOWN.
SlowWrite == /\ host = "stalls" /\ pc \in {"parse", "relkbd", "relptr"} /\ ~ending
             /\ idle <= Heartbeat /\ idle' = idle + 1
             /\ UNCHANGED <<pc, serving, net, buf, partial, greeted, pending, ending, shutdown,
                            hid, host, target, ghosts>>
-----------------------------------------------------------------------------
(* The daemon's surroundings. *)

daemon == <<pc, serving, session, ending, hid, ghosts>>

Connect(c) == /\ peer[c] = "none" /\ pc \notin {"dead", "stopped"}
              /\ peer' = [peer EXCEPT ![c] = "up"] /\ backlog' = Append(backlog, c)
              /\ UNCHANGED <<daemon, shutdown, host, target>>

\* FIN, RST, or a machine that lost power or its network and sends neither.
PeerEnds(c) == /\ peer[c] = "up"
               /\ \E how \in {"closed", "reset", "gone"} : peer' = [peer EXCEPT ![c] = how]
               /\ UNCHANGED <<daemon, backlog, shutdown, host, target>>

Signal == /\ ~shutdown /\ pc \notin {"dead", "stopped"} /\ shutdown' = TRUE
          /\ UNCHANGED <<daemon, net, host, target>>

\* The host suspends or is busy and stops polling, or polls again.
Stall == /\ host = "polls" /\ host' = "stalls"
         /\ UNCHANGED <<daemon, net, shutdown, target>>
Resume == /\ host = "stalls" /\ host' = "polls"
          /\ UNCHANGED <<daemon, net, shutdown, target>>

\* A host that goes away forgets what was down, and a write waiting for it fails; it comes
\* back with nothing down.
Detach == /\ attached /\ host' = "away"
          /\ target' = [target EXCEPT !.keys = {}, !.buttons = {}, !.wheel = FALSE]
          /\ UNCHANGED <<daemon, net, shutdown>>
Attach == /\ ~attached /\ host' = "polls"
          /\ UNCHANGED <<daemon, net, shutdown, target>>

\* SIGKILL or a panic: nothing is written; the kernel closes every connection.
Crash == /\ CanCrash /\ pc \notin {"dead", "stopped"}
         /\ pc' = "dead" /\ serving' = NoConn /\ backlog' = << >>
         /\ peer' = [c \in Conns |-> "none"]
         /\ UNCHANGED <<session, ending, shutdown, hid, host, target, ghosts>>

\* Restart=on-failure: a new process opens the gadget and writes no report.
Restart == /\ pc = "dead" /\ pc' = "accept"
           /\ hid' = ClearHid /\ ending' = FALSE /\ shutdown' = FALSE
           /\ FreshSession
           /\ wanted' = {} /\ newest' = Center
           /\ UNCHANGED <<serving, net, host, target>>
-----------------------------------------------------------------------------
Loop == Accept \/ ReleaseKbd \/ ReleasePtr \/ Stop
Session == ShutdownSeen \/ HeartbeatLost \/ ReadBatch \/ ReadTimeout \/ ReadEnd
Parse == \/ Malformed \/ NoGreeting \/ SendFails \/ Greet \/ FlushPending \/ NoEffect
         \/ KeyDown \/ KeyUp \/ KeyState \/ PointerAbs \/ PointerButton \/ PointerWheel
         \/ ReleaseAll \/ EndBatch
Environment == \/ \E c \in Conns : Connect(c) \/ PeerEnds(c)
               \/ Signal \/ Stall \/ Resume \/ Detach \/ Attach \/ SlowWrite \/ Crash \/ Restart

Next == Loop \/ Session \/ Parse \/ Environment

Spec == Init /\ [][Next]_vars

\* The daemon's own thread runs; a read that finds nothing times out after 500 ms.  A write
\* waits for the host, so a step that writes is only sure to come when the host polls again
\* and again: a poll takes the report that waits.  A stream that has ended holds finitely
\* many bytes: its end is read in the end.
Fairness == SF_vars(Loop) /\ WF_vars(Session) /\ SF_vars(Parse) /\ SF_vars(ReadEnd)
FairSpec == Spec /\ Fairness
-----------------------------------------------------------------------------
(* Properties *)

\* The type invariant of the daemon and of what it is connected to.
TypeOK == /\ pc \in {"accept", "read", "parse", "relkbd", "relptr", "stopped", "dead"}
          /\ serving \in Conns \cup {NoConn}
          /\ backlog \in Seq(Conns)
          /\ peer \in [Conns -> {"none", "up", "closed", "reset", "gone"}]
          /\ buf \in Seq(Frames) /\ partial \in BOOLEAN /\ greeted \in BOOLEAN
          /\ pending \in Coord \cup {NoPos} /\ idle \in 0..(Heartbeat + 1)
          /\ ending \in BOOLEAN /\ shutdown \in BOOLEAN /\ host \in {"polls", "stalls", "away"}
          /\ hid \in HidStates /\ target \in TargetStates
          /\ wanted \subseteq Usages /\ newest \in Coord

Down == target.keys \cup target.buttons

\* "No session ends with held state" (main.rs:380): between sessions, and after the daemon
\* stopped, the target believes nothing is down.
NothingHeldIdle == pc \in {"accept", "stopped"} => Down = {}

\* "Any disconnect, timeout, malformed message, crash, or shutdown releases all keys,
\* modifiers, and buttons" (docs/engineering-rules.md:21).  A crash itself releases nothing,
\* and what it leaves down outlives the restart, but not the next session: however a session
\* of a running daemon ends, before or after crashes, the target is released.
SessionEndReleases == [][ serving # NoConn /\ serving' = NoConn /\ pc' # "dead" => Down' = {} ]_vars

\* The daemon implements the lease on the target's inputs, one report at a time.
Lease == INSTANCE InputLease WITH holder <- serving, down <- Down
LeaseHeld == Lease!LeaseSpec

\* The target never believes a key is down that the client does not hold: not through a key
\* left in a second slot, one dropped for want of a slot, or one of an earlier session.
NoPhantomKey == target.keys \subseteq wanted

\* STATUS never understates: while frames are parsed, what the target believes is down is
\* in the modifiers, the held-key count and the buttons GET_STATUS replies with.
StatusHonest == pc \in {"read", "parse"} =>
                  target.keys \subseteq Held(hid) /\ target.buttons \subseteq hid.buttons

\* "Flushed before any button/wheel so ordering stays exact" (main.rs:217): within a session
\* buttons change and the wheel turns only at the newest position the client sent.
ClickAtNewest ==
    [][ (target'.buttons # target.buttons \/ PointerWheel) /\ ~ending /\ attached /\ attached'
          => target'.pos = newest \div 2 ]_vars

\* Coalescing loses no final position: the daemon never waits for bytes with one unreported.
Settled == pc = "read" => pending = NoPos /\ hid.pos = newest

\* Nothing is assumed of the clients; of the host, that it does not stay attached without
\* ever polling again.  A host that does holds the only thread in a report write.
HostTakesReports == []<>(host # "stalls")

\* "A half-dead connection is reclaimed by the heartbeat timeout" (docs/protocol.md:24), if
\* the host lets the daemon's writes return: a client that vanished without a FIN does not
\* keep the daemon, nor does one that closed or reset, however long single writes stall.
Reclaimed == HostTakesReports => \A c \in Conns : (serving = c /\ peer[c] # "up") ~> serving # c

\* A termination signal ends in a stopped daemon and a released target, for good, if the
\* host lets the daemon's writes return.
ShutdownReleases == HostTakesReports => (shutdown ~> [](pc = "stopped" /\ Down = {}))
===========================================================================
