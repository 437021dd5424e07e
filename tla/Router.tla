------------------------------ MODULE Router ------------------------------
(***************************************************************************)
(* The input router (src/linux/input-router/src/router.rs): one thread     *)
(* that receives the compositor's portal signals and captured input from a *)
(* single channel, forwards the input to the bridge and gives the capture  *)
(* back.  Around it: the compositor, the threads that feed the channel     *)
(* (portal.rs, capture.rs), the TCP link and the bridge's session, reduced *)
(* to the lease that module Bridge implements.                             *)
(*                                                                         *)
(* A timer is the fact that it has expired since the code last reset it,   *)
(* kept while the code would look at it.                                   *)
(* Positions and wheel detents hold nothing on the target, so their frames *)
(* are writes with no content.                                             *)
(***************************************************************************)
EXTENDS Integers, Sequences, FiniteSets

CONSTANTS Keys,      \* HID usages the user types
          HotKeys,   \* those of the emergency combination
          Pointing,  \* which of button, frame, scroll the user's pointer does
          MaxActs,   \* most activations (bound)
          MaxQueue,  \* most events waiting for the router (bound)
          MaxWire,   \* most frames in flight to the bridge (bound)
          Racing,    \* the sources whose forwarding threads may lag behind the others
          Signals,   \* which of disabled, zones, lock, eigone the compositor uses
          Faults,    \* which of drop, crash, power, network, kill, signal happen
          MaxFaults  \* most of them (bound)

ASSUME RouterAssumption ==
    /\ HotKeys # {} /\ Pointing \subseteq {"button", "frame", "scroll"}
    /\ MaxActs \in Nat /\ MaxQueue \in Nat /\ MaxWire \in Nat
    /\ MaxFaults \in Nat
    /\ Signals \subseteq {"disabled", "zones", "lock", "eigone"}
    /\ Faults \subseteq {"drop", "crash", "power", "network", "kill", "signal"}

VARIABLES pc,         \* the next step of the loop, or leaving, exit, or consent before it
          active,     \* active_id, 0 for None
          events,     \* events_this_activation
          emergency,  \* keys of the combination held
          pending,    \* a position or wheel detents wait for the throttle
          space,      \* remote, or where the model puts the local cursor: center, edge
          bridge,     \* the router has a BridgeClient
          published,  \* the state file, or none when it is absent
          shutdown,   \* SHUTDOWN
          due,        \* expired: keepalive (last_send), reconnect, failsafe (activated_at)
          rx,         \* the channel
          threads,    \* signals and input received by the forwarding threads, not yet in rx
          act,        \* the activation the compositor captures for, 0 when it does not
          acts,       \* activations so far
          cap,        \* keys pressed in this activation and still down
          armed, locked,
          ei,         \* the input stream to the router is open
          warp,       \* where the last Release put the cursor
          link,       \* the router's end of the connection
          wire,       \* frames in flight on it
          sess,       \* the bridge serves the connection
          down,       \* what the target believes is down
          pi,         \* the bridge process runs
          faults      \* how many faults have happened
loop == <<active, events, emergency, pending, space, bridge, published>>
queues == <<rx, threads>>
capture == <<act, cap, warp>>
compositor == <<capture, acts, armed, locked, ei>>
conn == <<link, wire>>
far == <<sess, down, pi, faults>>
vars == <<pc, loop, shutdown, due, queues, compositor, conn, far>>

Ev(kind) == [t |-> kind]
KeyEv(k, d) == [t |-> "key", key |-> k, down |-> d]
Button == "button"
Timers == {"keepalive", "reconnect", "failsafe"}
RELEASE_ALL == Ev("release")
Sources == {"activated", "deactivated", "disabled", "zones", "saver", "ei"}

\* IN_LOOP: the portal has granted the session, and run has not returned.
InLoop == pc \notin {"leaving", "exit", "consent"}

\* The router asks for the capture; the bridge waits for a client.
Init == /\ pc = "consent" /\ active = 0 /\ events = FALSE /\ emergency = {} /\ pending = FALSE
        /\ space = "center" /\ bridge = FALSE /\ published = "consent"
        /\ shutdown = FALSE /\ due = {} /\ rx = << >> /\ threads = [s \in Sources |-> << >>]
        /\ act = 0 /\ acts = 0 /\ cap = {} /\ armed = FALSE /\ locked = FALSE /\ ei = FALSE /\ warp = "none"
        /\ link = "none" /\ wire = << >>
        /\ sess = FALSE /\ down = {} /\ pi = TRUE /\ faults = 0
-----------------------------------------------------------------------------
(* Writing to the bridge.  Nobody reads the socket, so the router learns of *)
(* a lost connection only from a failed write.  One the bridge closed       *)
(* ("half") swallows a write and answers it with a reset; one whose far end *)
(* vanished ("lost") swallows every write until the kernel gives up.        *)

Fits(fs) == link = "up" => Len(wire) + Len(fs) <= MaxWire
WriteFails == link = "reset"
Write(fs) == /\ Fits(fs)
             /\ wire' = IF link = "up" THEN wire \o fs ELSE wire
             /\ link' = IF link = "half" THEN "reset" ELSE link
\* Mutant: a write that failed postpones the keepalive too
SentOrNot == due' = due \ {"keepalive"}
\* Only a write that succeeds postpones the keepalive.
Sent == due' = IF WriteFails THEN due ELSE due \ {"keepalive"}

\* A signal or input event enters the channel through the thread of its source: at once, or
\* when a thread that lags behind comes to it.
Emit(source, ev, rest) ==
    IF source \in Racing THEN rx' = rest /\ threads' = [threads EXCEPT ![source] = Append(@, ev)]
    ELSE rx' = Append(rest, ev) /\ UNCHANGED threads

\* Mutant: the coordinate space stays remote
StaysRemote(s) == s
Local(s) == IF s = "remote" THEN "edge" ELSE s

\* portal.release: the compositor stops capturing if the id is its own, moves the cursor
\* and may confirm with a Deactivated; a stale id is an error the router only logs.
PortalRelease(id, rest) ==
    IF id = 0 \/ id # act
    THEN rx' = rest /\ UNCHANGED <<threads, capture>>
    ELSE /\ act' = 0 /\ cap' = {} /\ warp' = Local(space)
         /\ \/ Emit("deactivated", Ev("deactivated"), rest)
            \/ rx' = rest /\ UNCHANGED threads

\* Mutants: no RELEASE_ALL is sent; the state file is not written
GoLocalUnreleased(b, id, rest) ==
    /\ bridge' = b /\ active' = 0 /\ space' = Local(space)
    /\ PortalRelease(id, rest) /\ UNCHANGED conn
    /\ published' = IF b THEN "local" ELSE "no-bridge"
GoLocalUnpublished(b, id, rest) ==
    /\ IF b THEN Write(<<RELEASE_ALL>>) ELSE UNCHANGED conn
    /\ bridge' = b /\ active' = 0 /\ space' = Local(space)
    /\ PortalRelease(id, rest) /\ UNCHANGED published
\* go_local, with the client the router has left (b), the activation to give back and the
\* rest of the channel
GoLocal(b, id, rest) ==
    /\ IF b THEN Write(<<RELEASE_ALL>>) ELSE UNCHANGED conn
    /\ bridge' = b /\ active' = 0 /\ space' = Local(space)
    /\ PortalRelease(id, rest)
    /\ published' = IF b THEN "local" ELSE "no-bridge"
-----------------------------------------------------------------------------
(* The head of the loop, in the order of the code. *)

\* Mutant: the loop goes on after the release
ShutdownStays == /\ pc = "keep" /\ shutdown
                 /\ GoLocal(bridge, active, rx) /\ pc' = "retry"
                 /\ UNCHANGED <<events, emergency, pending, shutdown, due, acts, armed, locked,
                                ei, far>>
ShutdownSeen == /\ pc = "keep" /\ shutdown
                /\ GoLocal(bridge, active, rx) /\ pc' = "leaving"
                /\ UNCHANGED <<events, emergency, pending, shutdown, due, acts, armed, locked, ei, far>>

KeepaliveDue == pc = "keep" /\ ~shutdown /\ bridge /\ "keepalive" \in due

\* Mutant: a keepalive counts as an event of the activation
KeepaliveFeedsFailsafe == /\ KeepaliveDue /\ ~WriteFails
                          /\ Write(<< >>) /\ due' = due \ {"keepalive", "failsafe"} /\ pc' = "retry"
                          /\ UNCHANGED <<loop, shutdown, queues, compositor, far>>
Keepalive == /\ KeepaliveDue /\ ~WriteFails
             /\ Write(<< >>) /\ due' = due \ {"keepalive"} /\ pc' = "retry"
             /\ UNCHANGED <<loop, shutdown, queues, compositor, far>>

\* The failed keepalive drops the client; if remote, the capture is given back.
BridgeDead == /\ KeepaliveDue /\ WriteFails
              /\ pc' = "retry" /\ link' = "none" /\ UNCHANGED wire
              /\ IF active # 0
                 THEN /\ bridge' = FALSE /\ active' = 0 /\ space' = Local(space)
                      /\ PortalRelease(active, rx)
                 ELSE bridge' = FALSE /\ UNCHANGED <<active, space, queues, capture>>
              /\ published' = "no-bridge"
              /\ UNCHANGED <<events, emergency, pending, shutdown, due, acts, armed, locked, ei, far>>

NoKeepalive == /\ pc = "keep" /\ ~shutdown /\ ~KeepaliveDue /\ pc' = "retry"
               /\ UNCHANGED <<loop, shutdown, due, queues, compositor, conn, far>>

\* Mutant: RELEASE_ALL does not go first
ReconnectUnreleased ==
    /\ pc = "retry" /\ ~bridge /\ "reconnect" \in due /\ pi /\ ~sess
    /\ bridge' = TRUE /\ link' = "up" /\ wire' = << >> /\ sess' = TRUE
    /\ published' = "local" /\ due' = due \ {"reconnect", "keepalive"} /\ pc' = "fail"
    /\ UNCHANGED <<active, events, emergency, pending, space, shutdown,
                   queues, compositor, down, pi, faults>>
\* connect needs a bridge that is not serving anyone; RELEASE_ALL goes first.
Reconnect == /\ pc = "retry" /\ ~bridge /\ "reconnect" \in due /\ pi /\ ~sess
             /\ bridge' = TRUE /\ link' = "up" /\ wire' = <<RELEASE_ALL>> /\ sess' = TRUE
             /\ published' = "local" /\ due' = due \ {"reconnect", "keepalive"} /\ pc' = "fail"
             /\ UNCHANGED <<active, events, emergency, pending, space, shutdown,
                            queues, compositor, down, pi, faults>>
NoReconnect == /\ pc = "retry" /\ pc' = "fail"
               /\ IF bridge \/ "reconnect" \notin due THEN UNCHANGED due
                  ELSE ~(pi /\ ~sess) /\ due' = due \ {"reconnect"}
               /\ UNCHANGED <<loop, shutdown, queues, compositor, conn, far>>

\* Three seconds of capture without an event
FailsafeDue == active # 0 /\ ~events /\ "failsafe" \in due
Failsafe == /\ pc = "fail" /\ FailsafeDue
            /\ GoLocal(bridge, active, rx) /\ pc' = "flush"
            /\ UNCHANGED <<events, emergency, pending, shutdown, due, acts, armed, locked, ei, far>>
NoFailsafe == /\ pc = "fail" /\ ~FailsafeDue /\ pc' = "flush"
              /\ UNCHANGED <<loop, shutdown, due, queues, compositor, conn, far>>

\* Coalesced pointer state is dropped while local, and sent when the throttle opens.
Flush == /\ pc = "flush" /\ pc' = "recv"
         /\ \/ /\ pending /\ active # 0 /\ pending' = FALSE
               /\ IF bridge THEN Write(<< >>) /\ Sent ELSE UNCHANGED <<conn, due>>
            \/ pending' = (pending /\ active # 0) /\ UNCHANGED <<conn, due>>
         /\ UNCHANGED <<active, events, emergency, space, bridge, published, shutdown,
                        queues, compositor, far>>

RecvTimeout == /\ pc = "recv" /\ rx = << >> /\ pc' = "keep"
               /\ UNCHANGED <<loop, shutdown, due, queues, compositor, conn, far>>
-----------------------------------------------------------------------------
(* One event of the channel. *)

Recv(kind) == /\ pc = "recv" /\ rx # << >> /\ Head(rx).t = kind
              /\ UNCHANGED <<shutdown, acts, locked, ei, far>>
Rest == Tail(rx)
Consume == rx' = Rest /\ UNCHANGED <<threads, capture>>

\* "Never capture into a void": without a bridge the activation is given back.
ActivatedRefused == /\ Recv("activated") /\ ~bridge /\ pc' = "keep"
                    /\ GoLocal(FALSE, Head(rx).id, Rest)
                    /\ UNCHANGED <<events, emergency, pending, due, armed>>

Activated == /\ Recv("activated") /\ bridge /\ pc' = "keep"
             /\ active' = Head(rx).id /\ events' = FALSE /\ emergency' = {} /\ pending' = FALSE
             /\ space' = "remote" /\ published' = "remote"
             /\ Write(<< >>) /\ due' = due \ {"keepalive", "failsafe"} /\ Consume
             /\ UNCHANGED <<bridge, armed>>

LocalIfRemote == /\ IF active # 0 THEN GoLocal(bridge, active, Rest)
                    ELSE Consume /\ UNCHANGED <<active, space, bridge, published, conn>>
                 /\ UNCHANGED <<events, emergency, pending, due>>

\* Mutant: a Deactivated before the first input is taken for a late one
DeactivatedStray == /\ Recv("deactivated") \/ Recv("lock")
                    /\ IF events THEN LocalIfRemote ELSE Consume /\ UNCHANGED <<loop, due, conn>>
                    /\ pc' = "keep" /\ UNCHANGED armed
\* Deactivated and the screen lock
Deactivated == /\ Recv("deactivated") \/ Recv("lock")
               /\ LocalIfRemote /\ pc' = "keep" /\ UNCHANGED armed

\* Mutant: Enable is not called
DisabledForGood == Recv("disabled") /\ LocalIfRemote /\ pc' = "keep" /\ UNCHANGED armed
\* Disabled: Enable again; an error ends the process.
Disabled == /\ Recv("disabled") /\ LocalIfRemote
            /\ \/ pc' = "keep" /\ armed' = ~locked
               \/ pc' = "leaving" /\ UNCHANGED armed

\* Unlock: Disable, new barriers, Enable, in the same session; an error ends the process.
Unlocked == /\ Recv("unlock")
            /\ \/ pc' = "keep" /\ armed' = ~locked
               \/ pc' = "leaving" /\ armed' = FALSE
            /\ rx' = Rest /\ act' = 0 /\ cap' = {}
            /\ UNCHANGED <<loop, due, threads, warp, conn>>

\* The display was reconfigured, or the input stream ended while remote: local, then exit
Leave == /\ Recv("zones") \/ (Recv("eigone") /\ active # 0)
         /\ GoLocal(bridge, active, Rest) /\ pc' = "leaving"
         /\ UNCHANGED <<events, emergency, pending, due, armed>>

\* Captured input while local
Stray == /\ \E kind \in {"key", "button", "frame", "scroll", "eigone"} : Recv(kind)
         /\ active = 0 /\ pc' = "keep"
         /\ Consume /\ UNCHANGED <<loop, due, armed, conn>>

Captured(kind) == Recv(kind) /\ active # 0 /\ pc' = "keep" /\ events' = TRUE /\ UNCHANGED armed

\* Mutant: every key starts the combination again
ComboOfOne == LET k == Head(rx).key
              IN IF Head(rx).down THEN {k} \cap HotKeys ELSE emergency \ {k}
Combo == LET k == Head(rx).key
         IN IF Head(rx).down THEN emergency \cup ({k} \cap HotKeys) ELSE emergency \ {k}

Key == /\ Captured("key") /\ Combo # HotKeys
       /\ emergency' = Combo
       /\ IF bridge THEN Write(<<Head(rx)>>) /\ Sent ELSE UNCHANGED <<conn, due>>
       /\ Consume /\ UNCHANGED <<active, pending, space, bridge, published>>

EmergencyReturn == /\ Captured("key") /\ Combo = HotKeys
                   /\ emergency' = {} /\ GoLocal(bridge, active, Rest)
                   /\ UNCHANGED <<pending, due>>

\* The position still pending is written before the button; wheel detents stay pending.
MouseButton == /\ Captured("button")
               /\ IF bridge
                  THEN pending' \in {FALSE, pending} /\ Write(<<[t |-> "buttons", down |-> Head(rx).down]>>) /\ Sent
                  ELSE UNCHANGED <<pending, conn, due>>
               /\ Consume /\ UNCHANGED <<active, emergency, space, bridge, published>>

\* Motion inside the remote screen, or scrolling, by enough to be sent or not
Motion == /\ Captured("frame") \/ Captured("scroll")
          /\ pending' \in {pending, TRUE}
          /\ Consume
          /\ UNCHANGED <<active, emergency, space, bridge, published, due, conn>>

\* Motion through the shared edge: apply_delta has already re-seated the cursor there.
CrossBack == /\ Captured("frame")
             /\ GoLocal(bridge, active, Rest)
             /\ UNCHANGED <<emergency, pending, due>>
-----------------------------------------------------------------------------
(* The process, its threads and the connection's end. *)

Fault(f) == f \in Faults /\ faults < MaxFaults /\ faults' = faults + 1

\* The channel, the portal session, the socket and the locals of run go with the process.
Gone == /\ pc' = "exit" /\ rx' = << >> /\ threads' = [s \in Sources |-> << >>]
        /\ active' = 0 /\ bridge' = FALSE /\ link' = "none"
        /\ events' = FALSE /\ emergency' = {} /\ pending' = FALSE
        /\ space' = "center" /\ due' = {}
        /\ act' = 0 /\ cap' = {} /\ armed' = FALSE /\ ei' = FALSE
        /\ UNCHANGED <<acts, locked, warp, wire, sess, down, pi>>
\* The state file is removed, unless the process is killed.
Exit == pc = "leaving" /\ Gone /\ published' = "none" /\ UNCHANGED <<shutdown, faults>>
Killed == Fault("kill") /\ pc # "exit" /\ Gone /\ UNCHANGED <<shutdown, published>>

\* Restart=on-failure: a new process asks for the capture, and the portal asks the user.
Launch == /\ pc = "exit" /\ ~shutdown
          /\ pc' = "consent" /\ published' = "consent"
          /\ UNCHANGED <<active, events, emergency, pending, space, bridge, shutdown,
                         due, queues, compositor, conn, far>>

\* The user consents: barriers, Enable, then a first connection, which sends no RELEASE_ALL.
Granted == /\ pc = "consent" /\ ~locked
           /\ pc' = "keep" /\ armed' = TRUE /\ ei' = TRUE
           /\ \/ /\ pi /\ ~sess /\ bridge' = TRUE /\ link' = "up" /\ wire' = << >>
                 /\ sess' = TRUE /\ published' = "local"
              \/ bridge' = FALSE /\ published' = "no-bridge" /\ UNCHANGED <<conn, sess>>
           /\ UNCHANGED <<active, events, emergency, pending, space, shutdown, due, queues,
                          act, acts, cap, locked, warp, down, pi, faults>>

\* The user declines, or a step of the set-up fails: run returns an error.
Refused == pc = "consent" /\ Gone /\ published' = "none" /\ UNCHANGED <<shutdown, faults>>

\* on_signal: the loop looks at the flag; before it the handler ends the process itself.
Signal == /\ Fault("signal") /\ ~shutdown /\ pc # "exit" /\ shutdown' = TRUE
          /\ IF pc = "consent" THEN Gone /\ published' = "none"
             ELSE UNCHANGED <<pc, loop, due, queues, compositor, conn, sess, down, pi>>

\* Time passes: one of the timers the code would look at expires, or all of them do.
Running == {t \in Timers : CASE t = "failsafe"  -> active # 0 /\ ~events
                             [] t = "keepalive" -> bridge
                             [] t = "reconnect" -> ~bridge}
Elapse == /\ InLoop /\ \E t \in Running \ due : due' = due \cup {t}
          /\ UNCHANGED <<pc, loop, shutdown, queues, compositor, conn, far>>
LongElapse == /\ InLoop /\ ~(Running \subseteq due) /\ due' = due \cup Running
              /\ UNCHANGED <<pc, loop, shutdown, queues, compositor, conn, far>>

Forward(s) == /\ threads[s] # << >> /\ Len(rx) < MaxQueue
              /\ rx' = Append(rx, Head(threads[s]))
              /\ threads' = [threads EXCEPT ![s] = Tail(@)]
              /\ UNCHANGED <<pc, loop, shutdown, due, compositor, conn, far>>
-----------------------------------------------------------------------------
(* The compositor.  Events are emitted only while the channel has room.      *)

router == <<pc, loop, shutdown, due, conn, far>>
Room(s) == InLoop /\ Len(rx) < MaxQueue /\ Len(threads[s]) < MaxQueue

\* The cursor is pushed through the armed edge.
Cross == /\ armed /\ ~locked /\ act = 0 /\ acts < MaxActs /\ Room("activated")
         /\ acts' = acts + 1 /\ act' = acts' /\ cap' = {}
         /\ Emit("activated", [t |-> "activated", id |-> acts'], rx)
         /\ UNCHANGED <<router, armed, locked, ei, warp>>

Input == /\ act # 0 /\ ei /\ Room("ei")
         /\ \/ \E k \in Keys \ cap : cap' = cap \cup {k} /\ Emit("ei", KeyEv(k, TRUE), rx)
            \/ \E k \in cap \cap Keys : cap' = cap \ {k} /\ Emit("ei", KeyEv(k, FALSE), rx)
            \/ /\ "button" \in Pointing
               /\ cap' = IF Button \in cap THEN cap \ {Button} ELSE cap \cup {Button}
               /\ Emit("ei", [t |-> "button", down |-> Button \notin cap], rx)
            \/ \E kind \in Pointing \ {"button"} : Emit("ei", Ev(kind), rx) /\ UNCHANGED cap
         /\ UNCHANGED <<router, act, acts, armed, locked, ei, warp>>

\* GNOME takes the capture back.
Yank == /\ act # 0 /\ Room("deactivated") /\ act' = 0 /\ cap' = {}
        /\ Emit("deactivated", Ev("deactivated"), rx)
        /\ UNCHANGED <<router, acts, armed, locked, ei, warp>>

\* The session is disabled, or the displays change.
Ends(kind) == /\ kind \in Signals /\ armed /\ Room(kind)
              /\ act' = 0 /\ cap' = {} /\ armed' = FALSE
              /\ Emit(kind, Ev(kind), rx)
              /\ UNCHANGED <<router, acts, locked, ei, warp>>

\* The input stream ends, with the session or alone.
EiEnds == /\ "eigone" \in Signals /\ ei /\ Room("ei")
          /\ ei' = FALSE /\ cap' = {}
          /\ \/ act' = 0 /\ armed' = FALSE
             \/ UNCHANGED <<act, armed>>
          /\ Emit("ei", Ev("eigone"), rx)
          /\ UNCHANGED <<router, acts, locked, warp>>

\* The screensaver watcher tells a router that is in its loop.
Saver(ev) == IF InLoop THEN Room("saver") /\ Emit("saver", Ev(ev), rx) ELSE UNCHANGED queues

\* A lock ends capture and barriers with no portal signal (docs/input-routing.md).
Lock == /\ "lock" \in Signals /\ ~locked /\ Saver("lock")
        /\ locked' = TRUE /\ act' = 0 /\ cap' = {} /\ armed' = FALSE
        /\ UNCHANGED <<router, acts, ei, warp>>
Unlock == /\ locked /\ Saver("unlock") /\ locked' = FALSE
          /\ UNCHANGED <<router, capture, acts, armed, ei>>

Compositor == \/ Cross \/ Input \/ Yank \/ Lock \/ Unlock \/ EiEnds
              \/ Ends("disabled") \/ Ends("zones")
-----------------------------------------------------------------------------
(* The bridge's end of the connection: the lease of module Bridge. *)

near == <<pc, loop, shutdown, due, queues, compositor>>

After(f) == CASE f.t = "release" -> {}
              [] f.t = "key"     -> IF f.down THEN down \cup {f.key} ELSE down \ {f.key}
              [] f.t = "buttons" -> IF f.down THEN down \cup {Button} ELSE down \ {Button}

Apply == /\ sess /\ wire # << >>
         /\ down' = After(Head(wire)) /\ wire' = Tail(wire)
         /\ UNCHANGED <<near, link, sess, pi, faults>>

\* EOF, an error, or the heartbeat: the session ends and releases the target.
SessionEnds == /\ sess /\ wire = << >> /\ link # "up"
               /\ sess' = FALSE /\ down' = {}
               /\ UNCHANGED <<near, conn, pi, faults>>

\* The bridge drops a client that is there: a stalled HID write outlasted the heartbeat.
Drop == /\ Fault("drop") /\ sess /\ link = "up"
        /\ sess' = FALSE /\ down' = {} /\ link' = "half" /\ wire' = << >>
        /\ UNCHANGED <<near, pi>>

\* The bridge dies: nothing is released.
Crash == /\ Fault("crash") /\ pi
         /\ pi' = FALSE /\ sess' = FALSE /\ wire' = << >>
         /\ link' = IF link = "up" THEN "half" ELSE link
         /\ UNCHANGED <<near, down>>

\* The Pi loses power: the gadget goes away from the target, and no packet says so.
PowerLoss == /\ Fault("power") /\ pi
             /\ pi' = FALSE /\ sess' = FALSE /\ down' = {} /\ wire' = << >>
             /\ link' = IF link = "up" THEN "lost" ELSE link
             /\ UNCHANGED near
Boot == ~pi /\ pi' = TRUE /\ UNCHANGED <<near, conn, sess, down, faults>>

\* The network fails under the connection: the bridge's heartbeat will notice.
NetworkLoss == /\ Fault("network") /\ link = "up"
               /\ link' = "lost" /\ wire' = << >>
               /\ UNCHANGED <<near, sess, down, pi>>
\* The kernel's retransmissions run out.
KernelGivesUp == link = "lost" /\ link' = "reset" /\ UNCHANGED <<near, wire, far>>
-----------------------------------------------------------------------------
Top == ShutdownSeen \/ Keepalive \/ BridgeDead \/ NoKeepalive \/ Reconnect \/ NoReconnect
           \/ Failsafe \/ NoFailsafe \/ Flush \/ RecvTimeout
Handle == \/ ActivatedRefused \/ Activated \/ Deactivated \/ Disabled \/ Unlocked \/ Leave
          \/ Stray \/ Key \/ EmergencyReturn \/ MouseButton \/ Motion \/ CrossBack
Process == \/ Exit \/ Killed \/ Launch \/ Granted \/ Refused \/ Signal
           \/ Elapse \/ LongElapse \/ \E s \in Sources : Forward(s)
PiSide == Apply \/ SessionEnds \/ Drop \/ Crash \/ PowerLoss \/ Boot \/ NetworkLoss \/ KernelGivesUp

Next == Top \/ Handle \/ Process \/ Compositor \/ PiSide
Spec == Init /\ [][Next]_vars

\* The router's thread and the forwarding threads run, time passes, systemd restarts the
\* processes, the bridge reads its socket (its host polls), and retransmissions run out in
\* the end.  Nothing is assumed of the user: the portal's question may never be answered.
Fairness == /\ WF_vars(Top \/ Handle \/ Exit \/ Launch) /\ WF_vars(LongElapse)
            /\ \A src \in Sources : WF_vars(Forward(src))
            /\ WF_vars(Apply \/ SessionEnds) /\ WF_vars(Boot \/ KernelGivesUp)
FairSpec == Spec /\ Fairness
-----------------------------------------------------------------------------
(* Properties *)

Inputs == Keys \cup {Button}
EventKinds == {"activated", "deactivated", "disabled", "zones", "lock", "unlock",
               "key", "button", "frame", "scroll", "eigone"}

\* The type invariant of the router and its surroundings.
TypeOK == /\ pc \in {"keep", "retry", "fail", "flush", "recv", "leaving", "exit", "consent"}
          /\ active \in 0..MaxActs /\ act \in 0..MaxActs /\ acts \in 0..MaxActs
          /\ {events, pending, bridge, shutdown, armed, locked, ei, sess, pi} \subseteq BOOLEAN
          /\ emergency \subseteq HotKeys /\ cap \subseteq Inputs /\ down \subseteq Inputs
          /\ space \in {"center", "edge", "remote"} /\ warp \in {"none", "center", "edge"}
          /\ published \in {"local", "remote", "no-bridge", "none", "consent"} /\ due \subseteq Timers
          /\ \A i \in DOMAIN rx : rx[i].t \in EventKinds
          /\ \A s \in Sources : \A i \in DOMAIN threads[s] : threads[s][i].t \in EventKinds
          /\ link \in {"none", "up", "half", "lost", "reset"}
          /\ faults \in 0..MaxFaults
          /\ \A i \in DOMAIN wire : wire[i].t \in {"key", "buttons", "release"}

\* "Every transition to local sends RELEASE_ALL" (router.rs:5): while the router is local and
\* connected, nothing the target holds or a frame in flight presses outlives what is in flight.
ReleasedAfter(i) == \E j \in i..Len(wire) : wire[j] = RELEASE_ALL
QuietWhenLocal ==
    active = 0 /\ link = "up" =>
        /\ down # {} => ReleasedAfter(1)
        /\ \A i \in DOMAIN wire : wire[i] # RELEASE_ALL /\ wire[i].down => ReleasedAfter(i)

\* Once it has taken in all that the compositor has said, the router knows who has the input,
\* whatever it gave back, refused or had taken from it: with threads that keep the order, and
\* without a lock, which ends a capture by no signal of the portal's.
InStep == pc = "recv" /\ rx = << >> => active = act

\* The state file the tray polls tells the truth whenever the router waits for an event.
PublishedTruth == pc = "recv" =>
    published = IF active # 0 THEN "remote" ELSE IF bridge THEN "local" ELSE "no-bridge"

\* "No stuck input, ever" (docs/engineering-rules.md:23): what the target holds while the
\* compositor does not capture is released, unless the user goes back to the target.
NoStuckInput == \A k \in Inputs : (k \in down /\ act = 0) ~> (k \notin down \/ act # 0)

\* Input is not captured into a void: without a connection, or with a router that is not
\* there, the capture ends.
NeverIntoVoid == (act # 0 /\ link \in {"none", "half", "reset"})
                    ~> (act = 0 \/ link \notin {"none", "half", "reset"})

\* The emergency combination, pressed while captured, ends the capture if it is kept down.
EmergencyWorks == (HotKeys \subseteq cap /\ act # 0 /\ ei) ~> (~(HotKeys \subseteq cap) \/ ~ei)

\* A lock, a disabled session or a display change does not leave the edge dead: the barriers
\* are armed again, or a new process asks the user for them.  Unless the input stream has
\* ended as well, which a local router takes for a stray event.
Rearmed == (~armed /\ ~locked) ~>
             (armed \/ locked \/ shutdown \/ pc = "consent" \/ (InLoop /\ ~ei))

\* A router that believes it is remote when the compositor does not capture for it, because
\* a Deactivated overtook its Activated, notices that no input arrives and goes back.
FailsafeHeals == (active # 0 /\ act # active /\ ~events) ~> (active = 0 \/ act = active \/ events)

\* "Ctrl-C cleans up both sides" (router.rs:9): after a termination signal the process ends,
\* the compositor gets its input back and the target is released, for good.
ShutdownCleans == shutdown ~> [](pc = "exit" /\ act = 0 /\ down = {})

\* go_local places "the local cursor at the right edge" (router.rs:231) whenever an accepted
\* capture is given back; only a refused one leaves it where the space happens to be.
CursorAtEdge == [][ warp' # warp /\ ~ActivatedRefused => warp' = "edge" ]_vars
===========================================================================
