# Beaglewing in TLA+

Beaglewing lets one keyboard and mouse drive two machines. An input router on
the Ubuntu desktop captures input at the screen edge and sends it over TCP to a
Raspberry Pi, which replays it as a USB keyboard and pointer on the target
(Windows) machine. A third USB interface carries the clipboard between the two.

This directory holds a model of the parts where ordering, failure and shared
state decide whether the system is safe ("No stuck input, ever",
docs/engineering-rules.md) and alive (clipboard and edge come back after
anything). Paths below are relative to `src/`.

## The system

| Part | State it keeps | Operations | Talks to |
|---|---|---|---|
| Bridge daemon, `pi/bridge/src/main.rs` | the HID state (modifiers, 6 slots, buttons, position, hid_ok), one session (buffer, greeted, pending position, deadline) | accept, parse a frame, write a report, release all, time out, stop | clients over TCP, the USB gadget |
| Router, `linux/input-router/src/router.rs` | active_id, coordinate space, coalesced pointer state, emergency combination, the bridge client, five timers | one handler per portal signal and captured event, keepalive, reconnect, failsafe, shutdown | compositor (D-Bus, EI), bridge, tray (state file), clipboard agent (datagrams) |
| Portal and EI threads, `portal.rs`, `capture.rs` | none | forward signals and input into the router's channel | compositor, router |
| Geometry, `geometry.rs` | the cursor's place, which screen it is on | apply a delta, cross, enter, come back, canonical coordinates | router |
| Linux clipboard agent, `clipboard.rs` | connection, last_rx, last_sent, last_set, local and remote offer, reassembler; threads: reader per connection, ticker, watcher, control socket | send, offer, pull, receive, reconnect | data relay, X clipboard, router (crossings) |
| Data relay, `pi/bridge/src/bin/beaglewing-data.rs` | the connection being served, the pump's client | accept, answer PING, pass frames both ways | agent, third HID interface |
| Windows helper, `windows/clipboard-agent/src/main.rs` | device handles, acked, last_sent, last_set, an offer, a pull request; threads: reader, applier, send loop | send, offer, serve a pull, receive, reopen | third HID interface, Windows clipboard |
| clipframe, `protocol/clipframe/src/lib.rs` | the Reassembler | encode, feed | both clipboard agents |
| File batches, `protocol/clipframe/src/files.rs` | staging directories | signature, pack, unpack | both clipboard agents |
| Wi-Fi self-heal, gadget scripts, tray, tables, probes | files, configfs | shell and UI | |

What is hard about it: the router's events come from six threads that keep no
common order; TCP connections die without a word when the Pi loses power; both
servers on the Pi serve one client at a time, so a connection nobody closes
shuts everybody else out; a HID write blocks or fails with the target's state
unknown; the Windows input queue drops its oldest reports; two agents each watch
a clipboard that the other one writes, and tell their own writes from the user's
by a hash; positions wait for a throttle that clicks do not wait for; and any of
the processes may be restarted by systemd between two steps of another.

What makes each part correct:

- bridge: whatever ends a session, the target has nothing down after it; a key
  the client released is up; clicks act where the client last pointed; a dead
  client is replaced;
- router: whatever ends a capture, the target is released; nothing is captured
  without a bridge; the emergency combination works; the edge comes back; no
  position and no wheel detent is lost, every column of the target is reached;
- agent and relay: after any fault they find each other again;
- clipboards: the last copy wins, files move when asked for and only then, and
  the agents do not echo each other;
- clipframe: what arrives was copied, as it was copied; every send ends.

## Modules

| Module | Models | Kind |
|---|---|---|
| `InputLease` | what the bridge promises: inputs are down only during a session | abstract specification |
| `Bridge` | the bridge daemon, its clients, the USB host | implements `InputLease` |
| `Router` | router, compositor, forwarding threads, TCP link, and the bridge reduced to its lease | composition |
| `Geometry` | the two screens and the cursor on them | operators |
| `Pointer` | the router's motion, wheel and clicks on `Geometry` | extends `Geometry` |
| `AgentRelay` | agent main loop and threads, relay, TCP, faults | composition |
| `Mailbox` | what one direction of the clipboard promises: what arrives was copied, whole, at most once and never after something copied later | abstract specification |
| `Transfer` | windowed sender, input queue, Reassembler, ACKs | implements `Mailbox` |
| `ClipSync` | the two clipboards and their agents: copies, echo suppression, offers, pulls, crossings | composition |
| `BridgeProofs`, `RouterProofs`, `PointerProofs`, `AgentRelayProofs`, `TransferProofs`, `ClipSyncProofs` | theorems about the module each is named for | proofs |
| `MCBridge`, `MCRouter`, `MCPointer`, `MCAgentRelay`, `MCTransfer`, `MCClipSync` | instances for TLC | |

The modules meet at what one promises the other. `Bridge` is shown to implement
`InputLease`, and what `Router` has for its far end is shown to do no more than that
lease allows. `AgentRelay` shows that a
connection comes back; `ClipSync` takes a connection that is lost and comes back.
`Transfer` is shown to implement `Mailbox`, so that a transfer arrives whole or not at
all; in `ClipSync` it is one message. What `Router` calls a write with no lasting effect is `Pointer`'s.

### Bridge

One thread, so the program counter `pc` is the whole of its control: `accept`,
`read`, `parse`, and the two steps of `release_all`, `relkbd` and `relptr`, since
the process can die and the host detach or stall between the keyboard and the pointer
report. The USB host polls, stalls or is away (`host`). A report write waits for a poll
(the gadget is opened without `O_NONBLOCK`), so with a host that stalls no step that
writes a report is taken: the thread stands where it is, `SlowWrite` counts the time, and
neither the heartbeat nor `SHUTDOWN` is looked at. A host that goes away makes the write
that waits fail. Each frame type is an action; a read brings a batch of up to `MaxBatch`
frames. `EndSession` is what `main` does after `handle_client` for whatever
reason; the actions that use it are the function's returns. `target` is what the
target machine believes; `hid` is what the daemon believes; they part when a
report is written to a detached host. `wanted` and `newest` are ghosts for the
properties. Two positions in one model coordinate stand for x and y.
A partial frame is a flag; the deadline is counted in read timeouts.

### Router

The loop is cut at its own steps (`keep`, `retry`, `fail`, `flush`, `recv`): each
is one action, so that events and faults fall between any two. Timers are facts
("has expired since it was last reset"); a handler is an action, `go_local` an
operator taking the client that is left and the activation to give back. The
forwarding thread of a source in `Racing` may hold events back while the others pass;
a source that is not in it puts its events into the channel at once, so that with
`Racing = {}` the channel has the compositor's order. A new process (`Launch`) asks the
portal for the session and waits in `consent`, for ever if nobody answers; `Granted` is
the rest of the set-up up to the first connection, `Refused` the user's no or an error in
any step of it. A signal before the loop ends the process at once. `Pointing` says which of
clicks, motion and scrolling the user makes.
The link is `up`, `half` (the bridge closed it: one write is swallowed, the next
fails), `lost` (every write is swallowed until the kernel gives up) or `reset`.
`act` is the compositor's own idea of the activation, so the model can tell
"the router thinks it is remote" from "the user's input is captured". The far
end is the lease: a session, a set of inputs down, and everything up when the
session ends. The pointer's coordinates are `Pointer`'s; positions and wheel are
writes here.

### Geometry and Pointer

`Geometry` has the operations of `Space` as operators on a record. x is in whole
pixels. y is in fractions of a pixel fine enough that the mapping between the two
heights is exact; the code has f64, whose rounding errors are abstracted away.
`Pointer` is the part of the router's loop that moves it: motion is added up until
a `Frame`, scrolling until it makes a detent, and what results waits for the
throttle in `pendingPos` and `pendingWheel`. Clicks flush the position and go at
once. `out` is a ghost: what was written in the last step, in order. `told`,
`scrolled` and `turned` are ghosts too: the bridge's newest position, what was
scrolled in, what was delivered. Every write succeeds here; `Router` has those
that fail.

### AgentRelay

`writer` is the connection of the running session, `readers` the connections
whose reader threads run; since the reader owns a handle of the socket, a session
that ends does not close its connection. A connection is `queued`, `served`,
`closed` (by the agent's exit), `reset`, or a `zombie` the Pi has forgotten.
Frames are `ping`, `pong`, `data`; a transfer is one `data`.
`Silence` may happen only when no answer is on its way and nothing will answer
(`Answered`): it stands for 30 s without a frame. A write beyond `MaxFrames` in flight is
left out and the loop goes on. In the code it goes on as well as long as the socket's send
buffer has room; with a window of 256 KB unacknowledged it may not, and the loop then waits
in `write_all` until the relay reads or the kernel gives the connection up. The model
has the outcome (a failed write) and not the wait.

### Transfer

One direction of the clipboard. A payload is its number of DATA frames; frames
carry the wrapped sequence number and the total as on the wire, and ghost labels
(which payload, which part, which attempt) the properties use. The queue
in front of the receiver drops its oldest frame when full. The ghost `disturbed`
says that a send has stalled, has broken off, or began before the one before was
read and acknowledged; until then the window must do all it promises. The same module
stands for `send_transfer` on Linux and `send_frames` on Windows.

### ClipSync

Both machines at once. A content is a name and the line endings of the machine it
is on; two contents have the same hash only if both agree. On Linux the watcher
(`prev`) and the reader post events into `rx`, and the main loop takes one at a
time: a copy (`Skip`, `OfferFiles`, `SendText`), a frame (`DataArrives`,
`OfferArrives`), or a crossing or explicit pull (`Crossed`). On Windows there are
three threads: the reader (`Read...`), the applier, whose two steps `ApplySet` and
`ApplyRecord` are the window in which its own write looks like the user's, and the
send loop (`TakePull` and `Sending`, `Poll` and `Decide`), whose clipboard read and
comparison are two steps as well. `sending` is the batch being sent with
`pull_request` locked. Faults: the connection is lost (and notice of it later), a
send comes to nothing, an apply fails. `last`, `owed`, `asked` and `excused` are
ghosts: the newest copy, whether the user has crossed for it since it is on offer
(its agent holds it out and the other one knows), which batches were asked
for, and whether the last copy may fail to win, because a fault came between,
because its machine has sent or set the same content last, or because the user
copied again before the first copy had settled. What xclip makes of its input is not looked at:
a set that fails may be recorded as done all the same (`DataFails`). Images go the way of text. Linux's handling of a PULL (`clipboard.rs:584-593`)
is left out: the Windows helper never sends one.

## Runs

Passing runs:

| Run | Question | Bounds |
|---|---|---|
| BridgeSessions | is the lease implemented, whatever ends a session? do keys stay down, does STATUS understate, is a dead client replaced, a stop clean? | 2 clients, 1 key that a KEY_STATE may put into both of 2 slots, a button bit beyond the mask, batches of 1, a host that stalls and detaches any number of times |
| BridgePointer | does coalescing keep the order of clicks and the last position? what is left of a crash after the next session? | 2 coordinates, batches of 2, a modifier to leave held, any number of crashes |
| RouterLinks | is a key or button stuck, input captured for nobody, or the state published wrongly after link faults? does the emergency combination work? do the router and the compositor agree on who has the input? | 2 faults of 4 kinds, 1 activation, two keys that are the combination together (so that each alone is forwarded) and a button, 2 messages on the wire; threads in order; the router does not end (together with a bridge crash that breaks `QuietWhenLocal`, see below) |
| RouterThreads | re-arming, a clean stop, the cursor's place and a router that is remote by mistake, under lock, unlock, disable, zone change, loss of the input stream | 1 activation; the threads of `Activated`, `Disabled` and the screen saver race, so that one event of each and one in the channel wait together and come in any order; a kill or a termination; pointer and buttons |
| PointerPath | do clicks act where the user points? is a position, a detent or a column lost? does a capture end level on the edge? | screens of 3 x 4 and 4 x 2, the edge on either side, 8 canonical values, reports of 1 detent (so that they are cut off), 2 steps of motion between frames, 3 units of scrolling |
| AgentRestart | is a forgotten connection given up? does the pump follow? does the documented remedy work? | 2 connections, 2 faults of 5 kinds, a restart among them |
| TransferSend | does the window keep the queue from overflowing? do all copies arrive? is `Mailbox` implemented, whatever is lost? does a send end? | payloads of 4, 2 and 5 (too long); window 3, period 2, queue 5, sequence numbers mod 4 (they wrap) |
| ClipSync | does the last copy win? do files move only when asked for, and the right ones? is every pull answered? does an agent send back what it was given? | 2 copies of 3 contents (a text of several lines, two batches) on either machine, 2 crossings or pulls, 1 fault of 3 kinds |

The bounds are small, but each is chosen so that the case it limits happens: a key
in two slots, a batch in which a click follows a position, a wrapped sequence
number, a window that is not a multiple of the ACK period, a report too small for
the wheel, two screens whose heights do not divide evenly, two faults so that the
second hits the recovery from the first, two copies and two crossings so that an
offer is replaced while its PULL is on the way. A second client, connection or
activation is what every hazard needs; a third adds states and no new order. For
most safety properties a theorem says the same without the bounds. What a run
leaves out the theorem has: more keys than slots, for one (`NoPhantom`).
Deadlock is checked except in `Transfer`, where the copies run out, in `ClipSync`,
where the user's do, and in `RouterThreads`, where a stopped router is meant to
stay stopped. Connections are names: one is used again when both ends have closed it.

Runs that find a violation (each listed under "findings" in `PROJECT.json` with
the line it contradicts):

- **RouterReorder**: a key is pressed in a capture that is taken back at once. The
  `Deactivated` overtakes its `Activated` and finds the router local; the `Activated`
  makes it remote with no capture, and the key press behind it, one key of the combination
  and so an ordinary key, is forwarded. Nobody releases it: once an event has arrived, the
  failsafe is off (`FailsafeHeals` is the case in which none has). That the order
  is all that is missing here, `InStep` shows: with threads that keep it, a router that
  has taken in everything is remote just when the input is captured.
- **AgentReboot**: after a reboot of the Pi, the `Disconnected` of the old
  connection ends the new session, whose reader keeps its socket open; the relay
  goes on serving it, and the clipboard stays dead until the agent is restarted.
  `RestartRecovers` shows that a restart is enough, as long as the host is awake.
- **ClipEcho**: a second copy made before the first has settled. The applier sets the
  clipboard before it records what it set (`windows/clipboard-agent/src/main.rs:297-300`), so
  the send loop can send it back; two contents that do this are each the news where the
  other was last sent and set, and go to and fro without end (`ComesToRest`), against
  `clipboard.rs:13-14`. With the two steps of the applier in one TLC finds no such run.
- **ClipPull**: the Windows send loop holds the lock of `pull_request` for as long as
  it sends the batch (the guard lives to the end of the `if let`). A second PULL
  meanwhile blocks the reader, which then takes in no ACKs, and the send is given up.

### Where code and words part

Met while modelling; no run is spent on these, and the properties above say where
they make an exception.

Bridge and router:

- "Any disconnect, timeout, malformed message, crash, or shutdown releases all keys"
  (docs/engineering-rules.md:21): a killed daemon releases nothing. What is down stays down until a session of the next
  process ends (`SessionEnd` is that bound), and STATUS understates until then. If
  the router is restarted as well, its first connection sends no RELEASE_ALL either
  (`router.rs:185`), so even that is only the end of the next session.
- A host that stays attached and stops polling holds the daemon's only thread in a report
  write (`main.rs:58`, `:97`; `write_all` retries an interrupted write). Meanwhile the
  heartbeat does not reclaim the connection (docs/protocol.md:24-27), a stop is
  not noticed, and systemd's SIGKILL, when it comes, releases nothing.
  `Reclaimed` and `ShutdownReleases` therefore assume `HostTakesReports`: it does not stay
  so for ever. A session whose write takes longer than the heartbeat is dropped by the
  next look at the deadline, which the model has.
- A dead connection swallows input until TCP gives up: `linux/input-router/src/router.rs:6`
  against `:271`. `NeverIntoVoid` is about what happens once a write has failed.
- A refused activation puts the cursor where the space was created (the centre) or
  last was, and not at the edge: `router.rs:231` against `:360-366` and
  `geometry.rs:55`. `CursorAtEdge` leaves this case out.
- The end of the EI stream is taken for a stray event when it comes while the router
  is local (`router.rs:435`), so the process does not restart as it does at `:571`.
  `Rearmed` excuses it.
- Two locks in quick succession, or a disable and a lock: the handler of an unlock
  disables the capture the compositor has now, although its `Activated` may still be
  waiting in the channel (`router.rs:421`). The router then takes it for a new capture
  and is remote with none, until the failsafe or the next lock. `InStep` leaves the lock out.
- The zone that `arm_barriers` returns after an unlock is dropped (`router.rs:422`), and
  connecting blocks the loop (`router.rs:289`).
- `ScrollDiscrete` counts as detents what is below 120 (`router.rs:536`): a
  high-resolution wheel that reports in smaller steps scrolls a whole detent for each.
  `WheelKept` counts as the code does. The wheel is not flushed before a key
  (`router.rs:323`), so a scroll and the modifier after it can change places.
- A remote screen less than a pixel wide (`--remote-size`) makes `clamp` panic; the
  model assumes at least one, and a local screen of at least two.

Connection and transfer:

- The relay does not replace an old connection by a new one
  (`pi/bridge/src/bin/beaglewing-data.rs:131`); after an outage of more than 30 s it
  serves the one the agent has given up.
- A sleeping host holds the relay's accept loop 10 s a frame
  (`beaglewing-data.rs:39`, `:160`; docs/clipboard.md:117), PINGs behind it included.
- A transfer of more than 30 s makes the agent give up a healthy link
  (`clipboard.rs:515-522`). The model's transfers are shorter.
- "Never more than ACK_WINDOW unacked frames" (`clipboard.rs:313`): the ACKs of the
  transfer before, if they arrive after the count was reset, open the window of the
  next (`clipboard.rs:294`, `:322`). `NothingLost` holds until a send starts that early.
- The window is 256 frames. The queue of the receiver is "~512" at
  `protocol/clipframe/src/lib.rs:30` and "as small as 32" at
  `windows/clipboard-agent/src/main.rs:285`: what is proved about it needs a
  queue of at least the window and two, and fails for the smaller one, unless the
  reader keeps up.
- Transfers have no identity on the wire. A gap that takes the end of one payload and
  the start of another of the same length is not noticed (`lib.rs:207`;
  docs/clipboard.md:80), and neither is one that wraps the sequence numbers (only a
  payload within 384 KiB of the cap of 64 MiB is long enough). So `Mailbox` is promised to
  payloads that differ in length (`Distinct`) and are within the range of the numbers
  (`InRange`), as those of `TransferSend` are. Beyond that TLC finds a mixture, in payloads of
  8, 1 and 2 frames with numbers mod 4 and a queue of 5, for one. The code
  compares lengths in bytes, so it tells apart more payloads than the model, which
  counts frames.

Clipboards:

- A crossing fetches what is on offer when it is handled. After a copy it takes up to half a
  second until the watcher looks (`clipboard.rs:246-265`), then the offer is on its way: a
  crossing before it arrives fetches nothing, and the batch waits for the next one, although
  "the bytes move when the user crosses over" (`clipboard.rs:5-8`, docs/clipboard.md:113).
  `LastCopyWins` lets a batch stay on offer if nobody has crossed since it was.
- `LastCopyWins` leaves out a copy made before the one before has settled: either of the
  two may win, and `ClipEcho` shows that neither has to.
- Without such an overlap the helper can still send back what it was given, once, when it
  looks between the applier's two steps; `NotSentBack` allows this.
- A copy of what its agent sent or set last is not noticed (`clipboard.rs:531`), even
  if the other machine has something else by now.
- A copy whose send breaks off is lost (`clipboard.rs:562`): the watcher has taken it as
  seen. An offer is taken before its push and lost if the push breaks the session
  (`clipboard.rs:605`). A requested pull that is lost stays requested, and only the
  explicit command repeats it (`clipboard.rs:615`).
- Two transfers that arrive on Linux in quick succession: the watcher may see the
  first when the second has replaced it in `last_set`, and sends it back.
- An offer outlives a newer copy on the other machine: a crossing pulls or pushes it all
  the same, and it arrives over the newer copy.
- If the offer of a batch that is copied again is lost, its arrival takes back the offer
  of another (`clipboard.rs:432-468`), which is why `RightBatch` is about runs without faults.
- The signature of a batch has names and sizes only (`files.rs:43`), so a file edited
  without a change of size is the batch already sent; the cap is compared with the sizes,
  not with the tar (`files.rs:57`).
- The watcher asks for TARGETS and for the content in two calls of xclip
  (`clipboard.rs:175-213`), between which the clipboard may change.
- The loop of the Linux agent takes in no frame while it sends, and so acknowledges
  none: a long transfer from Windows at the same time stalls, and is given up after two stalls.

Wi-Fi self-heal (`pi/wifi-heal/wifi-heal.sh`, not modelled): `grep -q connected` also
matches "disconnected", and a power cut between `radio wifi off` and `on` leaves the radio off.

## Fairness

- Bridge: its thread takes enabled steps. A step that writes a report is enabled only
  while the host polls, so strong fairness on accept loop and parser says that a write
  returns if the host polls again and again (in the code the poll takes the report that
  waits); weak fairness is enough for the session's head, and the end of a stream is
  read in the end (strong fairness on `ReadEnd`: a stream that has ended holds finitely
  many bytes). Nothing is assumed of clients or of signals. Of the host, the two
  liveness properties say what they assume: `HostTakesReports`.
- Router: its thread and each forwarding thread run, timers expire
  (`LongElapse`), systemd starts what exited, the bridge reads its socket (so its host polls)
  and the kernel gives up on a lost peer. The user and the compositor are free to stop, and the
  portal's question may never be answered: `Granted` and `Refused` are not fair, and
  `Rearmed` promises a process that asks, not one that was allowed.
- AgentRelay: all threads run, faults are over in the end (the network returns,
  the Pi boots, the host wakes), TCP retransmits.
- Transfer: the sender runs. `SenderReturns` assumes nothing of the receiver or of
  the ACKs.
- ClipSync: every thread of both agents runs. Nothing is assumed of the user, of the
  connection or of the faults.
- Pointer: none; it has safety only.

## Proofs

Each theorem is for every value of the constants that the named assumption of its
module allows: any number of keys, slots, connections, payloads, contents and copies,
any window, queue and batch size, any screens. Further conditions are stated here and
in the theorem.

### Bridge

- `TypeCorrect`: one lemma per group of actions; `FlushKbdType`, `FlushPtrType`,
  `PressType`, `ReleaseType` are about the operators they share.
- `NothingHeld`, `NoPhantom` and `ImplementsLease`, for a daemon that is not killed
  (`CanCrash = FALSE`): `NothingHeldIdle`, `NoPhantomKey`, and `Spec => LeaseHeld`, in
  which `Accept` is the lease's grant, the pointer report that ends a session its
  return, every other step a use or a stutter.
- `SessionEnd`, crashes included, and `Status`, without: `SessionEndReleases` and
  `StatusHonest`.
- `NoneLost` and `ClicksExact`, crashes included: `Settled` and `ClickAtNewest`.

The first three rest on one inductive invariant, `LeaseInv`. `NothingHeldIdle` is not
inductive: that nothing is down at `accept` follows from what the two reports of
`release_all` did, each to its half of the target, and a report that fails does no harm
only because a detached target has nothing down. `LeaseInv` says this for `relptr`, ties
`serving = NoConn` to the program counters without a session, and keeps both what the
daemon holds and what the target believes within `wanted`. That the keys stay within
`wanted` needs `PressHolds` and `ReleaseForgets`: what pressing and releasing a usage
does to the set held, whatever slots it is in. Without `CanCrash = FALSE` these are
false: a restarted daemon knows nothing of what the target believes. `SessionEnd` rests
on what is left of `LeaseInv`, `EndInv`: a detached target has nothing down, and between
the two reports of `release_all` the first has done its half. `NewestInv` relates the
newest position, the pending one and the one last reported while a session runs.

### Router

`TypeCorrect` (no run repeats it); `Published` (`PublishedTruth`) from `TruthInv`: a router that is
remote has a connection, and the state file is true at every step of the loop and not
only where it waits; `BackAtEdge` (`CursorAtEdge`); and `Quiet` (`QuietWhenLocal`), from `QuietInv`:
while the router is local, whatever the target holds or a message on the wire presses
is followed by a RELEASE_ALL on the wire (`Covered`), and without a crash nothing is
down where there is no session. `Quiet` assumes that the bridge is not killed, or that
the router never ends and is never restarted (`NeverEnds`): together they are the case
above in which nothing releases.

`UsesLease`: unless the bridge is killed, every step of `Router` is a grant, a use or a return
of the lease at its far end, or leaves it alone (`LeaseKept`). With `ImplementsLease` of `Bridge`,
under the same condition, this is what lets `Router` stand on the lease instead of on the daemon.

`KeepsStep` (`InStep`), for threads none of which lags (`Racing = {}`) and no lock (`NoLock`):
`StepInv` says that what the channel still holds is the whole difference between the two
ideas of who has the input (`Agreed`). Every activation in it is newer than those before
(`Growing`); the one captured for has been taken or is in it, with nothing behind it that ends it
(`Current`); and every other one has something behind it that does (`Stale`). The
rest is what taking an event, adding one and giving a capture back do to such a queue.
Without the hypothesis it is false, as the lock above and `RouterReorder` show.

### Pointer

One inductive invariant, `Inv`, for `TypeCorrect`, `CaptureHonest` (`CaptureMatchesSpace`),
`NoPositionLost` (`NewestKept`) and `ScrollingAddsUp` (`WheelKept`). `LandsExactly`
(`Landing`) assumes a remote screen no wider than the range of coordinates (65535), and
rests on lemmas about rounded division. `ClicksLand` (`ActsAtNewest`) and `LeavesLevel`
(`Level`) are action properties.

### AgentRelay

`TypeCorrect`; `PumpFollows` (`PumpFollowsServed`), which is inductive with the types; and
`NoneIsForgotten`, any faults: the relay serves one connection at a time, and one that the
agent has closed is served or still in the backlog, so that its end is read; none is
used again before both ends have let go (`NoneForgotten`; it has no run). `OwnedInv` has a part
for each end: a connection that lives at the Pi is the one served or in the backlog, once
(`AtPi`, `Distinct`), and one that is closed belongs to no thread of the agent (`AtAgent`). That
the agent closes what it no longer uses is another matter: it does not, which is `AgentReboot`.

### Transfer

- `TypeCorrect`.
- `WindowProtects` (`NothingLost`), for `Window + 2 <= Queue`: the queue must have room
  for a window, a START and an END. The invariant `Calm` says that until something
  is disturbed every count of the sender's is of frames already read, so that at most
  `Window + 2` are in the queue.
- `Delivery` (`AllArrive`), on the same condition, from `Flow`: while a payload is being
  sent the queue is the rest of its frames in order, and the reassembler has just the
  ones before. A sequence number that wraps is compared with its neighbour only, which
  is the arithmetic of `Remainder` and `RemainderIs`; that payloads too long are
  refused and do not count is `Rank`.
- `Framed` (`InSequence`), whatever is lost, stalls or breaks off, on no condition: what
  arrives begins with one payload and ends with one of the same length, and each piece is
  from one of those between and has the sequence number of its place. The invariant `Whole` says
  the same of what the reassembler holds, with the frames still queued all of the same or later payloads.
- `NoMixture` (`Integrity`): with `Distinct` and `InRange`, that is one payload, whole.
- `ImplementsMailbox` (`ArrivesInOrder`), on the same condition: `Spec => Mail!MailSpec`. Taking
  up a payload is `TakeUp`, the END that completes one is `Arrive`, all else stutters. That it
  comes after nothing later rests on `Ended` and `Passed`: the END of a payload is put once and
  last, so what has arrived came before all that is under way.

### ClipSync

- `TypeCorrect`.
- `MovedOnRequest` (`OnlyAsked`), any faults: `AskedInv` follows a batch from the copy,
  after which everything that names it is at least `"copied"`, to the crossing, after
  which what is requested, pulled or sent is `"yes"`; a crossing that waits in `rx`
  vouches for the offers before it.
- `RightOneArrives` (`RightBatch`): `toLinux` and `rx` are one stream in the order in
  which the send loop sent it. `Order` says that each batch on the way follows its own
  offer with no other between, and that what the send loop has on offer is what it
  offered last; that it sends nothing else is the guard of `TakePull`.
- `EveryPullAnswered` (`PullAnswered`): while the requested offer still stands on both
  sides with no other on the way (`Standing`), the newest PULL is for it (`Coming`): in
  flight, left for the send loop, or taken by it. A send that is given up for want of
  ACKs has a second PULL behind it.

These two are about runs in which no connection and no transfer fails.

- `LastWins` (`LastCopyWins`), any faults: they, and a copy made too soon, only excuse. `WinsInv`
  follows a copy that is not excused through its stages (`Stage`: not yet looked at, on its way
  or arrived, or a batch held out whose crossing or PULL is still to be answered), and says that
  all that moves between the machines meanwhile is of this copy (`Pure`). Neither half is
  inductive alone: that nothing else is under way comes from the moment of the copy
  (it is excused otherwise) and is kept by what each agent takes for its own write. That no crossing
  is owed for a copy not yet on offer rests on `OfferKept`: what an agent holds out is what it sent last.
- `NotEchoed` (`NotSentBack`), any faults. `EchoInv` says what each side still has to look at
  while the last copy is not excused (`Silent`): the applier has set nothing else; of a copy made on Linux,
  what the helper has yet to look at has been set by its applier, and recorded or about to be (`SetOrSetting`), which is
  the exception the property makes; of one made on Windows, what the watcher has yet to
  look at on Linux is what the agent has set and recorded (`SetBefore`).

### Only model-checked

Every safety property of the passing runs is a theorem; `LeaseHeld` and `ArrivesInOrder`, the two
refinements, are as well. What stays with TLC is liveness, which is beyond the prover:
`Reclaimed`, `ShutdownReleases`, `NoStuckInput`, `NeverIntoVoid`, `EmergencyWorks`, `Rearmed`,
`ShutdownCleans`, `FailsafeHeals`, `SilenceDetected`, `RestartRecovers`, `SenderReturns`.

## Plan

Done: all modules and theorems above. Left, in the order of what they would add:

1. Overlapping copies: what `LastCopyWins` and `NotSentBack` could promise if the applier
   recorded before it set.
2. `InStep` with the lock, once more precise about which unlock ends which capture.
3. Wi-Fi self-heal: its bounded retries under the lock and across a power cut.

## Not modelled, and why

- Key and button tables: a constant table that its unit tests enumerate.
- Tray, command line tools, probes, gadget scripts, D-Bus session creation, the
  reopening of the HID device on Windows: UI or I/O with no order of events to get
  wrong beyond what the modules above have.
- Tar packing, staging and clean-up of batches: file-system work; in `ClipSync` a batch
  is its signature, and packing or staging may fail.
- Image formats: conversions with no state. Images are contents like texts.
- The bytes of the relay's socket: PONG and pump frames are written by two threads, and
  `AgentRelay` takes a frame as written whole. A write of 1 KB to a socket with
  room for it is; a peer that does not read could see one torn, but the agent's reader
  never stops reading while its connection lasts.
- Wi-Fi self-heal: one instance under flock that shares no state with the rest; each of
  its steps is an external command (`nmcli`, `ip`, `ping`) whose effect is not in the code.
- Latency statistics and log lines: nothing depends on them.
- The bridge's read of single bytes: a frame is whole or a `partial` flag; what a
  partial frame can do is renew the deadline, and that is in the model.
- Time: a timeout is a fact that becomes true, never a duration, so that every
  race between a timeout and an answer is possible.

## Running

    tlc -config BridgeSessions.cfg MCBridge.tla
    tlapm BridgeProofs.tla

`PROJECT.json` lists for each run its module and properties, for each property a
mutation of the modelled code that the run detects, for each definition the lines
it models, and the hazards the properties are there for.
