----------------------------- MODULE ClipSync -----------------------------
(***************************************************************************)
(* The clipboards of the two machines and the agents that keep them alike: *)
(* clipboard.rs on Linux and the Windows helper's main.rs.  Text is sent   *)
(* when it is copied.  A file batch is only offered, and moves when the    *)
(* user crosses over or asks for it.  An agent knows what it has handled   *)
(* by the hash of what it last sent and last set.                          *)
(*                                                                         *)
(* A transfer is one message here: module Transfer is about its frames,    *)
(* module AgentRelay about the connection.  Images go the way of text.     *)
(***************************************************************************)
EXTENDS Integers, Sequences

CONSTANTS Texts,      \* texts that may be copied
          Lined,      \* those of more than one line: LF on Linux, CRLF on Windows
          Files,      \* file batches, by their signature
          MaxCopies,  \* most copies the user makes (bound)
          MaxMoves,   \* most crossings and explicit pulls (bound)
          Faults,     \* which of link (lost), send (comes to nothing), apply (fails) happen
          MaxFaults   \* most of them (bound)

ASSUME ClipSyncAssumption ==
    /\ Lined \subseteq Texts /\ Texts \cap Files = {} /\ "none" \notin Texts \cup Files
    /\ MaxCopies \in Nat /\ MaxMoves \in Nat /\ MaxFaults \in Nat
    /\ Faults \subseteq {"link", "send", "apply"}

Sides == {"linux", "windows"}
Names == Texts \cup Files
\* A content as one of the machines holds it; its hash is the hash of this form.
Contents == [name : Names, eol : {"lf", "crlf"}]
None == [name |-> "none", eol |-> "lf"]
Lazy(c) == c.name \in Files
On(s, n) == [name |-> n, eol |-> IF s = "windows" /\ n \in Lined THEN "crlf" ELSE "lf"]
NoOffer == [of |-> None, requested |-> FALSE]

VARIABLES clip,         \* what is on each machine's clipboard
          lastSent, lastSet, localOffer,   \* per agent
          prev,         \* the Linux watcher's last hash
          rx,           \* the Linux agent's events: copied, the crossings, frames data, offer, pull
          remoteOffer,  \* what Linux may pull from Windows
          link,         \* the agent's session: up, broken (not noticed yet), down
          fresh,        \* Windows' clipboard sequence number differs from last_seq
          polled,       \* content the Windows send loop has read and not yet compared
          pullRequest,  \* the PULL the Windows reader left for the send loop
          sending,      \* the batch the send loop is sending, with pull_request locked
          applyQueue,   \* transfers complete, on the way to the applier
          applied,      \* content the applier has set and not yet recorded in last_set
          toWindows, toLinux,              \* messages in flight
          copies, moves, faults,
          last,         \* ghost: the newest copy and its machine
          owed,         \* ghost: the user has crossed for it while it was on offer
          asked,        \* ghost: no, copied, or yes: a crossing since the batch was first copied
          excused       \* ghost: LastCopyWins need not hold
linux == <<prev, rx, remoteOffer, link>>
windows == <<fresh, polled, pullRequest, sending, applyQueue, applied>>
user == <<copies, moves, last, owed, asked>>
vars == <<clip, lastSent, lastSet, localOffer, linux, windows, toWindows, toLinux,
          user, faults, excused>>

Init == /\ clip = [s \in Sides |-> None]
        /\ lastSent = [s \in Sides |-> None] /\ lastSet = [s \in Sides |-> None]
        /\ localOffer = [s \in Sides |-> None]
        /\ prev = None /\ rx = << >> /\ remoteOffer = NoOffer /\ link = "up"
        /\ fresh = FALSE /\ polled = None /\ pullRequest = None /\ sending = None
        /\ applyQueue = << >> /\ applied = None
        /\ toWindows = << >> /\ toLinux = << >>
        /\ copies = 0 /\ moves = 0 /\ faults = 0
        /\ last = [side |-> "linux", of |-> None] /\ owed = FALSE
        /\ asked = [f \in Files |-> "no"]
        /\ excused = FALSE

Msg(kind, c) == [t |-> kind, of |-> c]
\* Mutant: only what was sent is remembered.
KnownSent(s, c) == c = lastSent[s]
Known(s, c) == c = lastSent[s] \/ c = lastSet[s]
Fault(f) == f \in Faults /\ faults < MaxFaults /\ faults' = faults + 1 /\ excused' = TRUE
Calm == UNCHANGED <<faults, excused>>
\* A batch that is not the newest copy any more is sent all the same.
Moves(s, c) == UNCHANGED faults /\ excused' = (excused \/ last # [side |-> s, of |-> c])
-----------------------------------------------------------------------------
(* The Linux agent: the watcher and the reader post events, the main loop takes them. *)

\* spawn_watcher: a hash other than the last one seen
Watch == /\ clip["linux"] # None /\ clip["linux"] # prev
         /\ prev' = clip["linux"] /\ rx' = Append(rx, Msg("copied", clip["linux"]))
         /\ UNCHANGED <<clip, lastSent, lastSet, localOffer, remoteOffer, link, windows,
                        toWindows, toLinux, user>> /\ Calm

Receive == /\ link = "up" /\ toLinux # << >>
           /\ rx' = Append(rx, Head(toLinux)) /\ toLinux' = Tail(toLinux)
           /\ UNCHANGED <<clip, lastSent, lastSet, localOffer, prev, remoteOffer, link, windows,
                          toWindows, user>> /\ Calm

Event == Head(rx).of
Handle(kind) == /\ link # "down" /\ rx # << >> /\ Head(rx).t = kind
                /\ rx' = Tail(rx) /\ UNCHANGED <<prev, windows, toLinux, user>>

\* A write to a connection that is gone fails, or is swallowed by the kernel.
Write(ms) == /\ toWindows' = IF link = "up" THEN toWindows \o ms ELSE toWindows
             /\ UNCHANGED link
WriteFails == link = "broken" /\ link' = "down" /\ UNCHANGED toWindows
\* Five seconds without an ACK, twice; a batch that cannot be packed: the payload is given up.
GivenUp == Fault("send") /\ UNCHANGED <<toWindows, link>>

Skip == Handle("copied") /\ Known("linux", Event)
        /\ UNCHANGED <<clip, lastSent, lastSet, localOffer, remoteOffer, link, toWindows>> /\ Calm

NewLocal == Handle("copied") /\ ~Known("linux", Event) /\ UNCHANGED <<clip, lastSet, remoteOffer>>

OfferFiles == /\ NewLocal /\ Lazy(Event) /\ Write(<<Msg("offer", Event)>>)
              /\ localOffer' = [localOffer EXCEPT !["linux"] = Event]
              /\ lastSent' = [lastSent EXCEPT !["linux"] = Event] /\ Calm

\* Sent or given up: last_sent either way
SendText == /\ NewLocal /\ ~Lazy(Event)
            /\ localOffer' = [localOffer EXCEPT !["linux"] = None]
            /\ lastSent' = [lastSent EXCEPT !["linux"] = Event]
            /\ (Write(<<Msg("data", Event)>>) /\ Calm) \/ GivenUp

\* break 'session: the watcher does not post this copy again.
LocalFails == /\ NewLocal /\ WriteFails
              /\ localOffer' = IF Lazy(Event) THEN localOffer ELSE [localOffer EXCEPT !["linux"] = None]
              /\ UNCHANGED lastSent /\ Calm

\* A path of the batch is unreadable by now: nothing is offered.
LocalGone == /\ NewLocal /\ Lazy(Event) /\ Fault("send")
             /\ UNCHANGED <<lastSent, localOffer, link, toWindows>>

\* handle_frame, a complete transfer: line endings normalised, files staged
Arrival == On("linux", Event.name)
Recorded == /\ lastSet' = [lastSet EXCEPT !["linux"] = Arrival]
            /\ remoteOffer' = IF Lazy(Arrival) THEN NoOffer ELSE remoteOffer
DataArrives == /\ Handle("data") /\ Recorded
               /\ clip' = [clip EXCEPT !["linux"] = Arrival]
               /\ UNCHANGED <<lastSent, localOffer, link, toWindows>> /\ Calm
\* Unpacking fails, or xclip: one that has taken its input counts as set, whatever its status.
DataFails == /\ Handle("data") /\ Fault("apply")
             /\ Recorded \/ UNCHANGED <<lastSet, remoteOffer>>
             /\ UNCHANGED <<clip, lastSent, localOffer, link, toWindows>>

\* Mutant: a new offer inherits the request of the one before.
OfferInherits == /\ Handle("offer") /\ remoteOffer' = [remoteOffer EXCEPT !.of = Event]
                 /\ UNCHANGED <<clip, lastSent, lastSet, localOffer, link, toWindows>> /\ Calm
\* Mutant: files move on copy, not on crossing.
OfferPulled == /\ Handle("offer") /\ remoteOffer' = [of |-> Event, requested |-> TRUE]
               /\ Write(<<Msg("pull", Event)>>) /\ UNCHANGED <<clip, lastSent, lastSet, localOffer>> /\ Calm
OfferArrives == /\ Handle("offer") /\ remoteOffer' = [of |-> Event, requested |-> FALSE]
                /\ UNCHANGED <<clip, lastSent, lastSet, localOffer, link, toWindows>> /\ Calm

\* A crossing ("remote", "local") or the CLI's pull ("both"): the local offer is pushed, the
\* remote one pulled, unless it has been requested and this is only a crossing.
Pushes(m) == m # "local" /\ localOffer["linux"] # None
\* Mutant: the offer is requested whether there is one or not.
PullsNothing(m) == m # "remote" /\ (remoteOffer.requested => m = "both")
\* Mutant: a crossing takes the batches the wrong way.
PullsOnLeaving(m) == m # "local" /\ remoteOffer.of # None /\ (remoteOffer.requested => m = "both")
Pulls(m) == m # "remote" /\ remoteOffer.of # None /\ (remoteOffer.requested => m = "both")
Requested(m) == IF Pulls(m) THEN [remoteOffer EXCEPT !.requested = TRUE] ELSE remoteOffer
PullFor(m) == IF Pulls(m) THEN <<Msg("pull", remoteOffer.of)>> ELSE << >>

Control(m) == Handle(m) /\ UNCHANGED <<clip, lastSent, lastSet>>
Crossed(m) == /\ Control(m) /\ remoteOffer' = Requested(m)
              /\ IF Pushes(m)
                 THEN /\ \/ /\ Write(<<Msg("data", localOffer["linux"])>> \o PullFor(m))
                            /\ localOffer' = [localOffer EXCEPT !["linux"] = None]
                            /\ Moves("linux", localOffer["linux"])
                         \/ Write(PullFor(m)) /\ Fault("send") /\ UNCHANGED localOffer
                 ELSE Write(PullFor(m)) /\ UNCHANGED localOffer /\ Calm
\* The offer was taken before the push that broke off; a request that broke off stays made.
CrossedFails(m) == /\ Control(m) /\ WriteFails /\ Calm
                   /\ Pushes(m) \/ Pulls(m)
                   /\ localOffer' = IF Pushes(m) THEN [localOffer EXCEPT !["linux"] = None] ELSE localOffer
                   /\ remoteOffer' \in {Requested(m)} \cup (IF Pushes(m) THEN {remoteOffer} ELSE {})

\* Disconnected, or 30 s of silence; 2 s later the next session.
SessionEnds == /\ link = "broken" /\ link' = "down"
               /\ UNCHANGED <<clip, lastSent, lastSet, localOffer, prev, rx, remoteOffer, windows,
                              toWindows, toLinux, user>> /\ Calm
Reconnect == /\ link = "down" /\ link' = "up"
             /\ UNCHANGED <<clip, lastSent, lastSet, localOffer, prev, rx, remoteOffer, windows,
                            toWindows, toLinux, user>> /\ Calm
-----------------------------------------------------------------------------
(* The Windows helper: the reader, the applier and the send loop. *)

near == <<linux, user>>

Read(kind) == /\ toWindows # << >> /\ Head(toWindows).t = kind /\ toWindows' = Tail(toWindows)
              /\ UNCHANGED <<clip, lastSent, lastSet, localOffer, fresh, polled, sending, applied,
                             toLinux, near>> /\ Calm
ReadData == Read("data") /\ applyQueue' = Append(applyQueue, Head(toWindows).of) /\ UNCHANGED pullRequest
\* An OFFER from Linux is only logged: Linux pushes on its own.
ReadOffer == Read("offer") /\ UNCHANGED <<applyQueue, pullRequest>>
\* The send loop holds the lock of pull_request for as long as it sends the batch.
Blocked == sending # None /\ toWindows # << >> /\ Head(toWindows).t = "pull"
ReadPull == Read("pull") /\ ~Blocked /\ pullRequest' = Head(toWindows).of /\ UNCHANGED applyQueue

\* The applier sets the clipboard first ...
ApplySet == /\ applyQueue # << >> /\ applied = None
            /\ LET c == On("windows", Head(applyQueue).name)
               IN clip' = [clip EXCEPT !["windows"] = c] /\ applied' = c
            /\ fresh' = TRUE /\ applyQueue' = Tail(applyQueue)
            /\ UNCHANGED <<lastSent, lastSet, localOffer, polled, pullRequest, sending,
                           toWindows, toLinux, near>> /\ Calm
\* ... and records it second.
ApplyRecord == /\ applied # None
               /\ lastSet' = [lastSet EXCEPT !["windows"] = applied] /\ applied' = None
               /\ UNCHANGED <<clip, lastSent, localOffer, fresh, polled, pullRequest, sending,
                              applyQueue, toWindows, toLinux, near>> /\ Calm
\* The clipboard cannot be opened, an image decoded or a batch staged.
ApplyFails == /\ applyQueue # << >> /\ applied = None /\ Fault("apply")
              /\ applyQueue' = Tail(applyQueue)
              /\ UNCHANGED <<clip, lastSent, lastSet, localOffer, fresh, polled, pullRequest, sending,
                             applied, toWindows, toLinux, near>>

\* The relay has no client to pass a frame to while the agent reconnects.
ToLinux(m) == toLinux' = IF link = "up" THEN Append(toLinux, m) ELSE toLinux

SendLoop == /\ sending = None /\ polled = None
            /\ UNCHANGED <<clip, lastSent, lastSet, localOffer, applyQueue, applied,
                           toWindows, toLinux, near>> /\ Calm
\* Mutant: the PULL is served whatever it is for.
TakeAnyPull == /\ SendLoop /\ pullRequest # None /\ pullRequest' = None /\ sending' = pullRequest
               /\ UNCHANGED <<fresh, polled>>
\* The loop looks for a PULL first.
TakePull == /\ SendLoop /\ pullRequest # None /\ pullRequest' = None
            /\ sending' = IF pullRequest = localOffer["windows"] THEN pullRequest ELSE None
            /\ UNCHANGED <<fresh, polled>>
Poll == /\ SendLoop /\ pullRequest = None /\ fresh
        /\ fresh' = FALSE /\ polled' = clip["windows"]
        /\ UNCHANGED <<pullRequest, sending>>

Sending == /\ sending # None /\ sending' = None
           /\ UNCHANGED <<clip, lastSent, lastSet, fresh, polled, pullRequest, applyQueue, applied,
                          toWindows, near>>
FilesSent == /\ Sending /\ ToLinux(Msg("data", sending)) /\ Moves("windows", sending)
             /\ localOffer' = [localOffer EXCEPT !["windows"] = None]
\* Given up, and the offer kept: for want of ACKs, which a blocked reader does not take in.
FilesGivenUp == /\ Sending /\ UNCHANGED <<localOffer, toLinux>>
                /\ (Blocked /\ Calm) \/ Fault("send")

Decide == /\ polled # None /\ polled' = None
          /\ UNCHANGED <<clip, lastSet, fresh, pullRequest, sending, applyQueue, applied, toWindows, near>>
Stale == Decide /\ Known("windows", polled) /\ UNCHANGED <<lastSent, localOffer, toLinux>> /\ Calm
OfferPolled == /\ Decide /\ ~Known("windows", polled) /\ Lazy(polled)
               /\ \/ /\ ToLinux(Msg("offer", polled)) /\ Calm
                     /\ localOffer' = [localOffer EXCEPT !["windows"] = polled]
                     /\ lastSent' = [lastSent EXCEPT !["windows"] = polled]
                  \/ Fault("send") /\ UNCHANGED <<lastSent, localOffer, toLinux>>
SendPolled == /\ Decide /\ ~Known("windows", polled) /\ ~Lazy(polled)
              /\ localOffer' = [localOffer EXCEPT !["windows"] = None]
              /\ lastSent' = [lastSent EXCEPT !["windows"] = polled]
              /\ (ToLinux(Msg("data", polled)) /\ Calm) \/ (Fault("send") /\ UNCHANGED toLinux)
-----------------------------------------------------------------------------
(* The user, and the connection. *)

\* Nothing is under way between the two clipboards.
Idle == /\ rx = << >> /\ toWindows = << >> /\ toLinux = << >> /\ applyQueue = << >>
        /\ applied = None /\ polled = None /\ sending = None /\ pullRequest = None /\ ~fresh
        /\ clip["linux"] \in {None, prev} /\ link = "up"

\* What its agent would not act on: the content it has sent or set last, or has just looked at
Unnoticed(s, c) == Known(s, c) \/ (s = "linux" /\ c = prev)
\* Excused: a copy before the one before has settled, or that its agent does not notice.
Copy(s, n) == /\ copies < MaxCopies /\ copies' = copies + 1
              /\ clip' = [clip EXCEPT ![s] = On(s, n)]
              /\ fresh' = IF s = "windows" THEN TRUE ELSE fresh
              /\ last' = [side |-> s, of |-> On(s, n)] /\ owed' = FALSE
              /\ asked' = [f \in Files |-> IF f = n /\ asked[f] = "no" THEN "copied" ELSE asked[f]]
              /\ excused' = (~Idle \/ Unnoticed(s, On(s, n)))
              /\ UNCHANGED <<lastSent, lastSet, localOffer, linux, polled, pullRequest, sending,
                             applyQueue, applied, toWindows, toLinux, moves, faults>>

\* The newest copy is on offer: its agent holds it out, and the other knows of it.
Has(s, t) == \E x \in 1..Len(s) : s[x].t = t
Offering == Has(toLinux, "offer") \/ Has(rx, "offer")
OnOffer == /\ clip[last.side] = last.of /\ localOffer[last.side] = last.of
           /\ last.side = "windows" => remoteOffer.of = last.of

\* The router's crossings and the CLI, through the control socket
Move(m) == /\ moves < MaxMoves /\ moves' = moves + 1
           /\ rx' = Append(rx, Msg(m, None))
           /\ owed' = (owed \/ (OnOffer /\ ~Offering /\ m # (IF last.side = "linux" THEN "local" ELSE "remote")))
           /\ asked' = [f \in Files |-> IF asked[f] = "copied" THEN "yes" ELSE asked[f]]
           /\ UNCHANGED <<clip, lastSent, lastSet, localOffer, prev, remoteOffer, link, windows,
                          toWindows, toLinux, copies, last>> /\ Calm

LinkLost == /\ Fault("link") /\ link = "up" /\ link' = "broken"
            /\ toLinux' = << >> /\ toWindows' \in {toWindows, << >>}
            /\ UNCHANGED <<clip, lastSent, lastSet, localOffer, prev, rx, remoteOffer, windows, user>>
-----------------------------------------------------------------------------
Moving == {"remote", "local", "both"}
Main == \/ Skip \/ OfferFiles \/ SendText \/ LocalFails \/ LocalGone \/ DataArrives \/ DataFails
        \/ OfferArrives \/ SessionEnds \/ Reconnect
        \/ \E m \in Moving : Crossed(m) \/ CrossedFails(m)
Reader == ReadData \/ ReadOffer \/ ReadPull
Applier == ApplySet \/ ApplyRecord \/ ApplyFails
Loop == TakePull \/ Poll \/ FilesSent \/ FilesGivenUp \/ Stale \/ OfferPolled \/ SendPolled
User == (\E s \in Sides, n \in Names : Copy(s, n)) \/ (\E m \in Moving : Move(m)) \/ LinkLost

Next == Watch \/ Receive \/ Main \/ Reader \/ Applier \/ Loop \/ User
Spec == Init /\ [][Next]_vars

\* Every thread of the agents runs.  Nothing is assumed of the user or of the faults.
Fairness == /\ WF_vars(Watch) /\ WF_vars(Receive) /\ WF_vars(Main)
            /\ WF_vars(Reader) /\ WF_vars(Applier) /\ WF_vars(Loop)
FairSpec == Spec /\ Fairness
-----------------------------------------------------------------------------
(* Properties *)

Messages == [t : {"data", "offer", "pull"}, of : Contents]

\* The type invariant of the two agents and what is between them.
TypeOK == /\ \A f \in {clip, lastSent, lastSet, localOffer} : f \in [Sides -> Contents \cup {None}]
          /\ {prev, polled, pullRequest, sending, applied, remoteOffer.of} \subseteq Contents \cup {None}
          /\ rx \in Seq(Messages \cup [t : {"copied"}, of : Contents] \cup [t : Moving, of : {None}])
          /\ toWindows \in Seq(Messages) /\ toLinux \in Seq(Messages) /\ applyQueue \in Seq(Contents)
          /\ link \in {"up", "broken", "down"} /\ {fresh, remoteOffer.requested, excused} \subseteq BOOLEAN

\* Copied text arrives at once, a batch "when the user crosses over" (clipboard.rs:4-7): when
\* nothing is under way, both machines have the last copy; or it is a batch on offer, and the
\* user has not crossed over since.  A crossing before the offer is made, up to half a second
\* after the copy, or before it has arrived does not count: it fetches nothing.
Alike == clip["linux"].name = last.of.name /\ clip["windows"].name = last.of.name
LastCopyWins == Idle /\ ~excused /\ last.of # None => Alike \/ (OnOffer /\ ~owed)

\* "Copies that never cross machines never transfer" (clipboard.rs:8).
InFlight == {toWindows[i] : i \in DOMAIN toWindows} \cup {toLinux[i] : i \in DOMAIN toLinux}
OnlyAsked == \A m \in InFlight : m.t = "data" /\ Lazy(m.of) => asked[m.of.name] = "yes"

\* A batch that arrives is the one Linux has on offer: none is taken for another, and no
\* offer forgotten for the arrival of another.  (With a connection lost it may be: a batch
\* copied, replaced and copied again, whose second offer was lost, takes the replacement's.)
RightBatch == [][ DataArrives /\ Lazy(Event) /\ faults = 0 => remoteOffer.of \in {Event, None} ]_vars

\* A pull is answered: when nothing is under way, no batch is both requested and still held
\* out, unless a send has come to nothing.
PullAnswered == Idle /\ remoteOffer.requested /\ faults = 0 => localOffer["windows"] # remoteOffer.of

\* "Echo loops are broken by hashing what we last sent and last set" (clipboard.rs:13-14): as
\* long as copies do not overlap, an agent sends or offers only what its own user copied last.
\* One exception: the helper looks between the applier's setting of a content and recording it.
NotSentBack == [][ ~excused /\ last.of # None =>
    /\ SendText \/ OfferFiles => last = [side |-> "linux", of |-> Event]
    /\ SendPolled \/ OfferPolled => last = [side |-> "windows", of |-> polled] \/ polled = applied ]_vars

\* The same words, of any copies: when the user has stopped copying, the agents come to rest.
ComesToRest == <>[]Idle

\* "Reader thread: reads, ACKs, hands off.  Never blocks on anything but the device read
\* itself" (windows/clipboard-agent/src/main.rs:339).
ReaderNeverBlocks == ~Blocked
===========================================================================
